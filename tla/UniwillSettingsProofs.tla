-------------------------- MODULE UniwillSettingsProofs --------------------------
(***************************************************************************)
(* Proofs about UniwillSettings, for any number of programs and events,    *)
(* stores, sleeps and failures: a setting in the EC is the one chosen      *)
(* last, programs are told what is in force, and a machine asleep is dark. *)
(*                                                                         *)
(* None is inductive.  While a setting is not the one chosen, some thread  *)
(* is about to write it, or an update under way is marked as overlapped,   *)
(* after which what was chosen is not known (OwesInv, LastInv).  This      *)
(* needs that an update that is not marked is alone in its register and    *)
(* that what it has read is still there (AloneInv, HeldInv), and these     *)
(* which updates there are (Updates) and who may have which (OwnersInv,    *)
(* StateInv, AvailInv): only stores change what the LED core remembers,    *)
(* one at a time, and an event or resume restores all that may have been   *)
(* forgotten.                                                              *)
(***************************************************************************)
EXTENDS UniwillSettings, Integers, SequenceTheorems, FiniteSetTheorems, TLAPS

-----------------------------------------------------------------------------
(* The settings in the EC                                                  *)

Remembered == {"prio", "profile", "brightness", "colour", "mini_led"}
Groups == Fields \cup {"leds", "offer"}

\* The updates there are.  One that is remembered is remembered with the value
\* it writes, one with a remembered value is not remembered again.
Updates ==
  {op \in [do : {"update", "read", "notify", "offer", "withdraw", "off"}, f : Fields, v : Nat, keep : Nat,
           group : Groups, how : {"asked", "restored", "raced", "black"}] :
     /\ op.group = "offer" <=> op.do \in {"offer", "withdraw", "off"}
     /\ op.how = "black" => op.do = "update" /\ op.f = "brightness" /\ op.v = 0 /\ op.keep # Unknown
     /\ op.do = "read" => op.f \in {"disabled", "prio", "profile"} /\ op.how # "asked"
     /\ op.do = "notify" => op.f = "brightness" /\ op.how # "restored"
     /\ op.do = "update" =>
          /\ op.v # Unknown
          /\ op.v = Last => op.f \in Remembered /\ op.keep = Unknown /\ op.how # "asked"
          /\ op.v # Last => op.how # "restored"
          /\ op.keep # Unknown => op.f \in Remembered \ {"colour"}
          /\ op.f \in Remembered \ {"colour"} /\ op.how = "asked" => op.keep = op.v}

Busy(t) == phase[t] # "start"

\* What a list of updates is made of.
Elems(s) == {s[i] : i \in 1 .. Len(s)}

SettingTypes ==
  /\ regs \in [Fields -> Nat] /\ chosen \in [Fields -> Nat] /\ last \in [Remembered -> Nat]
  /\ on_start \in Nat
  /\ todo \in [Threads -> Seq(Updates)]
  /\ phase \in [Threads -> {"start", "write", "keep"}]
  /\ DOMAIN held = Threads
  /\ \A t \in Threads : Busy(t) =>
       /\ ~Idle(t) /\ Now(t).do \in {"update", "read", "notify"}
       /\ held[t] \in [Same(Now(t).f) -> Nat]
       /\ phase[t] = "write" => Now(t).do = "update"
       /\ phase[t] = "keep" /\ Now(t).do = "update" => Now(t).keep # Unknown

\* Two updates of one register that overlap are marked, both.
AloneInv ==
  \A t, o \in Threads : t # o /\ Busy(t) /\ Busy(o) /\ Now(t).f \in Same(Now(o).f) => Now(t).how = "raced"

\* Unless an update is marked, what it is to write to its register is what the
\* register has, but for its own field, and that gets the value chosen.
HeldInv ==
  \A t \in Threads : Busy(t) /\ Now(t).how # "raced" =>
    /\ \A g \in Same(Now(t).f) : g # Now(t).f \/ phase[t] = "keep" => held[t][g] = regs[g]
    /\ Now(t).do = "update" /\ Now(t).v # Last => held[t][Now(t).f] = Now(t).v
    /\ Now(t).do = "update" /\ Now(t).v = Last /\ chosen[Now(t).f] # Unknown
         => held[t][Now(t).f] = chosen[Now(t).f]

\* A thread that owes it to the EC to bring a field back to what was chosen, or
\* after which it is not known what was.
Pending(t, f) ==
  \E op \in Elems(todo[t]) : op.do = "update" /\ op.f = f /\ (op.v = Last \/ f = "custom")
Owes(t, f) ==
  \/ Busy(t) /\ f \in Same(Now(t).f) /\ (Now(t).how = "raced" \/ (Now(t).do = "update" /\ Now(t).f = f))
  \/ Pending(t, f)

OwesInv == \A f \in Fields : chosen[f] # Unknown /\ regs[f] # Wanted(f) => \E t \in Threads : Owes(t, f)

\* So for what the driver remembers.
Spoils(t, f) == Busy(t) /\ f \in Same(Now(t).f) /\ Now(t).how = "raced"
LastInv == \A f \in Remembered : chosen[f] # Unknown /\ last[f] # chosen[f] => \E t \in Threads : Spoils(t, f)

CoreInv == SettingTypes /\ AloneInv /\ HeldInv /\ OwesInv /\ LastInv

---------------------------------------------------------------------------
\* What each thread may have to do.  A user's colour is the one that the LED
\* core has, as it lets one store at a time into the LED.
Fits(t, op) ==
  /\ t \in Users =>
       /\ op.do = "update" /\ op.v # Last
       /\ op.f \in {"brightness", "colour"} => op.group = "leds"
       /\ op.f = "colour" => op.v = last["colour"]
  /\ t \in Handlers => op.do \in {"update", "notify"} /\ (op.f = "colour" => op.v = Last)
  /\ t = Driver =>
       /\ op.do # "notify" /\ (op.do = "update" /\ op.f = "colour" => op.v = Last)
       /\ state = "probing" /\ op.do = "update" => op.v # Last
       /\ op.do = "read" => state = "probing"
       /\ op.do \in {"withdraw", "off"} => state = "removing"

InLeds(t) == \E op \in Elems(todo[t]) : op.group = "leds"
Notifies(t) == \E op \in Elems(todo[t]) : op.do = "notify"

OwnersInv ==
  /\ \A t \in Threads : \A op \in Elems(todo[t]) : Fits(t, op)
  /\ \A t \in Threads : Notifies(t) => \A op \in Elems(todo[t]) : op.do = "notify"
  /\ \A u, o \in Users : u # o => ~InLeds(u) \/ ~InLeds(o)

\* Who may be at work in which state of the driver.
StateInv ==
  /\ state \in {"suspending", "asleep", "resuming"} => \A u \in Users : Idle(u)
  /\ state \in {"unbound", "probing", "removing"} => \A h \in Handlers : Idle(h)
  /\ state \in {"unbound", "bound", "asleep"} => Idle(Driver)
  /\ state \in {"unbound", "probing", "bound", "suspending", "asleep", "resuming", "removing"}

\* Charging is offered after probe.
AvailInv ==
  \A f \in {"prio", "profile"} :
    /\ state \in {"bound", "suspending", "asleep", "resuming"} => f \in available
    /\ state = "probing" => f \in available \/ Offer(f) \in Elems(todo[Driver])

SInv == CoreInv /\ OwnersInv /\ StateInv /\ AvailInv


---------------------------------------------------------------------------
\* The fields of one register.
LEMMA SameRegister ==
  /\ \A f \in Fields : f \in Same(f) /\ Same(f) \subseteq Fields
  /\ \A f, g \in Fields : g \in Same(f) => f \in Same(g) /\ Same(g) = Same(f)
<1> DEFINE Reg(f) == RegOf[f]
<1>1. \A f \in Fields : Same(f) = {g \in Fields : Reg(g) = Reg(f)}
  BY DEF Same, Sharing
<1> HIDE DEF Reg
<1> QED  BY <1>1

\* The names of the settings.
LEMMA FieldNames ==
  Fields = {"prio", "profile", "boot", "powershare", "apply", "fn_lock", "brightness", "disabled", "colour",
            "animation", "lightbar", "custom", "manual", "fixed_color5", "mini_led"}
BY DEF Fields, RegOf

\* Elements of a list and of its parts.
LEMMA ElemsParts ==
  ASSUME NEW S, NEW s \in Seq(S), s # <<>>
  PROVE  /\ Head(s) \in S /\ Tail(s) \in Seq(S) /\ Head(s) = s[1]
         /\ Elems(s) = {Head(s)} \cup Elems(Tail(s))
         /\ Len(s) \in Nat /\ Len(s) > 0 /\ Len(Tail(s)) = Len(s) - 1
         /\ \A i \in 1 .. Len(Tail(s)) : Tail(s)[i] = s[i + 1]
<1>1. /\ Len(s) \in Nat /\ Len(s) > 0 /\ Head(s) = s[1] /\ Head(s) \in S
      /\ Tail(s) \in Seq(S) /\ Len(Tail(s)) = Len(s) - 1
      /\ \A i \in 1 .. Len(Tail(s)) : Tail(s)[i] = s[i + 1]
  BY HeadTailProperties, EmptySeq
<1>2. ASSUME NEW x \in Elems(s) PROVE x = Head(s) \/ x \in Elems(Tail(s))
  <2>1. PICK i \in 1 .. Len(s) : x = s[i]
    BY <1>2 DEF Elems
  <2>2. CASE i = 1
    BY <1>1, <2>1, <2>2
  <2>3. CASE i # 1
    <3>1. PICK j \in 1 .. Len(Tail(s)) : i = j + 1
      <4>1. i - 1 \in 1 .. Len(Tail(s)) /\ i = (i - 1) + 1
        BY <1>1, <2>3
      <4> QED  BY <4>1
    <3> QED  BY <1>1, <2>1, <3>1 DEF Elems
  <2> QED  BY <2>2, <2>3
<1>3. Head(s) \in Elems(s)
  BY <1>1 DEF Elems
<1>4. ASSUME NEW x \in Elems(Tail(s)) PROVE x \in Elems(s)
  <2>1. PICK j \in 1 .. Len(Tail(s)) : x = Tail(s)[j]
    BY <1>4 DEF Elems
  <2>2. j + 1 \in 1 .. Len(s)
    BY <1>1
  <2> QED  BY <1>1, <2>1, <2>2 DEF Elems
<1>5. Elems(s) = {Head(s)} \cup Elems(Tail(s))
  BY <1>2, <1>3, <1>4
<1> QED  BY <1>1, <1>5

\* Elements of two lists, one after the other.
LEMMA ElemsConcat ==
  ASSUME NEW S, NEW s \in Seq(S), NEW u \in Seq(S)
  PROVE  s \o u \in Seq(S) /\ Elems(s \o u) = Elems(s) \cup Elems(u)
<1>1. /\ s \o u \in Seq(S) /\ Len(s \o u) = Len(s) + Len(u)
      /\ \A i \in 1 .. Len(s) + Len(u) : (s \o u)[i] = IF i <= Len(s) THEN s[i] ELSE u[i - Len(s)]
  BY ConcatProperties
<1>2. Len(s) \in Nat /\ Len(u) \in Nat
  BY LenProperties
<1>3. ASSUME NEW x \in Elems(s \o u) PROVE x \in Elems(s) \cup Elems(u)
  <2>1. PICK i \in 1 .. Len(s) + Len(u) : x = (s \o u)[i]
    BY <1>1, <1>3 DEF Elems
  <2>2. CASE i <= Len(s)
    <3>1. i \in 1 .. Len(s) /\ x = s[i]
      BY <1>1, <1>2, <2>1, <2>2
    <3> QED  BY <3>1 DEF Elems
  <2>3. CASE ~(i <= Len(s))
    <3>1. PICK j : j = i - Len(s)
      OBVIOUS
    <3>2. j \in 1 .. Len(u) /\ x = u[j]
      BY <1>1, <1>2, <2>1, <2>3, <3>1
    <3> QED  BY <3>2 DEF Elems
  <2> QED  BY <2>2, <2>3
<1>4. ASSUME NEW x \in Elems(s) PROVE x \in Elems(s \o u)
  <2>1. PICK i \in 1 .. Len(s) : x = s[i]
    BY <1>4 DEF Elems
  <2>2. i \in 1 .. Len(s) + Len(u) /\ i <= Len(s)
    BY <1>2
  <2>3. (s \o u)[i] = x
    BY <1>1, <2>1, <2>2
  <2> QED  BY <1>1, <2>2, <2>3 DEF Elems
<1>5. ASSUME NEW x \in Elems(u) PROVE x \in Elems(s \o u)
  <2>1. PICK j \in 1 .. Len(u) : x = u[j]
    BY <1>5 DEF Elems
  <2>2. PICK i : i = j + Len(s)
    OBVIOUS
  <2>3. i \in 1 .. Len(s) + Len(u) /\ ~(i <= Len(s)) /\ i - Len(s) = j
    BY <1>2, <2>2
  <2>4. (s \o u)[i] = x
    BY <1>1, <2>1, <2>3
  <2> QED  BY <1>1, <2>3, <2>4 DEF Elems
<1> QED  BY <1>1, <1>3, <1>4, <1>5

\* The shortest lists.
LEMMA ElemsShort ==
  ASSUME NEW S
  PROVE  /\ <<>> \in Seq(S) /\ Elems(<<>>) = {}
         /\ \A a \in S : <<a>> \in Seq(S) /\ Elems(<<a>>) = {a}
         /\ \A a, b \in S : <<a, b>> \in Seq(S) /\ Elems(<<a, b>>) = {a, b}
<1>1. <<>> \in Seq(S) /\ Elems(<<>>) = {}
  BY DEF Elems
<1>2. ASSUME NEW a \in S PROVE <<a>> \in Seq(S) /\ Elems(<<a>>) = {a}
  <2>1. Len(<<a>>) = 1 /\ <<a>>[1] = a
    OBVIOUS
  <2>2. \A i \in 1 .. 1 : i = 1
    OBVIOUS
  <2> QED  BY <2>1, <2>2 DEF Elems
<1>3. ASSUME NEW a \in S, NEW b \in S PROVE <<a, b>> \in Seq(S) /\ Elems(<<a, b>>) = {a, b}
  <2>1. Len(<<a, b>>) = 2 /\ <<a, b>>[1] = a /\ <<a, b>>[2] = b
    OBVIOUS
  <2>2. \A i \in 1 .. 2 : i = 1 \/ i = 2
    OBVIOUS
  <2> QED  BY <2>1, <2>2 DEF Elems
<1> QED  BY <1>1, <1>2, <1>3

\* A list has elements of its kind only, and some unless it is empty.
LEMMA ElemsOf ==
  ASSUME NEW S, NEW s \in Seq(S)
  PROVE  Elems(s) \subseteq S /\ (Elems(s) = {} <=> s = <<>>)
<1>1. Elems(s) \subseteq S
  BY ElementOfSeq DEF Elems
<1>2. ASSUME s # <<>> PROVE Elems(s) # {}
  <2>1. Head(s) \in {Head(s)} \cup Elems(Tail(s))
    OBVIOUS
  <2> QED  BY <1>2, <2>1, ElemsParts
<1> QED  BY <1>1, <1>2, ElemsShort

\* A marked update is still one, and only the mark differs.
LEMMA MarkedUpdate ==
  ASSUME NEW op \in Updates
  PROVE  /\ Raced(op) \in Updates
         /\ Raced(op).do = op.do /\ Raced(op).f = op.f /\ Raced(op).v = op.v /\ Raced(op).keep = op.keep
         /\ Raced(op).group = op.group /\ Raced(op).how = "raced"
BY DEF Raced, Updates

\* The list of a thread whose update is marked.
LEMMA MarkedList ==
  ASSUME SettingTypes, NEW o \in Threads, ~Idle(o)
  PROVE  /\ RaceWith(o) \in Seq(Updates) /\ RaceWith(o) # <<>>
         /\ Head(RaceWith(o)) = Raced(Now(o)) /\ Tail(RaceWith(o)) = Tail(todo[o])
         /\ Elems(RaceWith(o)) = {Raced(Now(o))} \cup Elems(Tail(todo[o]))
         /\ Len(RaceWith(o)) = Len(todo[o])
<1>1. todo[o] \in Seq(Updates) /\ todo[o] # <<>>
  BY DEF SettingTypes, Idle
<1>2. PICK r : r = Tail(todo[o])
  OBVIOUS
<1>3. Now(o) \in Updates /\ r \in Seq(Updates) /\ Len(todo[o]) \in Nat /\ Len(r) = Len(todo[o]) - 1
  BY <1>1, <1>2, ElemsParts DEF Now
<1>4. PICK x \in Updates : x = Raced(Now(o))
  BY <1>3, MarkedUpdate
<1>5. RaceWith(o) = <<x>> \o r
  BY <1>2, <1>4 DEF RaceWith
<1>6. <<x>> \in Seq(Updates) /\ Len(<<x>>) = 1
  BY <1>4
<1>7. /\ <<x>> \o r \in Seq(Updates) /\ Len(<<x>> \o r) = 1 + Len(r)
      /\ Elems(<<x>> \o r) = {x} \cup Elems(r)
  <2>1. <<x>> \o r \in Seq(Updates) /\ Len(<<x>> \o r) = Len(<<x>>) + Len(r)
    BY <1>3, <1>6, ConcatProperties
  <2>2. Elems(<<x>> \o r) = Elems(<<x>>) \cup Elems(r)
    BY <1>3, <1>6, ElemsConcat, ZenonT(40)
  <2>3. Elems(<<x>>) = {x}
    BY <1>4, ElemsShort
  <2> QED  BY <1>6, <2>1, <2>2, <2>3
<1>8. <<x>> \o r # <<>> /\ Head(<<x>> \o r) = x /\ Tail(<<x>> \o r) = r
  BY <1>3, <1>4
<1>9. Len(RaceWith(o)) = Len(todo[o])
  BY <1>3, <1>5, <1>7
<1> QED  BY <1>2, <1>4, <1>5, <1>7, <1>8, <1>9

\* A thread that does nothing, but whose update may be marked.
Stays(o) ==
  /\ phase'[o] = phase[o] /\ held'[o] = held[o]
  /\ todo'[o] = todo[o] \/ (Busy(o) /\ todo'[o] = RaceWith(o))

\* It has what it had to do, still owes what it owed and spoils what it spoiled.
LEMMA StaysSame ==
  ASSUME SettingTypes, NEW o \in Threads, Stays(o)
  PROVE  /\ todo'[o] \in Seq(Updates) /\ (Idle(o)' <=> Idle(o)) /\ (Busy(o)' <=> Busy(o))
         /\ Busy(o) => /\ Now(o)'.do = Now(o).do /\ Now(o)'.f = Now(o).f /\ Now(o)'.v = Now(o).v
                       /\ Now(o)'.keep = Now(o).keep /\ Now(o)'.how \in {Now(o).how, "raced"}
                       /\ (todo'[o] = RaceWith(o) => Now(o)'.how = "raced")
         /\ \A f \in Fields : (Pending(o, f) => Pending(o, f)') /\ (Owes(o, f) => Owes(o, f)')
                              /\ (Spoils(o, f) => Spoils(o, f)')
<1>1. Busy(o)' <=> Busy(o)
  BY DEF Stays, Busy
<1>2. CASE todo'[o] = todo[o] /\ ~(Busy(o) /\ todo'[o] = RaceWith(o))
  <2>1. Now(o)' = Now(o) /\ (Idle(o)' <=> Idle(o)) /\ todo'[o] \in Seq(Updates)
    BY <1>2 DEF Now, Idle, SettingTypes
  <2>2. \A f \in Fields : Pending(o, f)' <=> Pending(o, f)
    BY <1>2 DEF Pending
  <2> QED  BY <1>1, <1>2, <2>1, <2>2 DEF Owes, Spoils
<1>3. CASE Busy(o) /\ todo'[o] = RaceWith(o)
  <2>1. ~Idle(o)
    BY <1>3 DEF SettingTypes
  <2>2. todo[o] \in Seq(Updates) /\ todo[o] # <<>>
    BY <2>1 DEF SettingTypes, Idle
  <2>3. Now(o) \in Updates /\ Elems(todo[o]) = {Now(o)} \cup Elems(Tail(todo[o]))
    BY <2>2, ElemsParts DEF Now
  <2>4. /\ todo'[o] \in Seq(Updates) /\ ~Idle(o)' /\ Now(o)' = Raced(Now(o))
        /\ Elems(todo'[o]) = {Raced(Now(o))} \cup Elems(Tail(todo[o]))
    BY <1>3, <2>1, MarkedList DEF Idle, Now
  <2>5. /\ Now(o)'.do = Now(o).do /\ Now(o)'.f = Now(o).f /\ Now(o)'.v = Now(o).v
        /\ Now(o)'.keep = Now(o).keep /\ Now(o)'.how = "raced"
    BY <2>3, <2>4, MarkedUpdate
  <2>6. ASSUME NEW f \in Fields, Pending(o, f) PROVE Pending(o, f)'
    <3>1. PICK op \in Elems(todo[o]) : op.do = "update" /\ op.f = f /\ (op.v = Last \/ f = "custom")
      BY <2>6 DEF Pending
    <3>2. CASE op = Now(o)
      <4>1. Now(o)' \in Elems(todo'[o])
        BY <2>4
      <4> QED  BY <2>5, <3>1, <3>2, <4>1 DEF Pending
    <3>3. CASE op \in Elems(Tail(todo[o]))
      BY <2>4, <3>1, <3>3 DEF Pending
    <3> QED  BY <2>3, <3>2, <3>3
  <2>7. ASSUME NEW f \in Fields PROVE (Owes(o, f) => Owes(o, f)') /\ (Spoils(o, f) => Spoils(o, f)')
    <3>1. f \in Same(Now(o).f) => f \in Same(Now(o)'.f)
      BY <2>5
    <3> QED  BY <1>1, <2>5, <2>6, <3>1 DEF Owes, Spoils
  <2> QED  BY <1>1, <2>1, <2>4, <2>5, <2>6, <2>7
<1> QED  BY <1>2, <1>3 DEF Stays

\* What is remembered are settings, too.
LEMMA RememberedFields == Remembered \subseteq Fields
BY FieldNames DEF Remembered

\* The first update of a thread, and those after it.
LEMMA FirstUpdate ==
  ASSUME SettingTypes, NEW t \in Threads, ~Idle(t)
  PROVE  /\ Now(t) \in Updates /\ Now(t) \in Elems(todo[t])
         /\ Elems(todo[t]) = {Now(t)} \cup Elems(Tail(todo[t]))
         /\ Tail(todo[t]) \in Seq(Updates) /\ Elems(todo[t]) \subseteq Updates
         /\ Now(t).f \in Fields /\ Now(t).f \in Same(Now(t).f) /\ Same(Now(t).f) \subseteq Fields
<1>1. todo[t] \in Seq(Updates) /\ todo[t] # <<>>
  BY DEF SettingTypes, Idle
<1>2. Now(t) \in Updates /\ Elems(todo[t]) = {Now(t)} \cup Elems(Tail(todo[t]))
        /\ Tail(todo[t]) \in Seq(Updates)
  BY <1>1, ElemsParts DEF Now
<1>3. Elems(todo[t]) \subseteq Updates
  BY <1>1, ElemsOf
<1>4. Now(t).f \in Fields
  BY <1>2 DEF Updates
<1> QED  BY <1>2, <1>3, <1>4, SameRegister

\* What a thread still owes when its first update is done.
LEMMA TailOwes ==
  ASSUME SettingTypes, NEW t \in Threads, ~Idle(t), todo'[t] = Tail(todo[t]),
         NEW f \in Fields, Pending(t, f), ~(Now(t).do = "update" /\ Now(t).f = f)
  PROVE  Pending(t, f)'
<1>1. PICK op \in Elems(todo[t]) : op.do = "update" /\ op.f = f /\ (op.v = Last \/ f = "custom")
  BY DEF Pending
<1>2. op # Now(t) /\ op \in Elems(Tail(todo[t]))
  BY <1>1, FirstUpdate
<1>3. op \in Elems(todo'[t])
  BY <1>2
<1> QED  BY <1>1, <1>3 DEF Pending

\* A thread finishes updates.  What it changed is in the register of the
\* first; each setting is as chosen, or nothing is known of it, or nothing has
\* changed and the thread still owes it what it did.
LEMMA Leaves ==
  ASSUME CoreInv, NEW t \in Threads,
         regs' \in [Fields -> Nat], chosen' \in [Fields -> Nat], last' \in [Remembered -> Nat],
         on_start' \in Nat,
         todo' \in [Threads -> Seq(Updates)], phase' \in [Threads -> {"start", "write", "keep"}],
         DOMAIN held' = Threads, phase'[t] = "start",
         \A o \in Threads : o # t => todo'[o] = todo[o] /\ phase'[o] = phase[o] /\ held'[o] = held[o],
         \A f \in Fields : regs'[f] # regs[f] \/ chosen'[f] \notin {chosen[f], Unknown}
                             => Busy(t) /\ f \in Same(Now(t).f),
         \A f \in Fields : \/ chosen'[f] = Unknown
                           \/ regs'[f] = Wanted(f)'
                           \/ /\ regs'[f] = regs[f] /\ chosen'[f] = chosen[f] /\ Wanted(f)' = Wanted(f)
                              /\ Owes(t, f) => Pending(t, f)',
         \A f \in Remembered : \/ chosen'[f] = Unknown
                               \/ last'[f] = chosen'[f]
                               \/ last'[f] = last[f] /\ chosen'[f] = chosen[f] /\ ~Spoils(t, f)
  PROVE  CoreInv'
<1>1. ~Busy(t)'
  BY DEF Busy
<1>2. ASSUME NEW o \in Threads, o # t
      PROVE  /\ (Busy(o)' <=> Busy(o)) /\ (Idle(o)' <=> Idle(o)) /\ Now(o)' = Now(o)
             /\ \A f \in Fields : (Owes(o, f) => Owes(o, f)') /\ (Spoils(o, f) => Spoils(o, f)')
  <2>1. todo'[o] = todo[o] /\ phase'[o] = phase[o]
    BY <1>2
  <2>2. (Busy(o)' <=> Busy(o)) /\ (Idle(o)' <=> Idle(o)) /\ Now(o)' = Now(o)
    BY <2>1 DEF Busy, Idle, Now
  <2>3. \A f \in Fields : Pending(o, f)' <=> Pending(o, f)
    BY <2>1 DEF Pending
  <2> QED  BY <2>2, <2>3 DEF Owes, Spoils
<1>3. SettingTypes'
  <2>1. ASSUME NEW o \in Threads, Busy(o)'
        PROVE  /\ ~Idle(o)' /\ Now(o)'.do \in {"update", "read", "notify"}
               /\ held'[o] \in [Same(Now(o)'.f) -> Nat]
               /\ phase'[o] = "write" => Now(o)'.do = "update"
               /\ phase'[o] = "keep" /\ Now(o)'.do = "update" => Now(o)'.keep # Unknown
    <3>1. o # t /\ held'[o] = held[o] /\ phase'[o] = phase[o]
      BY <1>1, <2>1
    <3> QED  BY <1>2, <2>1, <3>1 DEF CoreInv, SettingTypes
  <2> QED  BY <2>1 DEF SettingTypes
<1>4. AloneInv'
  BY <1>1, <1>2, ZenonT(40) DEF CoreInv, AloneInv
<1>5. HeldInv'
  <2> SUFFICES ASSUME NEW o \in Threads, Busy(o)', Now(o)'.how # "raced"
               PROVE  /\ \A g \in Same(Now(o)'.f) : g # Now(o)'.f \/ phase'[o] = "keep"
                           => held'[o][g] = regs'[g]
                      /\ Now(o)'.do = "update" /\ Now(o)'.v # Last => held'[o][Now(o)'.f] = Now(o)'.v
                      /\ Now(o)'.do = "update" /\ Now(o)'.v = Last /\ chosen'[Now(o)'.f] # Unknown
                           => held'[o][Now(o)'.f] = chosen'[Now(o)'.f]
    BY DEF HeldInv
  <2>1. o # t /\ Busy(o) /\ Now(o)' = Now(o) /\ held'[o] = held[o] /\ phase'[o] = phase[o]
          /\ Now(o).how # "raced"
    BY <1>1, <1>2
  <2>2. ~Idle(o)
    BY <2>1 DEF CoreInv, SettingTypes
  <2>3. Now(o).f \in Fields /\ Now(o).f \in Same(Now(o).f) /\ Same(Now(o).f) \subseteq Fields
    BY <2>2, FirstUpdate DEF CoreInv
  <2>4. \A g \in Same(Now(o).f) : regs'[g] = regs[g] /\ chosen'[g] \in {chosen[g], Unknown}
    <3> SUFFICES ASSUME NEW g \in Same(Now(o).f), Busy(t), g \in Same(Now(t).f) PROVE FALSE
      BY <2>3
    <3>1. ~Idle(t)
      BY DEF CoreInv, SettingTypes
    <3>2. Now(t).f \in Fields
      BY <3>1, FirstUpdate DEF CoreInv
    <3>3. Now(o).f \in Same(Now(t).f)
      BY <2>3, <3>2, SameRegister
    <3> QED  BY <2>1, <3>3 DEF CoreInv, AloneInv
  <2>5. /\ \A g \in Same(Now(o).f) : g # Now(o).f \/ phase[o] = "keep" => held[o][g] = regs[g]
        /\ Now(o).do = "update" /\ Now(o).v # Last => held[o][Now(o).f] = Now(o).v
        /\ Now(o).do = "update" /\ Now(o).v = Last /\ chosen[Now(o).f] # Unknown
             => held[o][Now(o).f] = chosen[Now(o).f]
    BY <2>1 DEF CoreInv, HeldInv
  <2>6. chosen'[Now(o).f] # Unknown => chosen[Now(o).f] = chosen'[Now(o).f]
    BY <2>3, <2>4
  <2> QED  BY <2>1, <2>4, <2>5, <2>6
<1>6. OwesInv'
  <2> SUFFICES ASSUME NEW f \in Fields, chosen'[f] # Unknown, regs'[f] # Wanted(f)'
               PROVE  \E o \in Threads : Owes(o, f)'
    BY DEF OwesInv
  <2>1. /\ regs'[f] = regs[f] /\ chosen'[f] = chosen[f] /\ Wanted(f)' = Wanted(f)
        /\ Owes(t, f) => Pending(t, f)'
    OBVIOUS
  <2>2. PICK o \in Threads : Owes(o, f)
    BY <2>1 DEF CoreInv, OwesInv
  <2> QED  BY <1>2, <2>1, <2>2 DEF Owes
<1>7. LastInv'
  <2> SUFFICES ASSUME NEW f \in Remembered, chosen'[f] # Unknown, last'[f] # chosen'[f]
               PROVE  \E o \in Threads : Spoils(o, f)'
    BY DEF LastInv
  <2>1. last'[f] = last[f] /\ chosen'[f] = chosen[f] /\ ~Spoils(t, f)
    OBVIOUS
  <2>2. PICK o \in Threads : Spoils(o, f)
    BY <2>1 DEF CoreInv, LastInv
  <2> QED  BY <1>2, <2>1, <2>2, RememberedFields
<1> QED  BY <1>3, <1>4, <1>5, <1>6, <1>7 DEF CoreInv

\* An idle thread is given something to do, while settings may change behind
\* updates that are under way, which are marked then.  Nothing is known of a
\* setting that changed, or the thread is going to restore it.
LEMMA Arrives ==
  ASSUME CoreInv, NEW t \in Threads, Idle(t),
         regs' \in [Fields -> Nat], chosen' \in [Fields -> Nat], last' \in [Remembered -> Nat],
         on_start' \in Nat,
         todo' \in [Threads -> Seq(Updates)], phase' = phase, held' = held, black' = black,
         \A o \in Threads : o # t => Stays(o),
         \A o \in Threads, f \in Fields :
            o # t /\ Busy(o) /\ Now(o).f \in Same(f) /\ regs'[f] # regs[f] => todo'[o] = RaceWith(o),
         \A f \in Fields : chosen'[f] \in {chosen[f], Unknown},
         \A f \in Fields : regs'[f] # regs[f] => chosen'[f] = Unknown \/ Pending(t, f)',
         \A f \in Remembered : last'[f] # last[f] => chosen'[f] = Unknown
  PROVE  CoreInv'
<1>1. SettingTypes /\ ~Busy(t) /\ ~Busy(t)' /\ (\A f \in Fields : ~Owes(t, f) /\ ~Spoils(t, f))
  <2>1. SettingTypes /\ ~Busy(t)
    BY DEF CoreInv, SettingTypes
  <2>2. \A f \in Fields : ~Pending(t, f)
    BY ElemsShort DEF Idle, Pending
  <2>3. ~Busy(t)'
    BY <2>1 DEF Busy
  <2> QED  BY <2>1, <2>2, <2>3 DEF Owes, Spoils
<1>2. ASSUME NEW o \in Threads, o # t
      PROVE  /\ todo'[o] \in Seq(Updates) /\ (Idle(o)' <=> Idle(o)) /\ (Busy(o)' <=> Busy(o))
             /\ Busy(o) => /\ Now(o)'.do = Now(o).do /\ Now(o)'.f = Now(o).f /\ Now(o)'.v = Now(o).v
                           /\ Now(o)'.keep = Now(o).keep /\ Now(o)'.how \in {Now(o).how, "raced"}
                           /\ (todo'[o] = RaceWith(o) => Now(o)'.how = "raced")
             /\ \A f \in Fields : (Owes(o, f) => Owes(o, f)') /\ (Spoils(o, f) => Spoils(o, f)')
  <2>1. Stays(o)
    BY <1>2
  <2> QED  BY <1>1, <2>1, StaysSame
<1>3. SettingTypes'
  <2>2. ASSUME NEW o \in Threads, Busy(o)'
        PROVE  /\ ~Idle(o)' /\ Now(o)'.do \in {"update", "read", "notify"}
               /\ held'[o] \in [Same(Now(o)'.f) -> Nat]
               /\ phase'[o] = "write" => Now(o)'.do = "update"
               /\ phase'[o] = "keep" /\ Now(o)'.do = "update" => Now(o)'.keep # Unknown
    <3>1. o # t /\ Busy(o)
      BY <1>1, <1>2, <2>2
    <3>2. /\ ~Idle(o) /\ Now(o).do \in {"update", "read", "notify"} /\ held[o] \in [Same(Now(o).f) -> Nat]
          /\ phase[o] = "write" => Now(o).do = "update"
          /\ phase[o] = "keep" /\ Now(o).do = "update" => Now(o).keep # Unknown
      BY <1>1, <3>1 DEF SettingTypes
    <3>3. /\ Now(o)'.do = Now(o).do /\ Now(o)'.f = Now(o).f /\ Now(o)'.keep = Now(o).keep
          /\ (Idle(o)' <=> Idle(o))
      BY <1>2, <3>1
    <3> QED  BY <3>2, <3>3
  <2>3. phase' \in [Threads -> {"start", "write", "keep"}] /\ DOMAIN held' = Threads
    BY <1>1 DEF SettingTypes
  <2> QED  BY <2>2, <2>3 DEF SettingTypes
<1>4. AloneInv'
  <2> SUFFICES ASSUME NEW o \in Threads, NEW p \in Threads, o # p, Busy(o)', Busy(p)',
                      Now(o)'.f \in Same(Now(p)'.f)
               PROVE  Now(o)'.how = "raced"
    BY DEF AloneInv
  <2>1. o # t /\ p # t /\ Busy(o) /\ Busy(p)
    BY <1>1, <1>2
  <2>2. Now(o)'.f = Now(o).f /\ Now(p)'.f = Now(p).f /\ Now(o)'.how \in {Now(o).how, "raced"}
    BY <1>2, <2>1
  <2>3. Now(o).how = "raced"
    BY <2>1, <2>2 DEF CoreInv, AloneInv
  <2> QED  BY <2>2, <2>3
<1>5. HeldInv'
  <2> SUFFICES ASSUME NEW o \in Threads, Busy(o)', Now(o)'.how # "raced"
               PROVE  /\ \A g \in Same(Now(o)'.f) : g # Now(o)'.f \/ phase'[o] = "keep"
                           => held'[o][g] = regs'[g]
                      /\ Now(o)'.do = "update" /\ Now(o)'.v # Last => held'[o][Now(o)'.f] = Now(o)'.v
                      /\ Now(o)'.do = "update" /\ Now(o)'.v = Last /\ chosen'[Now(o)'.f] # Unknown
                           => held'[o][Now(o)'.f] = chosen'[Now(o)'.f]
    BY DEF HeldInv
  <2>1. o # t /\ Busy(o)
    BY <1>1, <1>2
  <2>2. /\ Now(o)'.do = Now(o).do /\ Now(o)'.f = Now(o).f /\ Now(o)'.v = Now(o).v
        /\ Now(o).how # "raced" /\ todo'[o] # RaceWith(o)
    BY <1>2, <2>1
  <2>3. ~Idle(o)
    BY <1>1, <2>1 DEF SettingTypes
  <2>4. Now(o).f \in Fields /\ Now(o).f \in Same(Now(o).f) /\ Same(Now(o).f) \subseteq Fields
    BY <1>1, <2>3, FirstUpdate
  <2>5. \A g \in Same(Now(o).f) : regs'[g] = regs[g]
    BY <2>1, <2>2, <2>4, SameRegister
  <2>6. /\ \A g \in Same(Now(o).f) : g # Now(o).f \/ phase[o] = "keep" => held[o][g] = regs[g]
        /\ Now(o).do = "update" /\ Now(o).v # Last => held[o][Now(o).f] = Now(o).v
        /\ Now(o).do = "update" /\ Now(o).v = Last /\ chosen[Now(o).f] # Unknown
             => held[o][Now(o).f] = chosen[Now(o).f]
    BY <2>1, <2>2 DEF CoreInv, HeldInv
  <2>7. chosen'[Now(o).f] # Unknown => chosen[Now(o).f] = chosen'[Now(o).f]
    BY <2>4
  <2> QED  BY <2>2, <2>5, <2>6, <2>7
<1>6. OwesInv'
  <2> SUFFICES ASSUME NEW f \in Fields, chosen'[f] # Unknown, regs'[f] # Wanted(f)'
               PROVE  \E o \in Threads : Owes(o, f)'
    BY DEF OwesInv
  <2>0. chosen'[f] = chosen[f] /\ Wanted(f)' = Wanted(f)
    BY DEF Wanted
  <2>1. CASE regs'[f] # regs[f]
    BY <2>1 DEF Owes
  <2>2. CASE regs'[f] = regs[f]
    <3>1. PICK o \in Threads : Owes(o, f)
      BY <2>0, <2>2 DEF CoreInv, OwesInv
    <3> QED  BY <1>1, <1>2, <3>1
  <2> QED  BY <2>1, <2>2
<1>7. LastInv'
  <2> SUFFICES ASSUME NEW f \in Remembered, chosen'[f] # Unknown, last'[f] # chosen'[f]
               PROVE  \E o \in Threads : Spoils(o, f)'
    BY DEF LastInv
  <2>1. f \in Fields /\ last'[f] = last[f] /\ chosen'[f] = chosen[f]
    BY RememberedFields
  <2>2. PICK o \in Threads : Spoils(o, f)
    BY <2>1 DEF CoreInv, LastInv
  <2> QED  BY <1>1, <1>2, <2>1, <2>2
<1> QED  BY <1>3, <1>4, <1>5, <1>6, <1>7 DEF CoreInv

\* An update begins: it reads its register, and if it overlaps with another one
\* of the register both are marked.
LEMMA BeginKeeps ==
  ASSUME CoreInv, NEW t \in Threads, Begin(t)
  PROVE  CoreInv' /\ (\A o \in Threads : todo'[o] = todo[o] \/ (~Idle(o) /\ todo'[o] = RaceWith(o)))
<1> DEFINE op == Now(t)
           racing == {o \in Threads \ {t} : Within(o, op.f)}
<1>1. /\ ~Idle(t) /\ phase[t] = "start" /\ op.do \in {"update", "read", "notify"}
      /\ todo' = [o \in Threads |-> IF o \in racing \/ (o = t /\ racing # {}) THEN RaceWith(o) ELSE todo[o]]
      /\ phase' = [phase EXCEPT ![t] = IF op.do = "update" THEN "write" ELSE "keep"]
      /\ held' = [held EXCEPT ![t] = [g \in Same(op.f) |->
                     IF g = op.f /\ op.do = "update" THEN IF op.v = Last THEN last[g] ELSE op.v ELSE regs[g]]]
      /\ UNCHANGED <<regs, chosen, black, last, on_start>>
  BY DEF Begin, ecVars
<1>2. SettingTypes /\ op \in Updates /\ op.f \in Fields /\ op.f \in Same(op.f) /\ Same(op.f) \subseteq Fields
  BY <1>1, FirstUpdate DEF CoreInv
<1>3. \A o \in Threads : Busy(o) => ~Idle(o)
  BY <1>2 DEF SettingTypes
<1>4. \A o \in racing : Busy(o) /\ ~Idle(o) /\ Now(o).f \in Same(op.f)
  BY DEF Within, Busy
<1>5. todo' \in [Threads -> Seq(Updates)]
  BY <1>1, <1>2, <1>4, MarkedList DEF SettingTypes
<1>6. \A o \in Threads : o # t => Stays(o)
  <2> SUFFICES ASSUME NEW o \in Threads, o # t PROVE Stays(o)
    OBVIOUS
  <2>1. phase'[o] = phase[o] /\ held'[o] = held[o]
    BY <1>1, <1>2 DEF SettingTypes
  <2>2. todo'[o] = todo[o] \/ (o \in racing /\ todo'[o] = RaceWith(o))
    BY <1>1
  <2> QED  BY <1>4, <2>1, <2>2 DEF Stays
<1>7. \A o \in Threads : o # t =>
          /\ todo'[o] \in Seq(Updates) /\ (Idle(o)' <=> Idle(o)) /\ (Busy(o)' <=> Busy(o))
          /\ Busy(o) => /\ Now(o)'.do = Now(o).do /\ Now(o)'.f = Now(o).f /\ Now(o)'.v = Now(o).v
                        /\ Now(o)'.keep = Now(o).keep /\ Now(o)'.how \in {Now(o).how, "raced"}
                        /\ (todo'[o] = RaceWith(o) => Now(o)'.how = "raced")
          /\ \A f \in Fields : (Owes(o, f) => Owes(o, f)') /\ (Spoils(o, f) => Spoils(o, f)')
  BY <1>2, <1>6, StaysSame
<1>8. /\ ~Idle(t)' /\ Busy(t)' /\ ~Busy(t)
      /\ Now(t)'.do = op.do /\ Now(t)'.f = op.f /\ Now(t)'.v = op.v /\ Now(t)'.keep = op.keep
      /\ (racing # {} => Now(t)'.how = "raced") /\ (racing = {} => todo'[t] = todo[t] /\ Now(t)'.how = op.how)
      /\ Elems(todo'[t]) = {Now(t)'} \cup Elems(Tail(todo[t]))
      /\ phase'[t] = (IF op.do = "update" THEN "write" ELSE "keep")
  <2>1. phase'[t] = (IF op.do = "update" THEN "write" ELSE "keep")
    BY <1>1, <1>2 DEF SettingTypes
  <2>2. Busy(t)' /\ ~Busy(t)
    BY <1>1, <2>1 DEF Busy
  <2>3. CASE racing = {}
    <3>1. todo'[t] = todo[t]
      BY <1>1, <2>3
    <3>2. Now(t)' = op /\ (Idle(t)' <=> Idle(t))
      BY <3>1 DEF Now, Idle
    <3>3. Elems(todo[t]) = {op} \cup Elems(Tail(todo[t]))
      BY <1>1, <1>2, FirstUpdate
    <3> QED  BY <1>1, <2>1, <2>2, <2>3, <3>1, <3>2, <3>3
  <2>4. CASE racing # {}
    <3>1. todo'[t] = RaceWith(t)
      BY <1>1, <2>4
    <3>2. /\ ~Idle(t)' /\ Now(t)' = Raced(op)
          /\ Elems(todo'[t]) = {Raced(op)} \cup Elems(Tail(todo[t]))
      BY <1>1, <1>2, <3>1, MarkedList DEF Idle, Now
    <3>3. /\ Raced(op).do = op.do /\ Raced(op).f = op.f /\ Raced(op).v = op.v /\ Raced(op).keep = op.keep
          /\ Raced(op).how = "raced"
      BY <1>2, MarkedUpdate
    <3> QED  BY <2>1, <2>2, <2>4, <3>2, <3>3
  <2> QED  BY <2>3, <2>4
<1>9. \A f \in Fields : (Owes(t, f) => Owes(t, f)') /\ ~Spoils(t, f)
  <2> SUFFICES ASSUME NEW f \in Fields, Pending(t, f) PROVE Pending(t, f)'
    BY <1>8 DEF Owes, Spoils
  <2>1. PICK x \in Elems(todo[t]) : x.do = "update" /\ x.f = f /\ (x.v = Last \/ f = "custom")
    BY DEF Pending
  <2>2. x = op \/ x \in Elems(Tail(todo[t]))
    BY <1>1, <1>2, FirstUpdate
  <2>3. Now(t)' \in Elems(todo'[t]) /\ (x \in Elems(Tail(todo[t])) => x \in Elems(todo'[t]))
    BY <1>8
  <2> QED  BY <1>8, <2>1, <2>2, <2>3 DEF Pending
<1>10. held'[t] = [g \in Same(op.f) |->
                     IF g = op.f /\ op.do = "update" THEN IF op.v = Last THEN last[g] ELSE op.v ELSE regs[g]]
  BY <1>1, <1>2 DEF SettingTypes
<1>11. op.do = "update" /\ op.v = Last => op.f \in Remembered
  BY <1>2 DEF Updates
<1>12. SettingTypes'
  <2>1. held'[t] \in [Same(op.f) -> Nat]
    <3>1. op.v \in Nat
      BY <1>2 DEF Updates
    <3>2. \A g \in Same(op.f) : regs[g] \in Nat
      BY <1>2 DEF SettingTypes
    <3>3. op.do = "update" /\ op.v = Last => last[op.f] \in Nat
      BY <1>2, <1>11 DEF SettingTypes
    <3> QED  BY <1>10, <3>1, <3>2, <3>3
  <2>2. ASSUME NEW o \in Threads, Busy(o)'
        PROVE  /\ ~Idle(o)' /\ Now(o)'.do \in {"update", "read", "notify"}
               /\ held'[o] \in [Same(Now(o)'.f) -> Nat]
               /\ phase'[o] = "write" => Now(o)'.do = "update"
               /\ phase'[o] = "keep" /\ Now(o)'.do = "update" => Now(o)'.keep # Unknown
    <3>1. CASE o = t
      BY <1>1, <1>8, <2>1, <3>1
    <3>2. CASE o # t
      <4>1. Busy(o)
        BY <1>7, <2>2, <3>2
      <4>2. /\ ~Idle(o) /\ Now(o).do \in {"update", "read", "notify"} /\ held[o] \in [Same(Now(o).f) -> Nat]
            /\ phase[o] = "write" => Now(o).do = "update"
            /\ phase[o] = "keep" /\ Now(o).do = "update" => Now(o).keep # Unknown
        BY <1>2, <4>1 DEF SettingTypes
      <4>3. /\ Now(o)'.do = Now(o).do /\ Now(o)'.f = Now(o).f /\ Now(o)'.keep = Now(o).keep
            /\ (Idle(o)' <=> Idle(o))
        BY <1>7, <3>2, <4>1
      <4>4. held'[o] = held[o] /\ phase'[o] = phase[o]
        BY <1>6, <3>2 DEF Stays
      <4> QED  BY <4>2, <4>3, <4>4
    <3> QED  BY <3>1, <3>2
  <2>3. phase' \in [Threads -> {"start", "write", "keep"}] /\ DOMAIN held' = Threads
    BY <1>1, <1>2 DEF SettingTypes
  <2>4. /\ regs' \in [Fields -> Nat] /\ chosen' \in [Fields -> Nat] /\ last' \in [Remembered -> Nat]
        /\ on_start' \in Nat
    BY <1>1, <1>2 DEF SettingTypes
  <2> QED  BY <1>5, <2>2, <2>3, <2>4 DEF SettingTypes
<1>13. AloneInv'
  <2> SUFFICES ASSUME NEW o \in Threads, NEW p \in Threads, o # p, Busy(o)', Busy(p)',
                      Now(o)'.f \in Same(Now(p)'.f)
               PROVE  Now(o)'.how = "raced"
    BY DEF AloneInv
  <2>1. CASE o = t
    <3>1. Busy(p) /\ Now(p)'.f = Now(p).f /\ ~Idle(p)
      BY <1>3, <1>7, <2>1
    <3>2. Now(p).f \in Same(op.f)
      BY <1>2, <1>8, <2>1, <3>1, FirstUpdate, SameRegister
    <3>3. p \in racing
      BY <2>1, <3>1, <3>2 DEF Within, Busy
    <3> QED  BY <1>8, <2>1, <3>3
  <2>2. CASE p = t
    <3>1. Busy(o) /\ Now(o)'.f = Now(o).f /\ ~Idle(o)
      BY <1>3, <1>7, <2>2
    <3>2. Now(o).f \in Same(op.f)
      BY <1>8, <2>2, <3>1
    <3>3. o \in racing
      BY <2>2, <3>1, <3>2 DEF Within, Busy
    <3>4. todo'[o] = RaceWith(o)
      BY <1>1, <3>3
    <3> QED  BY <1>7, <2>2, <3>1, <3>4
  <2>3. CASE o # t /\ p # t
    <3>1. Busy(o) /\ Busy(p) /\ Now(o)'.f = Now(o).f /\ Now(p)'.f = Now(p).f
            /\ Now(o)'.how \in {Now(o).how, "raced"}
      BY <1>7, <2>3
    <3>2. Now(o).how = "raced"
      BY <3>1 DEF CoreInv, AloneInv
    <3> QED  BY <3>1, <3>2
  <2> QED  BY <2>1, <2>2, <2>3
<1>14. HeldInv'
  <2> SUFFICES ASSUME NEW o \in Threads, Busy(o)', Now(o)'.how # "raced"
               PROVE  /\ \A g \in Same(Now(o)'.f) : g # Now(o)'.f \/ phase'[o] = "keep"
                           => held'[o][g] = regs'[g]
                      /\ Now(o)'.do = "update" /\ Now(o)'.v # Last => held'[o][Now(o)'.f] = Now(o)'.v
                      /\ Now(o)'.do = "update" /\ Now(o)'.v = Last /\ chosen'[Now(o)'.f] # Unknown
                           => held'[o][Now(o)'.f] = chosen'[Now(o)'.f]
    BY DEF HeldInv
  <2>1. CASE o = t
    <3>1. racing = {}
      BY <1>8, <2>1
    <3>2. \A g \in Same(op.f) : g # op.f \/ op.do # "update" => held'[t][g] = regs[g]
      BY <1>10
    <3>3. op.do = "update" => held'[t][op.f] = IF op.v = Last THEN last[op.f] ELSE op.v
      BY <1>2, <1>10
    <3>4. op.do = "update" /\ op.v = Last /\ chosen[op.f] # Unknown => last[op.f] = chosen[op.f]
      <4> SUFFICES ASSUME op.f \in Remembered, chosen[op.f] # Unknown, last[op.f] # chosen[op.f] PROVE FALSE
        BY <1>11
      <4>1. PICK p \in Threads : Busy(p) /\ op.f \in Same(Now(p).f)
        BY DEF CoreInv, LastInv, Spoils
      <4>2. p # t /\ ~Idle(p)
        BY <1>3, <1>8, <4>1
      <4>3. Now(p).f \in Same(op.f)
        BY <1>2, <4>1, <4>2, FirstUpdate, SameRegister
      <4>4. p \in racing
        BY <4>1, <4>2, <4>3 DEF Within, Busy
      <4> QED  BY <3>1, <4>4
    <3> QED  BY <1>1, <1>8, <2>1, <3>2, <3>3, <3>4
  <2>2. CASE o # t
    <3>1. /\ Busy(o) /\ Now(o)'.do = Now(o).do /\ Now(o)'.f = Now(o).f /\ Now(o)'.v = Now(o).v
          /\ Now(o).how # "raced"
      BY <1>7, <2>2
    <3>2. held'[o] = held[o] /\ phase'[o] = phase[o]
      BY <1>6, <2>2 DEF Stays
    <3>3. /\ \A g \in Same(Now(o).f) : g # Now(o).f \/ phase[o] = "keep" => held[o][g] = regs[g]
          /\ Now(o).do = "update" /\ Now(o).v # Last => held[o][Now(o).f] = Now(o).v
          /\ Now(o).do = "update" /\ Now(o).v = Last /\ chosen[Now(o).f] # Unknown
               => held[o][Now(o).f] = chosen[Now(o).f]
      BY <3>1 DEF CoreInv, HeldInv
    <3> QED  BY <1>1, <3>1, <3>2, <3>3
  <2> QED  BY <2>1, <2>2
<1>15. OwesInv'
  BY <1>1, <1>7, <1>9 DEF CoreInv, OwesInv, Wanted
<1>16. LastInv'
  BY <1>1, <1>7, <1>9, RememberedFields DEF CoreInv, LastInv
<1>17. \A o \in Threads : todo'[o] = todo[o] \/ (~Idle(o) /\ todo'[o] = RaceWith(o))
  BY <1>1, <1>4
<1> QED  BY <1>12, <1>13, <1>14, <1>15, <1>16, <1>17 DEF CoreInv

\* A register is written, and the driver is still to remember the value.
LEMMA WrittenBeforeKept ==
  ASSUME CoreInv, NEW t \in Threads, EcWrite(t), Now(t).keep # Unknown
  PROVE  CoreInv'
<1> DEFINE op == Now(t)
<1>1. /\ ~Idle(t) /\ phase[t] = "write"
      /\ regs' = [g \in Fields |-> IF g \in DOMAIN held[t] THEN held[t][g] ELSE regs[g]]
      /\ phase' = [phase EXCEPT ![t] = "keep"]
      /\ UNCHANGED <<chosen, black, todo, held, last, on_start>>
  BY DEF EcWrite
<1>2. SettingTypes /\ op \in Updates /\ op.f \in Fields /\ op.f \in Same(op.f) /\ Same(op.f) \subseteq Fields
  BY <1>1, FirstUpdate DEF CoreInv
<1>3. Busy(t) /\ held[t] \in [Same(op.f) -> Nat] /\ op.do = "update"
  BY <1>1, <1>2 DEF SettingTypes, Busy
<1>4. regs' \in [Fields -> Nat]
        /\ \A g \in Fields : regs'[g] = IF g \in Same(op.f) THEN held[t][g] ELSE regs[g]
  BY <1>1, <1>2, <1>3 DEF SettingTypes
<1>5. \A o \in Threads : /\ Now(o)' = Now(o) /\ (Idle(o)' <=> Idle(o)) /\ (Busy(o)' <=> Busy(o))
                         /\ (o # t => phase'[o] = phase[o])
  <2>1. \A o \in Threads : Now(o)' = Now(o) /\ (Idle(o)' <=> Idle(o)) /\ (o # t => phase'[o] = phase[o])
    BY <1>1, <1>2 DEF Now, Idle, SettingTypes
  <2>2. phase'[t] = "keep"
    BY <1>1, <1>2 DEF SettingTypes
  <2> QED  BY <1>3, <2>1, <2>2 DEF Busy
<1>6. \A o \in Threads, f \in Fields : (Owes(o, f)' <=> Owes(o, f)) /\ (Spoils(o, f)' <=> Spoils(o, f))
  <2>1. \A o \in Threads, f \in Fields : Pending(o, f)' <=> Pending(o, f)
    BY <1>1 DEF Pending
  <2> QED  BY <1>5, <2>1 DEF Owes, Spoils
<1>7. SettingTypes'
  <2>1. phase' \in [Threads -> {"start", "write", "keep"}] /\ phase'[t] = "keep"
    BY <1>1, <1>2 DEF SettingTypes
  <2>2. ASSUME NEW o \in Threads, Busy(o)'
        PROVE  /\ ~Idle(o)' /\ Now(o)'.do \in {"update", "read", "notify"}
               /\ held'[o] \in [Same(Now(o)'.f) -> Nat]
               /\ phase'[o] = "write" => Now(o)'.do = "update"
               /\ phase'[o] = "keep" /\ Now(o)'.do = "update" => Now(o)'.keep # Unknown
    <3>1. /\ ~Idle(o) /\ Now(o).do \in {"update", "read", "notify"} /\ held[o] \in [Same(Now(o).f) -> Nat]
          /\ phase[o] = "write" => Now(o).do = "update"
          /\ phase[o] = "keep" /\ Now(o).do = "update" => Now(o).keep # Unknown
      BY <1>2, <1>5, <2>2 DEF SettingTypes
    <3>2. CASE o = t
      BY <1>1, <1>5, <2>1, <3>1, <3>2
    <3>3. CASE o # t
      BY <1>1, <1>5, <3>1, <3>3
    <3> QED  BY <3>2, <3>3
  <2>3. /\ chosen' \in [Fields -> Nat] /\ last' \in [Remembered -> Nat]
        /\ on_start' \in Nat /\ todo' \in [Threads -> Seq(Updates)] /\ DOMAIN held' = Threads
    BY <1>1, <1>2 DEF SettingTypes
  <2> QED  BY <1>4, <2>1, <2>2, <2>3 DEF SettingTypes
<1>8. AloneInv'
  BY <1>5 DEF CoreInv, AloneInv
<1>9. HeldInv'
  <2> SUFFICES ASSUME NEW o \in Threads, Busy(o), Now(o).how # "raced"
               PROVE  /\ \A g \in Same(Now(o).f) : g # Now(o).f \/ phase'[o] = "keep" => held[o][g] = regs'[g]
                      /\ Now(o).do = "update" /\ Now(o).v # Last => held[o][Now(o).f] = Now(o).v
                      /\ Now(o).do = "update" /\ Now(o).v = Last /\ chosen[Now(o).f] # Unknown
                           => held[o][Now(o).f] = chosen[Now(o).f]
    BY <1>1, <1>5 DEF HeldInv
  <2>1. /\ \A g \in Same(Now(o).f) : g # Now(o).f \/ phase[o] = "keep" => held[o][g] = regs[g]
        /\ Now(o).do = "update" /\ Now(o).v # Last => held[o][Now(o).f] = Now(o).v
        /\ Now(o).do = "update" /\ Now(o).v = Last /\ chosen[Now(o).f] # Unknown
             => held[o][Now(o).f] = chosen[Now(o).f]
    BY DEF CoreInv, HeldInv
  <2>2. CASE o = t
    BY <1>2, <1>4, <2>1, <2>2
  <2>3. CASE o # t
    <3>1. ~Idle(o)
      BY <1>2 DEF SettingTypes
    <3>2. Now(o).f \in Fields /\ Same(Now(o).f) \subseteq Fields
      BY <1>2, <3>1, FirstUpdate
    <3>3. Now(o).f \notin Same(op.f)
      BY <1>3, <2>3 DEF CoreInv, AloneInv
    <3>4. \A g \in Same(Now(o).f) : g \notin Same(op.f)
      BY <1>2, <3>2, <3>3, SameRegister
    <3> QED  BY <1>4, <1>5, <2>1, <2>3, <3>2, <3>4
  <2> QED  BY <2>2, <2>3
<1>10. OwesInv'
  <2> SUFFICES ASSUME NEW f \in Fields, chosen[f] # Unknown, regs'[f] # Wanted(f)
               PROVE \E o \in Threads : Owes(o, f)
    BY <1>1, <1>6 DEF OwesInv, Wanted
  <2>1. CASE regs'[f] = regs[f]
    BY <2>1 DEF CoreInv, OwesInv
  <2>2. CASE regs'[f] # regs[f]
    <3>1. f \in Same(op.f)
      BY <1>4, <2>2
    <3>2. CASE op.how = "raced"
      BY <1>3, <3>1, <3>2 DEF Owes
    <3>3. CASE op.how # "raced"
      <4>1. f = op.f
        BY <1>3, <1>4, <2>2, <3>1, <3>3 DEF CoreInv, HeldInv
      <4> QED  BY <1>3, <3>1, <4>1 DEF Owes
    <3> QED  BY <3>2, <3>3
  <2> QED  BY <2>1, <2>2
<1>11. LastInv'
  BY <1>1, <1>6, RememberedFields DEF CoreInv, LastInv
<1> QED  BY <1>7, <1>8, <1>9, <1>10, <1>11 DEF CoreInv

\* What is known of a register when an update of it is done.
LEMMA Recorded ==
  ASSUME SettingTypes, NEW t \in Threads, Busy(t), Record(t)
  PROVE  /\ chosen' \in [Fields -> Nat]
         /\ Now(t).how \in {"asked", "restored", "raced", "black"}
         /\ Now(t).how = "black"
              => /\ Now(t).f = "brightness" /\ Now(t).v = 0 /\ Now(t).keep # Unknown
                 /\ \A g \in Fields : chosen'[g] = IF g = Now(t).f THEN Now(t).keep ELSE chosen[g]
                 /\ Wanted("brightness")' = 0
         /\ \A g \in Fields : g # Now(t).f => (chosen'[g] = chosen[g] => Wanted(g)' = Wanted(g))
         /\ Now(t).how # "black" => \A g \in Fields : g = Now(t).f => Wanted(g)' = chosen'[g]
         /\ Now(t).how = "raced"
              => \A g \in Fields : chosen'[g] = IF g \in Same(Now(t).f) THEN Unknown ELSE chosen[g]
         /\ Now(t).how = "asked"
              => \A g \in Fields : chosen'[g] = IF g = Now(t).f THEN held[t][g] ELSE chosen[g]
         /\ Now(t).how = "restored" => chosen' = chosen
<1>1. ~Idle(t) /\ held[t] \in [Same(Now(t).f) -> Nat] /\ chosen \in [Fields -> Nat]
  BY DEF SettingTypes
<1>2. /\ Now(t).f \in Fields /\ Now(t).f \in Same(Now(t).f)
      /\ Now(t).how \in {"asked", "restored", "raced", "black"} /\ Now(t).keep \in Nat
      /\ Now(t).how = "black" => Now(t).f = "brightness" /\ Now(t).v = 0 /\ Now(t).keep # Unknown
  BY <1>1, FirstUpdate DEF Updates
<1>3. Unknown \in Nat
  BY DEF Unknown
<1>4. /\ chosen' \in [Fields -> Nat]
      /\ Now(t).how = "raced"
           => \A g \in Fields : chosen'[g] = IF g \in Same(Now(t).f) THEN Unknown ELSE chosen[g]
      /\ Now(t).how = "asked"
           => \A g \in Fields : chosen'[g] = IF g = Now(t).f THEN held[t][g] ELSE chosen[g]
      /\ Now(t).how = "black"
           => \A g \in Fields : chosen'[g] = IF g = Now(t).f THEN Now(t).keep ELSE chosen[g]
      /\ Now(t).how = "restored" => chosen' = chosen
  <2>1. CASE Now(t).how = "raced"
    <3>1. chosen' = [g \in Fields |-> IF g \in Same(Now(t).f) THEN Unknown ELSE chosen[g]]
      BY <2>1 DEF Record
    <3> QED  BY <1>1, <1>2, <1>3, <2>1, <3>1
  <2>2. CASE Now(t).how = "asked"
    <3>1. chosen' = [chosen EXCEPT ![Now(t).f] = held[t][Now(t).f]]
      BY <2>2 DEF Record
    <3>2. held[t][Now(t).f] \in Nat
      BY <1>1, <1>2
    <3> QED  BY <1>1, <1>2, <2>2, <3>1, <3>2
  <2>3. CASE Now(t).how = "restored"
    BY <1>1, <1>2, <2>3 DEF Record
  <2>4. CASE Now(t).how = "black"
    <3>1. chosen' = [chosen EXCEPT ![Now(t).f] = Now(t).keep]
      BY <2>4 DEF Record
    <3> QED  BY <1>1, <1>2, <2>4, <3>1
  <2> QED  BY <1>2, <2>1, <2>2, <2>3, <2>4
<1>5. black' = IF Now(t).f = "brightness" THEN Now(t).how = "black" ELSE black
  BY DEF Record
<1>6. \A g \in Fields : g # Now(t).f => (chosen'[g] = chosen[g] => Wanted(g)' = Wanted(g))
  BY <1>5 DEF Wanted
<1>7. Now(t).how # "black" => \A g \in Fields : g = Now(t).f => Wanted(g)' = chosen'[g]
  BY <1>5 DEF Wanted
<1>8. Now(t).how = "black" => Wanted("brightness")' = 0
  BY <1>2, <1>5 DEF Wanted
<1> QED  BY <1>2, <1>4, <1>6, <1>7, <1>8

\* The threads when one of them is done with something.
LEMMA GoesOn ==
  ASSUME SettingTypes, NEW t \in Threads, NEW rest \in Seq(Updates),
         todo' = [todo EXCEPT ![t] = rest], Next1(t)
  PROVE  /\ todo' \in [Threads -> Seq(Updates)] /\ phase' \in [Threads -> {"start", "write", "keep"}]
         /\ DOMAIN held' = Threads /\ phase'[t] = "start" /\ todo'[t] = rest
         /\ \A o \in Threads : o # t => todo'[o] = todo[o] /\ phase'[o] = phase[o] /\ held'[o] = held[o]
<1>1. todo \in [Threads -> Seq(Updates)] /\ phase \in [Threads -> {"start", "write", "keep"}]
        /\ DOMAIN held = Threads
  BY DEF SettingTypes
<1>2. phase' = [phase EXCEPT ![t] = "start"] /\ held' = [held EXCEPT ![t] = <<>>]
  BY DEF Next1
<1> QED  BY <1>1, <1>2

\* What a thread in an update without a mark owes is its own setting, or what
\* it has not begun.
LEMMA OwesRest ==
  ASSUME SettingTypes, NEW t \in Threads, ~Idle(t), todo'[t] = Tail(todo[t]), Now(t).how # "raced",
         NEW f \in Fields, f # Now(t).f, Owes(t, f)
  PROVE  Pending(t, f)'
BY TailOwes DEF Owes

\* So for another register, whatever the mark.
LEMMA OwesElsewhere ==
  ASSUME SettingTypes, NEW t \in Threads, ~Idle(t), todo'[t] = Tail(todo[t]),
         NEW f \in Fields, f \notin Same(Now(t).f), Owes(t, f)
  PROVE  Pending(t, f)'
<1>1. Now(t).f \in Same(Now(t).f)
  BY FirstUpdate
<1> QED  BY <1>1, TailOwes DEF Owes

\* A register is written and that is all of the update.
LEMMA WriteEnds ==
  ASSUME CoreInv, OwnersInv, NEW t \in Threads, EcWrite(t), Now(t).keep = Unknown
  PROVE  CoreInv'
<1> DEFINE op == Now(t)
<1>1. /\ ~Idle(t) /\ phase[t] = "write"
      /\ regs' = [g \in Fields |-> IF g \in DOMAIN held[t] THEN held[t][g] ELSE regs[g]]
      /\ Record(t) /\ todo' = [todo EXCEPT ![t] = Tail(@)] /\ Next1(t) /\ UNCHANGED <<last, on_start>>
  BY DEF EcWrite, Done
<1>2. /\ SettingTypes /\ op \in Updates /\ op.f \in Fields /\ op.f \in Same(op.f)
           /\ Same(op.f) \subseteq Fields
      /\ op \in Elems(todo[t]) /\ Tail(todo[t]) \in Seq(Updates)
  BY <1>1, FirstUpdate DEF CoreInv
<1>3. Busy(t) /\ held[t] \in [Same(op.f) -> Nat] /\ op.do = "update"
  BY <1>1, <1>2 DEF SettingTypes, Busy
<1>4. regs' \in [Fields -> Nat]
        /\ \A g \in Fields : regs'[g] = IF g \in Same(op.f) THEN held[t][g] ELSE regs[g]
  BY <1>1, <1>2, <1>3 DEF SettingTypes
<1>5. /\ chosen' \in [Fields -> Nat]
      /\ op.how \in {"asked", "restored", "raced", "black"}
      /\ op.how = "black" =>
           /\ op.f = "brightness" /\ op.v = 0 /\ op.keep # Unknown
           /\ \A g \in Fields : chosen'[g] = IF g = op.f THEN op.keep ELSE chosen[g]
           /\ Wanted("brightness")' = 0
      /\ \A g \in Fields : g # op.f => (chosen'[g] = chosen[g] => Wanted(g)' = Wanted(g))
      /\ op.how # "black" => \A g \in Fields : g = op.f => Wanted(g)' = chosen'[g]
      /\ op.how = "raced" => \A g \in Fields : chosen'[g] = IF g \in Same(op.f) THEN Unknown ELSE chosen[g]
      /\ op.how = "asked" => \A g \in Fields : chosen'[g] = IF g = op.f THEN held[t][g] ELSE chosen[g]
      /\ op.how = "restored" => chosen' = chosen
  BY <1>1, <1>2, <1>3, Recorded
<1>6. /\ todo' \in [Threads -> Seq(Updates)] /\ phase' \in [Threads -> {"start", "write", "keep"}]
      /\ DOMAIN held' = Threads /\ phase'[t] = "start" /\ todo'[t] = Tail(todo[t])
      /\ \A o \in Threads : o # t => todo'[o] = todo[o] /\ phase'[o] = phase[o] /\ held'[o] = held[o]
  <2>1. todo' = [todo EXCEPT ![t] = Tail(todo[t])]
    BY <1>1
  <2> QED  BY <1>1, <1>2, <2>1, GoesOn
<1>7. last' \in [Remembered -> Nat] /\ on_start' \in Nat
  BY <1>1, <1>2 DEF SettingTypes
<1>8. \A f \in Fields : regs'[f] # regs[f] \/ chosen'[f] \notin {chosen[f], Unknown}
          => Busy(t) /\ f \in Same(op.f)
  BY <1>2, <1>3, <1>4, <1>5
<1>9. op.how # "raced" =>
        /\ \A g \in Same(op.f) : g # op.f => held[t][g] = regs[g]
        /\ op.v # Last => held[t][op.f] = op.v
        /\ op.v = Last /\ chosen[op.f] # Unknown => held[t][op.f] = chosen[op.f]
  BY <1>3 DEF CoreInv, HeldInv
<1>10. /\ op.v # Unknown /\ (op.v = Last <=> op.how = "restored" \/ (op.how = "raced" /\ op.v = Last))
       /\ op.how = "asked" /\ op.f \in Remembered => op.f = "colour"
  BY <1>2, <1>3 DEF Updates
<1>11. \A f \in Fields : \/ chosen'[f] = Unknown
                         \/ regs'[f] = Wanted(f)'
                         \/ /\ regs'[f] = regs[f] /\ chosen'[f] = chosen[f] /\ Wanted(f)' = Wanted(f)
                            /\ Owes(t, f) => Pending(t, f)'
  <2> SUFFICES ASSUME NEW f \in Fields, chosen'[f] # Unknown, regs'[f] # Wanted(f)'
               PROVE  /\ regs'[f] = regs[f] /\ chosen'[f] = chosen[f] /\ Wanted(f)' = Wanted(f)
                      /\ Owes(t, f) => Pending(t, f)'
    OBVIOUS
  <2>1. CASE f \notin Same(op.f)
    <3>1. regs'[f] = regs[f] /\ chosen'[f] = chosen[f] /\ Wanted(f)' = Wanted(f)
      BY <1>2, <1>4, <1>5, <2>1
    <3> QED  BY <1>1, <1>2, <1>6, <2>1, <3>1, OwesElsewhere
  <2>2. CASE f \in Same(op.f)
    <3>1. op.how # "raced"
      BY <1>5, <2>2
    <3>2. regs'[f] = held[t][f]
      BY <1>4, <2>2
    <3>3. f # op.f
      BY <1>5, <1>9, <1>10, <3>1, <3>2 DEF Last
    <3>4. regs'[f] = regs[f] /\ chosen'[f] = chosen[f] /\ Wanted(f)' = Wanted(f)
      BY <1>5, <1>9, <2>2, <3>1, <3>2, <3>3
    <3> QED  BY <1>1, <1>2, <1>6, <3>1, <3>3, <3>4, OwesRest
  <2> QED  BY <2>1, <2>2
<1>12. \A f \in Remembered : \/ chosen'[f] = Unknown
                             \/ last'[f] = chosen'[f]
                             \/ last'[f] = last[f] /\ chosen'[f] = chosen[f] /\ ~Spoils(t, f)
  <2> SUFFICES ASSUME NEW f \in Remembered, chosen'[f] # Unknown, last'[f] # chosen'[f]
               PROVE  last'[f] = last[f] /\ chosen'[f] = chosen[f] /\ ~Spoils(t, f)
    OBVIOUS
  <2>1. f \in Fields /\ last'[f] = last[f]
    BY <1>1, RememberedFields
  <2>2. ~Spoils(t, f)
    BY <1>5, <2>1 DEF Spoils
  <2>3. CASE op.how = "asked" /\ f = op.f
    <3>1. f = "colour"
      BY <1>10, <2>3
    <3>2. op.v # Last
      BY <1>10, <2>3
    <3>3. Fits(t, op)
      BY <1>2 DEF OwnersInv
    <3>4. t \in Users \cup Handlers \cup {Driver}
      BY DEF Threads
    <3>5. t \in Users
      BY <1>3, <2>3, <3>1, <3>2, <3>3, <3>4 DEF Fits
    <3>6. op.v = last["colour"]
      BY <2>3, <3>1, <3>3, <3>5 DEF Fits
    <3>7. chosen'[f] = op.v
      BY <1>5, <1>9, <2>1, <2>3, <3>2
    <3> QED  BY <2>1, <3>1, <3>6, <3>7
  <2>4. CASE ~(op.how = "asked" /\ f = op.f)
    BY <1>5, <2>1, <2>2, <2>4
  <2> QED  BY <2>3, <2>4
<1> QED  BY <1>2, <1>4, <1>5, <1>6, <1>7, <1>8, <1>11, <1>12, Leaves

\* The driver remembers what was written.
LEMMA KeepEnds ==
  ASSUME CoreInv, NEW t \in Threads, Keep(t)
  PROVE  CoreInv'
<1> DEFINE op == Now(t)
<1>1. /\ ~Idle(t) /\ phase[t] = "keep" /\ op.do = "update" /\ last' = [last EXCEPT ![op.f] = op.keep]
      /\ Record(t) /\ todo' = [todo EXCEPT ![t] = Tail(@)] /\ Next1(t) /\ UNCHANGED <<regs, on_start>>
  BY DEF Keep, Done
<1>2. /\ SettingTypes /\ op \in Updates /\ op.f \in Fields /\ op.f \in Same(op.f)
           /\ Same(op.f) \subseteq Fields
      /\ Tail(todo[t]) \in Seq(Updates)
  BY <1>1, FirstUpdate DEF CoreInv
<1>3. Busy(t) /\ held[t] \in [Same(op.f) -> Nat] /\ op.keep # Unknown
  BY <1>1, <1>2 DEF SettingTypes, Busy
<1>4. /\ chosen' \in [Fields -> Nat]
      /\ op.how \in {"asked", "restored", "raced", "black"}
      /\ op.how = "black" =>
           /\ op.f = "brightness" /\ op.v = 0 /\ op.keep # Unknown
           /\ \A g \in Fields : chosen'[g] = IF g = op.f THEN op.keep ELSE chosen[g]
           /\ Wanted("brightness")' = 0
      /\ \A g \in Fields : g # op.f => (chosen'[g] = chosen[g] => Wanted(g)' = Wanted(g))
      /\ op.how # "black" => \A g \in Fields : g = op.f => Wanted(g)' = chosen'[g]
      /\ op.how = "raced" => \A g \in Fields : chosen'[g] = IF g \in Same(op.f) THEN Unknown ELSE chosen[g]
      /\ op.how = "asked" => \A g \in Fields : chosen'[g] = IF g = op.f THEN held[t][g] ELSE chosen[g]
      /\ op.how = "restored" => chosen' = chosen
  BY <1>1, <1>2, <1>3, Recorded
<1>5. /\ todo' \in [Threads -> Seq(Updates)] /\ phase' \in [Threads -> {"start", "write", "keep"}]
      /\ DOMAIN held' = Threads /\ phase'[t] = "start" /\ todo'[t] = Tail(todo[t])
      /\ \A o \in Threads : o # t => todo'[o] = todo[o] /\ phase'[o] = phase[o] /\ held'[o] = held[o]
  <2>1. todo' = [todo EXCEPT ![t] = Tail(todo[t])]
    BY <1>1
  <2> QED  BY <1>1, <1>2, <2>1, GoesOn
<1>6. op.f \in Remembered \ {"colour"} /\ op.keep \in Nat /\ op.v # Last /\ op.how # "restored"
        /\ op.v # Unknown
      /\ (op.how = "asked" => op.keep = op.v)
  BY <1>1, <1>2, <1>3 DEF Updates
<1>7. /\ last' \in [Remembered -> Nat] /\ on_start' \in Nat /\ regs' \in [Fields -> Nat]
      /\ \A f \in Remembered : last'[f] = IF f = op.f THEN op.keep ELSE last[f]
  BY <1>1, <1>2, <1>6 DEF SettingTypes
<1>8. op.how # "raced" => held[t][op.f] = regs[op.f] /\ held[t][op.f] = op.v
  BY <1>1, <1>2, <1>3, <1>6 DEF CoreInv, HeldInv
<1>9. \A f \in Fields : regs'[f] # regs[f] \/ chosen'[f] \notin {chosen[f], Unknown}
          => Busy(t) /\ f \in Same(op.f)
  BY <1>1, <1>2, <1>3, <1>4
<1>10. \A f \in Fields : \/ chosen'[f] = Unknown
                         \/ regs'[f] = Wanted(f)'
                         \/ /\ regs'[f] = regs[f] /\ chosen'[f] = chosen[f] /\ Wanted(f)' = Wanted(f)
                            /\ Owes(t, f) => Pending(t, f)'
  <2> SUFFICES ASSUME NEW f \in Fields, chosen'[f] # Unknown, regs'[f] # Wanted(f)'
               PROVE  /\ regs'[f] = regs[f] /\ chosen'[f] = chosen[f] /\ Wanted(f)' = Wanted(f)
                      /\ Owes(t, f) => Pending(t, f)'
    OBVIOUS
  <2>1. CASE op.how = "raced"
    <3>1. f \notin Same(op.f) /\ chosen'[f] = chosen[f] /\ Wanted(f)' = Wanted(f)
      BY <1>2, <1>4, <2>1
    <3> QED  BY <1>1, <1>2, <1>5, <3>1, OwesElsewhere
  <2>2. CASE op.how # "raced"
    <3>1. f # op.f
      BY <1>1, <1>4, <1>6, <1>8, <2>2
    <3>3. chosen'[f] = chosen[f] /\ Wanted(f)' = Wanted(f)
      BY <1>4, <1>6, <2>2, <3>1
    <3> QED  BY <1>1, <1>2, <1>5, <2>2, <3>1, <3>3, OwesRest
  <2> QED  BY <2>1, <2>2
<1>11. \A f \in Remembered : \/ chosen'[f] = Unknown
                             \/ last'[f] = chosen'[f]
                             \/ last'[f] = last[f] /\ chosen'[f] = chosen[f] /\ ~Spoils(t, f)
  <2> SUFFICES ASSUME NEW f \in Remembered, chosen'[f] # Unknown, last'[f] # chosen'[f]
               PROVE  last'[f] = last[f] /\ chosen'[f] = chosen[f] /\ ~Spoils(t, f)
    OBVIOUS
  <2>1. f \in Fields
    BY RememberedFields
  <2>2. ~Spoils(t, f)
    BY <1>4, <2>1 DEF Spoils
  <2>3. f # op.f
    BY <1>2, <1>4, <1>6, <1>7, <1>8, <2>1
  <2> QED  BY <1>4, <1>6, <1>7, <2>1, <2>2, <2>3
<1> QED  BY <1>2, <1>4, <1>5, <1>7, <1>9, <1>10, <1>11, Leaves

\* Probe looks at what the EC has; nobody is restoring anything then.
LEMMA ReadEnds ==
  ASSUME SInv, NEW t \in Threads, KeepRead(t)
  PROVE  CoreInv'
<1> DEFINE op == Now(t)
<1>1. /\ ~Idle(t) /\ phase[t] = "keep" /\ op.do = "read"
      /\ \/ op.f = "disabled" /\ on_start' = held[t][op.f] /\ UNCHANGED last
         \/ op.f # "disabled" /\ last' = [last EXCEPT ![op.f] = held[t][op.f]] /\ UNCHANGED on_start
      /\ Record(t) /\ todo' = [todo EXCEPT ![t] = Tail(@)] /\ Next1(t) /\ UNCHANGED regs
  BY DEF KeepRead, Done
<1>2. /\ CoreInv /\ SettingTypes /\ op \in Updates /\ op.f \in Fields /\ op.f \in Same(op.f)
      /\ Same(op.f) \subseteq Fields /\ op \in Elems(todo[t]) /\ Tail(todo[t]) \in Seq(Updates)
  BY <1>1, FirstUpdate DEF SInv, CoreInv
<1>3. Busy(t) /\ held[t] \in [Same(op.f) -> Nat] /\ held[t][op.f] \in Nat
  BY <1>1, <1>2 DEF SettingTypes, Busy
<1>4. /\ chosen' \in [Fields -> Nat]
      /\ op.how \in {"asked", "restored", "raced", "black"}
      /\ op.how = "black" =>
           /\ op.f = "brightness" /\ op.v = 0 /\ op.keep # Unknown
           /\ \A g \in Fields : chosen'[g] = IF g = op.f THEN op.keep ELSE chosen[g]
           /\ Wanted("brightness")' = 0
      /\ \A g \in Fields : g # op.f => (chosen'[g] = chosen[g] => Wanted(g)' = Wanted(g))
      /\ op.how # "black" => \A g \in Fields : g = op.f => Wanted(g)' = chosen'[g]
      /\ op.how = "raced" => \A g \in Fields : chosen'[g] = IF g \in Same(op.f) THEN Unknown ELSE chosen[g]
      /\ op.how = "asked" => \A g \in Fields : chosen'[g] = IF g = op.f THEN held[t][g] ELSE chosen[g]
      /\ op.how = "restored" => chosen' = chosen
  BY <1>1, <1>2, <1>3, Recorded
<1>5. /\ todo' \in [Threads -> Seq(Updates)] /\ phase' \in [Threads -> {"start", "write", "keep"}]
      /\ DOMAIN held' = Threads /\ phase'[t] = "start" /\ todo'[t] = Tail(todo[t])
      /\ \A o \in Threads : o # t => todo'[o] = todo[o] /\ phase'[o] = phase[o] /\ held'[o] = held[o]
  <2>1. todo' = [todo EXCEPT ![t] = Tail(todo[t])]
    BY <1>1
  <2> QED  BY <1>1, <1>2, <2>1, GoesOn
<1>6. op.f \in {"disabled", "prio", "profile"} /\ op.how # "asked"
  BY <1>1, <1>2 DEF Updates
<1>7. /\ last' \in [Remembered -> Nat] /\ on_start' \in Nat /\ regs' \in [Fields -> Nat]
      /\ \A f \in Remembered : last'[f] = IF f = op.f THEN held[t][f] ELSE last[f]
  <2>1. op.f # "disabled" => op.f \in Remembered
    BY <1>6 DEF Remembered
  <2>2. "disabled" \notin Remembered
    BY DEF Remembered
  <2> QED  BY <1>1, <1>2, <1>3, <2>1, <2>2 DEF SettingTypes
<1>8. op.how # "raced" => held[t][op.f] = regs[op.f]
  BY <1>1, <1>2, <1>3 DEF CoreInv, HeldInv
<1>9. \A f \in Fields : regs'[f] # regs[f] \/ chosen'[f] \notin {chosen[f], Unknown}
          => Busy(t) /\ f \in Same(op.f)
  BY <1>1, <1>2, <1>3, <1>4, <1>6
<1>10. op.how = "restored" => ~Owes(t, op.f) \/ Pending(t, op.f)
  BY <1>1 DEF Owes
<1>11. \A f \in Fields : \/ chosen'[f] = Unknown
                         \/ regs'[f] = Wanted(f)'
                         \/ /\ regs'[f] = regs[f] /\ chosen'[f] = chosen[f] /\ Wanted(f)' = Wanted(f)
                            /\ Owes(t, f) => Pending(t, f)'
  <2> SUFFICES ASSUME NEW f \in Fields, chosen'[f] # Unknown, regs'[f] # Wanted(f)'
               PROVE  /\ regs'[f] = regs[f] /\ chosen'[f] = chosen[f] /\ Wanted(f)' = Wanted(f)
                      /\ Owes(t, f) => Pending(t, f)'
    OBVIOUS
  <2>1. CASE op.how = "raced"
    <3>1. f \notin Same(op.f) /\ chosen'[f] = chosen[f] /\ Wanted(f)' = Wanted(f)
      BY <1>2, <1>4, <2>1
    <3> QED  BY <1>1, <1>2, <1>5, <3>1, OwesElsewhere
  <2>2. CASE op.how # "raced"
    <3>1. chosen'[f] = chosen[f] /\ Wanted(f)' = Wanted(f)
      <4>1. op.how = "restored" /\ chosen' = chosen /\ \A g \in Fields : g = op.f => Wanted(g)' = chosen'[g]
        BY <1>4, <1>6, <2>2
      <4>2. op.f # "brightness" => Wanted(op.f) = chosen[op.f]
        BY DEF Wanted
      <4> QED  BY <1>4, <1>6, <4>1, <4>2
    <3>2. Owes(t, f) => Pending(t, f)
      BY <1>1, <2>2 DEF Owes
    <3> QED  BY <1>1, <1>2, <1>5, <3>1, <3>2, TailOwes
  <2> QED  BY <2>1, <2>2
<1>12. t = Driver /\ state = "probing"
  <2>1. Fits(t, op) /\ t \in Users \cup Handlers \cup {Driver}
    BY <1>2 DEF SInv, OwnersInv, Threads
  <2> QED  BY <1>1, <2>1 DEF Fits
<1>13. op.how # "raced" /\ chosen[op.f] # Unknown => regs[op.f] = chosen[op.f]
  <2> SUFFICES ASSUME op.how # "raced", chosen[op.f] # Unknown, regs[op.f] # chosen[op.f] PROVE FALSE
    OBVIOUS
  <2>0. Wanted(op.f) = chosen[op.f]
    BY <1>6 DEF Wanted
  <2>1. PICK o \in Threads : Owes(o, op.f)
    BY <1>2, <2>0 DEF CoreInv, OwesInv
  <2>2. CASE Pending(o, op.f)
    <3>1. PICK x \in Elems(todo[o]) : x.do = "update" /\ x.f = op.f /\ x.v = Last
      BY <1>6, <2>2 DEF Pending
    <3>2. Fits(o, x) /\ o \in Users \cup Handlers \cup {Driver}
      BY DEF SInv, OwnersInv, Threads
    <3>3. o \in Handlers
      BY <1>12, <3>1, <3>2 DEF Fits
    <3>4. Idle(o)
      BY <1>12, <3>3 DEF SInv, StateInv
    <3> QED  BY <3>1, <3>4, ElemsShort DEF Idle
  <2>3. CASE Busy(o) /\ op.f \in Same(Now(o).f)
          /\ (Now(o).how = "raced" \/ (Now(o).do = "update" /\ Now(o).f = op.f))
    <3>1. o # t
      BY <1>1, <2>3
    <3>2. ~Idle(o)
      BY <1>2, <2>3 DEF SettingTypes
    <3>3. Now(o).f \in Fields /\ op.f \in Same(Now(o).f)
      BY <1>2, <2>3, <3>2, FirstUpdate
    <3> QED  BY <1>2, <1>3, <2>3, <3>1, <3>3 DEF CoreInv, AloneInv
  <2> QED  BY <2>1, <2>2, <2>3 DEF Owes
<1>14. \A f \in Remembered : \/ chosen'[f] = Unknown
                             \/ last'[f] = chosen'[f]
                             \/ last'[f] = last[f] /\ chosen'[f] = chosen[f] /\ ~Spoils(t, f)
  <2> SUFFICES ASSUME NEW f \in Remembered, chosen'[f] # Unknown, last'[f] # chosen'[f]
               PROVE  last'[f] = last[f] /\ chosen'[f] = chosen[f] /\ ~Spoils(t, f)
    OBVIOUS
  <2>1. f \in Fields
    BY RememberedFields
  <2>2. ~Spoils(t, f)
    BY <1>4, <2>1 DEF Spoils
  <2>3. f # op.f
    BY <1>2, <1>4, <1>6, <1>7, <1>8, <1>13, <2>1
  <2> QED  BY <1>4, <1>6, <1>7, <2>1, <2>2, <2>3
<1> QED  BY <1>2, <1>4, <1>5, <1>7, <1>9, <1>11, <1>14, Leaves

\* Nobody who is told of the backlight key has anything else to do.
LEMMA OnlyNotice ==
  ASSUME SettingTypes, OwnersInv, NEW t \in Threads, ~Idle(t), Now(t).do = "notify", NEW f \in Fields
  PROVE  ~Pending(t, f) /\ t \in Handlers
<1>1. Now(t) \in Elems(todo[t])
  BY FirstUpdate
<1>2. \A op \in Elems(todo[t]) : op.do = "notify"
  BY <1>1 DEF OwnersInv, Notifies
<1>3. Fits(t, Now(t)) /\ t \in Users \cup Handlers \cup {Driver}
  BY <1>1 DEF OwnersInv, Threads
<1> QED  BY <1>2, <1>3 DEF Pending, Fits

\* The next level is written and remembered.
LEMMA NextLevelWritten ==
  ASSUME NEW b \in Nat
  PROVE  /\ NextLevel(b) \in Seq(Updates)
              /\ Elems(NextLevel(b)) = {Update("brightness", (b + 1) % 5, (b + 1) % 5, "leds")}
         /\ Update("brightness", (b + 1) % 5, (b + 1) % 5, "leds") \in Updates
<1>1. PICK v : v = (b + 1) % 5
  OBVIOUS
<1>2. v \in 0 .. 4
  BY <1>1
<1>3. v \in Nat /\ v # Unknown /\ v # Last
  BY <1>2 DEF Unknown, Last
<1>4. Update("brightness", v, v, "leds") \in Updates
  BY <1>3, FieldNames DEF Update, Updates, Groups, Remembered
<1>5. <<Update("brightness", v, v, "leds")>> \in Seq(Updates)
      /\ Elems(<<Update("brightness", v, v, "leds")>>) = {Update("brightness", v, v, "leds")}
  BY <1>4, ElemsShort
<1> QED  BY <1>1, <1>4, <1>5 DEF NextLevel

\* The driver is told of the brightness, and may go on to the next.
LEMMA NoticeEnds ==
  ASSUME CoreInv, OwnersInv, NEW t \in Threads, Notify(t)
  PROVE  CoreInv'
<1> DEFINE op == Now(t)
<1>1. /\ ~Idle(t) /\ phase[t] = "keep" /\ op.do = "notify"
      /\ Record(t) /\ Next1(t) /\ UNCHANGED <<regs, on_start>>
      /\ \/ /\ last["brightness"] = held[t]["brightness"] /\ last' = last
            /\ todo' = [todo EXCEPT ![t] = NextLevel(held[t]["brightness"])]
         \/ /\ todo' = [todo EXCEPT ![t] = <<>>]
            /\ last' = [last EXCEPT !["brightness"] = held[t]["brightness"]]
  BY DEF Notify, NotifiedOf
<1>2. /\ SettingTypes /\ op \in Updates /\ op.f \in Fields /\ op.f \in Same(op.f)
           /\ Same(op.f) \subseteq Fields
  BY <1>1, FirstUpdate DEF CoreInv
<1>3. op.f = "brightness" /\ op.how # "restored"
  BY <1>1, <1>2 DEF Updates
<1>4. Busy(t) /\ held[t] \in [Same(op.f) -> Nat] /\ held[t]["brightness"] \in Nat
  BY <1>1, <1>2, <1>3 DEF SettingTypes, Busy
<1>5. /\ chosen' \in [Fields -> Nat]
      /\ op.how \in {"asked", "restored", "raced", "black"}
      /\ op.how = "black" =>
           /\ op.f = "brightness" /\ op.v = 0 /\ op.keep # Unknown
           /\ \A g \in Fields : chosen'[g] = IF g = op.f THEN op.keep ELSE chosen[g]
           /\ Wanted("brightness")' = 0
      /\ \A g \in Fields : g # op.f => (chosen'[g] = chosen[g] => Wanted(g)' = Wanted(g))
      /\ op.how # "black" => \A g \in Fields : g = op.f => Wanted(g)' = chosen'[g]
      /\ op.how = "raced" => \A g \in Fields : chosen'[g] = IF g \in Same(op.f) THEN Unknown ELSE chosen[g]
      /\ op.how = "asked" => \A g \in Fields : chosen'[g] = IF g = op.f THEN held[t][g] ELSE chosen[g]
  BY <1>1, <1>2, <1>4, Recorded
<1>6. PICK rest \in Seq(Updates) : todo' = [todo EXCEPT ![t] = rest]
  BY <1>1, <1>4, NextLevelWritten, ElemsShort
<1>7. /\ todo' \in [Threads -> Seq(Updates)] /\ phase' \in [Threads -> {"start", "write", "keep"}]
      /\ DOMAIN held' = Threads /\ phase'[t] = "start" /\ todo'[t] = rest
      /\ \A o \in Threads : o # t => todo'[o] = todo[o] /\ phase'[o] = phase[o] /\ held'[o] = held[o]
  BY <1>1, <1>2, <1>6, GoesOn
<1>8. /\ last' \in [Remembered -> Nat] /\ on_start' \in Nat /\ regs' \in [Fields -> Nat]
      /\ last'["brightness"] = held[t]["brightness"]
      /\ \A f \in Remembered : f # "brightness" => last'[f] = last[f]
  <2>1. "brightness" \in Remembered
    BY DEF Remembered
  <2> QED  BY <1>1, <1>2, <1>4, <2>1 DEF SettingTypes
<1>9. op.how # "raced" => held[t]["brightness"] = regs["brightness"]
  BY <1>1, <1>2, <1>3, <1>4 DEF CoreInv, HeldInv
<1>10. \A f \in Fields : regs'[f] # regs[f] \/ chosen'[f] \notin {chosen[f], Unknown}
           => Busy(t) /\ f \in Same(op.f)
  BY <1>1, <1>2, <1>3, <1>4, <1>5
<1>11. \A f \in Fields : \/ chosen'[f] = Unknown
                         \/ regs'[f] = Wanted(f)'
                         \/ /\ regs'[f] = regs[f] /\ chosen'[f] = chosen[f] /\ Wanted(f)' = Wanted(f)
                            /\ Owes(t, f) => Pending(t, f)'
  <2> SUFFICES ASSUME NEW f \in Fields, chosen'[f] # Unknown, regs'[f] # Wanted(f)'
               PROVE  regs'[f] = regs[f] /\ chosen'[f] = chosen[f] /\ Wanted(f)' = Wanted(f) /\ ~Owes(t, f)
    OBVIOUS
  <2>1. ~Pending(t, f)
    BY <1>1, <1>2, OnlyNotice
  <2>4. op.how \in {"asked", "raced"}
    BY <1>1, <1>2, <1>3, <1>5 DEF Updates
  <2>2. CASE op.how = "raced"
    <3>1. f \notin Same(op.f) /\ f # op.f /\ chosen'[f] = chosen[f]
      BY <1>2, <1>5, <2>2
    <3> QED  BY <1>1, <1>5, <2>1, <3>1 DEF Owes
  <2>3. CASE op.how = "asked"
    <3>1. f # op.f
      BY <1>1, <1>3, <1>5, <1>9, <2>3
    <3>2. chosen'[f] = chosen[f]
      BY <1>5, <2>3, <3>1
    <3> QED  BY <1>1, <1>5, <2>1, <2>3, <3>1, <3>2 DEF Owes
  <2> QED  BY <2>2, <2>3, <2>4
<1>12. \A f \in Remembered : \/ chosen'[f] = Unknown
                             \/ last'[f] = chosen'[f]
                             \/ last'[f] = last[f] /\ chosen'[f] = chosen[f] /\ ~Spoils(t, f)
  <2> SUFFICES ASSUME NEW f \in Remembered, chosen'[f] # Unknown, last'[f] # chosen'[f]
               PROVE  last'[f] = last[f] /\ chosen'[f] = chosen[f] /\ ~Spoils(t, f)
    OBVIOUS
  <2>1. f \in Fields
    BY RememberedFields
  <2>2. ~Spoils(t, f)
    BY <1>5, <2>1 DEF Spoils
  <2>3. op.how \in {"asked", "raced"}
    BY <1>1, <1>2, <1>3, <1>5 DEF Updates
  <2>4. CASE op.how = "asked"
    <3>1. f # "brightness"
      BY <1>3, <1>5, <1>8, <2>1, <2>4
    <3> QED  BY <1>3, <1>5, <1>8, <2>1, <2>2, <2>4, <3>1
  <2>5. CASE op.how = "raced"
    <3>1. f # "brightness" /\ chosen'[f] = chosen[f]
      BY <1>2, <1>3, <1>5, <2>1, <2>5
    <3> QED  BY <1>8, <2>2, <3>1
  <2> QED  BY <2>3, <2>4, <2>5
<1> QED  BY <1>2, <1>5, <1>7, <1>8, <1>10, <1>11, <1>12, Leaves

\* Attributes come and go between updates.
LEMMA OfferKeeps ==
  ASSUME CoreInv, NEW t \in Threads, OfferOrWithdraw(t)
  PROVE  CoreInv'
<1> DEFINE op == Now(t)
<1>1. /\ ~Idle(t) /\ op.do \in {"offer", "withdraw"} /\ todo' = [todo EXCEPT ![t] = Tail(@)]
      /\ UNCHANGED <<regs, chosen, black, phase, held, last, on_start>>
  BY DEF OfferOrWithdraw, ecVars
<1>2. /\ SettingTypes /\ op \in Updates /\ op.f \in Fields /\ Tail(todo[t]) \in Seq(Updates)
  BY <1>1, FirstUpdate DEF CoreInv
<1>3. ~Busy(t)
  BY <1>1, <1>2 DEF SettingTypes
<1>4. /\ todo' \in [Threads -> Seq(Updates)] /\ phase' \in [Threads -> {"start", "write", "keep"}]
      /\ DOMAIN held' = Threads /\ phase'[t] = "start" /\ todo'[t] = Tail(todo[t])
      /\ \A o \in Threads : o # t => todo'[o] = todo[o] /\ phase'[o] = phase[o] /\ held'[o] = held[o]
  BY <1>1, <1>2, <1>3 DEF SettingTypes, Busy
<1>5. /\ chosen' \in [Fields -> Nat] /\ last' \in [Remembered -> Nat] /\ on_start' \in Nat
      /\ regs' \in [Fields -> Nat]
  BY <1>1, <1>2 DEF SettingTypes
<1>6. \A f \in Fields : Owes(t, f) => Pending(t, f)'
  BY <1>1, <1>2, <1>3, <1>4, TailOwes DEF Owes
<1>7. \A f \in Remembered : ~Spoils(t, f)
  BY <1>3 DEF Spoils
<1>8. \A f \in Fields : Wanted(f)' = Wanted(f)
  BY <1>1 DEF Wanted
<1> QED  BY <1>1, <1>4, <1>5, <1>6, <1>7, <1>8, Leaves

\* What is left of a list from some place on.
LEMMA Later ==
  ASSUME NEW s \in Seq(Updates), NEW m \in Nat
  PROVE  /\ SubSeq(s, 1 + m, Len(s)) \in Seq(Updates)
         /\ Elems(SubSeq(s, 1 + m, Len(s))) \subseteq Elems(s)
         /\ \A i \in 1 .. Len(s) : i > m => s[i] \in Elems(SubSeq(s, 1 + m, Len(s)))
<1>1. PICK n : n = Len(s)
  OBVIOUS
<1>2. PICK r : r = SubSeq(s, 1 + m, n)
  OBVIOUS
<1>3. n \in Nat
  BY <1>1
<1>4. /\ Len(r) = (IF 1 + m <= n THEN n - (1 + m) + 1 ELSE 0) /\ r \in Seq(Updates)
      /\ \A i \in 1 .. Len(r) : r[i] = s[1 + m + i - 1]
  <2>1. \A i \in (1 + m) .. n : s[i] \in Updates
    BY <1>1, <1>3, ElementOfSeq
  <2> QED  BY <1>1, <1>2, <1>3, <2>1, SubSeqProperties
<1>5. ASSUME NEW x \in Elems(r) PROVE x \in Elems(s)
  <2>1. PICK i \in 1 .. Len(r) : x = r[i]
    BY <1>5 DEF Elems
  <2>2. PICK j : j = 1 + m + i - 1
    OBVIOUS
  <2>3. j \in 1 .. n /\ x = s[j]
    BY <1>3, <1>4, <2>1, <2>2
  <2> QED  BY <1>1, <2>3 DEF Elems
<1>6. ASSUME NEW i \in 1 .. n, i > m PROVE s[i] \in Elems(r)
  <2>1. PICK j : j = i - m
    OBVIOUS
  <2>2. j \in 1 .. Len(r) /\ 1 + m + j - 1 = i
    BY <1>3, <1>4, <1>6, <2>1
  <2> QED  BY <1>4, <2>2 DEF Elems
<1> QED  BY <1>1, <1>2, <1>4, <1>5, <1>6

\* An update that failed takes its group with it, and no others.
LEMMA FailedGroup ==
  ASSUME NEW s \in Seq(Updates), NEW g, NEW group,
         group = {1} \/ group = {i \in DOMAIN s : \A j \in 1..i : s[j].group = g}
  PROVE  /\ Cardinality(group) \in Nat
         /\ \A i \in 1 .. Len(s) : i \notin group => i > Cardinality(group)
<1>1. PICK n \in Nat : n = Len(s) /\ DOMAIN s = 1 .. n
  BY LenProperties
<1>2. CASE group = {1}
  <2>1. Cardinality(group) = 1
    BY <1>2, FS_Singleton
  <2>2. \A i \in 1 .. n : i \notin group => i > 1
    BY <1>2
  <2> QED  BY <1>1, <2>1, <2>2
<1>3. CASE group = {i \in DOMAIN s : \A j \in 1..i : s[j].group = g}
  <2>1. group \subseteq 1 .. n
    BY <1>1, <1>3
  <2>2. IsFiniteSet(1 .. n)
    BY FS_Interval
  <2>3. Cardinality(group) \in Nat
    BY <2>1, <2>2, FS_Subset, FS_CardinalityType
  <2>4. ASSUME NEW i \in 1 .. n, i \notin group PROVE i > Cardinality(group)
    <3>1. ASSUME NEW k \in group PROVE k \in 1 .. (i - 1)
      <4>1. k \in 1 .. n /\ \A j \in 1 .. k : s[j].group = g
        BY <1>1, <1>3, <3>1
      <4>2. k < i
        <5> SUFFICES ASSUME i <= k PROVE FALSE
          BY <4>1
        <5>1. \A j \in 1 .. i : j \in 1 .. k
          BY <4>1
        <5>2. \A j \in 1 .. i : s[j].group = g
          BY <4>1, <5>1
        <5> QED  BY <1>1, <1>3, <2>4, <5>2
      <4> QED  BY <4>1, <4>2
    <3>2. PICK m \in Nat : m = i - 1
      BY <2>4
    <3>3. group \subseteq 1 .. m
      BY <3>1, <3>2
    <3>4. IsFiniteSet(1 .. m) /\ Cardinality(1 .. m) = m
      BY <3>2, FS_Interval
    <3>5. Cardinality(group) <= m
      BY <3>3, <3>4, FS_Subset
    <3> QED  BY <2>3, <3>2, <3>5
  <2> QED  BY <1>1, <2>3, <2>4
<1> QED  BY <1>2, <1>3

\* What a failure loses, and what it leaves to be done.
LEMMA FailureLeaves ==
  ASSUME SettingTypes, NEW t \in Threads, EcFails(t), Now(t).do # "notify"
  PROVE  /\ ~Idle(t) /\ Busy(t) /\ (Now(t).do = "update" \/ Now(t).do = "read") /\ Next1(t) /\ disturbed'
         /\ \E rest \in Seq(Updates) :
              /\ todo' = [todo EXCEPT ![t] = rest] /\ Elems(rest) \subseteq Elems(todo[t])
              /\ \A op \in Elems(todo[t]) : op \in Elems(rest) \/ chosen'[op.f] = Unknown
              /\ \A op \in Elems(todo[t]) : op.group = "offer" => op \in Elems(rest)
         /\ chosen' \in [Fields -> Nat]
         /\ \A g \in Fields : chosen'[g] \in {chosen[g], Unknown}
              /\ (g \in Same(Now(t).f) => chosen'[g] = Unknown)
         /\ regs' \in [Fields -> Nat] /\ \A g \in Fields : g \notin Same(Now(t).f) => regs'[g] = regs[g]
         /\ last' \in [Remembered -> Nat] /\ \A g \in Remembered : g # Now(t).f => last'[g] = last[g]
         /\ on_start' \in Nat /\ black' = black
<1> DEFINE group == IF Now(t).f \in Unchecked THEN {1}
                    ELSE {i \in DOMAIN todo[t] : \A j \in 1..i : todo[t][j].group = Now(t).group}
           lost  == Same(Now(t).f) \cup {todo[t][i].f : i \in group}
           rest  == SubSeq(todo[t], 1 + Cardinality(group), Len(todo[t]))
<1>1. /\ ~Idle(t) /\ (phase[t] = "write" \/ (phase[t] = "keep" /\ Now(t).do = "read"))
      /\ chosen' = [g \in Fields |-> IF g \in lost THEN Unknown ELSE chosen[g]]
      /\ \/ Now(t).do = "update" /\ UNCHANGED <<regs, last, on_start>>
         \/ /\ Now(t).do = "update" /\ Now(t).f \in Unchecked /\ UNCHANGED <<last, on_start>>
            /\ regs' = [g \in Fields |-> IF g = Now(t).f THEN held[t][g]
                                         ELSE IF g \in Same(Now(t).f) THEN 7 ELSE regs[g]]
         \/ /\ Now(t).do = "read" /\ UNCHANGED regs
            /\ IF Now(t).f = "disabled" THEN on_start' = 1 /\ UNCHANGED last
               ELSE last' = [last EXCEPT ![Now(t).f] = 1] /\ UNCHANGED on_start
      /\ todo' = [todo EXCEPT ![t] = SubSeq(@, 1 + Cardinality(group), Len(@))]
      /\ Next1(t) /\ disturbed' = TRUE /\ black' = black
  BY DEF EcFails
<1>2. /\ Now(t) \in Updates /\ Now(t).f \in Fields /\ Now(t).f \in Same(Now(t).f)
           /\ Same(Now(t).f) \subseteq Fields
      /\ Elems(todo[t]) \subseteq Updates /\ todo[t] \in Seq(Updates)
      /\ Now(t) = todo[t][1] /\ Len(todo[t]) \in Nat /\ Len(todo[t]) > 0 /\ DOMAIN todo[t] = 1 .. Len(todo[t])
  <2>1. todo[t] \in Seq(Updates) /\ todo[t] # <<>>
    BY <1>1 DEF SettingTypes, Idle
  <2>2. Now(t) = todo[t][1] /\ Len(todo[t]) \in Nat /\ Len(todo[t]) > 0
    BY <2>1, ElemsParts DEF Now
  <2>3. DOMAIN todo[t] = 1 .. Len(todo[t])
    BY <2>1, LenProperties
  <2> QED  BY <1>1, <2>1, <2>2, <2>3, FirstUpdate
<1>3. Busy(t) /\ held[t] \in [Same(Now(t).f) -> Nat] /\ (Now(t).do = "update" \/ Now(t).do = "read")
  BY <1>1, <1>2 DEF SettingTypes, Busy
<1>4. Cardinality(group) \in Nat /\ \A i \in 1 .. Len(todo[t]) : i \notin group => i > Cardinality(group)
  <2>1. PICK gr : gr = group
    OBVIOUS
  <2>2. gr = {1} \/ gr = {i \in DOMAIN todo[t] : \A j \in 1..i : todo[t][j].group = Now(t).group}
    BY <2>1
  <2>3. Cardinality(gr) \in Nat /\ \A i \in 1 .. Len(todo[t]) : i \notin gr => i > Cardinality(gr)
    BY <1>2, <2>2, FailedGroup
  <2> QED  BY <2>1, <2>3
<1>5. \A i \in group : i \in 1 .. Len(todo[t]) /\ todo[t][i].group = Now(t).group
  <2> SUFFICES ASSUME NEW i \in group PROVE i \in 1 .. Len(todo[t]) /\ todo[t][i].group = Now(t).group
    OBVIOUS
  <2>1. CASE i = 1
    BY <1>2, <2>1
  <2>2. CASE i # 1
    <3>1. i \in DOMAIN todo[t] /\ \A j \in 1 .. i : todo[t][j].group = Now(t).group
      BY <2>2
    <3>2. i \in 1 .. i
      BY <1>2, <3>1
    <3> QED  BY <1>2, <3>1, <3>2
  <2> QED  BY <2>1, <2>2
<1>6. /\ rest \in Seq(Updates) /\ Elems(rest) \subseteq Elems(todo[t])
      /\ \A i \in 1 .. Len(todo[t]) : i > Cardinality(group) => todo[t][i] \in Elems(rest)
  BY <1>2, <1>4, Later
<1>7. chosen' \in [Fields -> Nat]
      /\ \A g \in Fields : chosen'[g] = IF g \in lost THEN Unknown ELSE chosen[g]
  <2>1. Unknown \in Nat
    BY DEF Unknown
  <2> QED  BY <1>1, <2>1 DEF SettingTypes
<1>8. \A op \in Elems(todo[t]) : op \in Elems(rest) \/ chosen'[op.f] = Unknown
  <2> SUFFICES ASSUME NEW op \in Elems(todo[t]), op \notin Elems(rest) PROVE chosen'[op.f] = Unknown
    OBVIOUS
  <2>1. PICK i \in 1 .. Len(todo[t]) : op = todo[t][i]
    BY DEF Elems
  <2>2. i \in group
    BY <1>4, <1>6, <2>1
  <2>3. op.f \in lost /\ op.f \in Fields
    BY <1>2, <2>1, <2>2 DEF Updates
  <2> QED  BY <1>7, <2>3
<1>9. \A op \in Elems(todo[t]) : op.group = "offer" => op \in Elems(rest)
  <2> SUFFICES ASSUME NEW op \in Elems(todo[t]), op.group = "offer", op \notin Elems(rest) PROVE FALSE
    OBVIOUS
  <2>1. PICK i \in 1 .. Len(todo[t]) : op = todo[t][i]
    BY DEF Elems
  <2>2. i \in group
    BY <1>4, <1>6, <2>1
  <2>3. Now(t).group = "offer"
    BY <1>5, <2>1, <2>2
  <2> QED  BY <1>2, <1>3, <2>3 DEF Updates
<1>10. regs' \in [Fields -> Nat] /\ \A g \in Fields : g \notin Same(Now(t).f) => regs'[g] = regs[g]
  <2>1. regs \in [Fields -> Nat]
    BY DEF SettingTypes
  <2>2. \/ regs' = regs
        \/ regs' = [g \in Fields |-> IF g = Now(t).f THEN held[t][g]
                                     ELSE IF g \in Same(Now(t).f) THEN 7 ELSE regs[g]]
    BY <1>1
  <2>3. held[t][Now(t).f] \in Nat
    BY <1>2, <1>3
  <2> QED  BY <1>2, <2>1, <2>2, <2>3
<1>11. /\ last' \in [Remembered -> Nat] /\ \A g \in Remembered : g # Now(t).f => last'[g] = last[g]
       /\ on_start' \in Nat
  <2>1. last \in [Remembered -> Nat] /\ on_start \in Nat
    BY DEF SettingTypes
  <2>2. \/ last' = last /\ on_start' = on_start
        \/ last' = last /\ on_start' = 1
        \/ last' = [last EXCEPT ![Now(t).f] = 1] /\ on_start' = on_start
    BY <1>1
  <2> QED  BY <2>1, <2>2
<1>12. todo' = [todo EXCEPT ![t] = rest]
  BY <1>1
<1>13. \A g \in Fields : chosen'[g] \in {chosen[g], Unknown} /\ (g \in Same(Now(t).f) => chosen'[g] = Unknown)
  BY <1>7
<1> HIDE DEF rest, group, lost
<1> QED  BY <1>1, <1>3, <1>6, <1>7, <1>8, <1>9, <1>10, <1>11, <1>12, <1>13

\* The brightness cannot be read, and the driver takes what it is left with.
LEMMA NoticeFails ==
  ASSUME CoreInv, OwnersInv, NEW t \in Threads, EcFails(t), Now(t).do = "notify"
  PROVE  CoreInv'
<1> DEFINE op == Now(t)
           group == IF op.f \in Unchecked THEN {1}
                    ELSE {i \in DOMAIN todo[t] : \A j \in 1..i : todo[t][j].group = op.group}
           lost  == Same(op.f) \cup {todo[t][i].f : i \in group}
<1>1. /\ ~Idle(t) /\ (phase[t] = "write" \/ phase[t] = "keep") /\ op.do = "notify"
      /\ Next1(t) /\ UNCHANGED <<regs, on_start, black>>
      /\ \/ last' = last /\ todo' = [todo EXCEPT ![t] = NextLevel(7)]
         \/ todo' = [todo EXCEPT ![t] = <<>>] /\ last' = [last EXCEPT !["brightness"] = 7]
      /\ chosen' = [g \in Fields |-> IF g \in lost THEN Unknown ELSE chosen[g]]
  BY DEF EcFails, NotifiedOf
<1>2. /\ SettingTypes /\ op \in Updates /\ op.f \in Fields /\ op.f \in Same(op.f)
      /\ Same(op.f) \subseteq Fields
  BY <1>1, FirstUpdate DEF CoreInv
<1>3. op.f = "brightness" /\ Busy(t)
  BY <1>1, <1>2 DEF Updates, Busy
<1>4. PICK rest \in Seq(Updates) : todo' = [todo EXCEPT ![t] = rest]
  BY <1>1, NextLevelWritten, ElemsShort
<1>5. /\ todo' \in [Threads -> Seq(Updates)] /\ phase' \in [Threads -> {"start", "write", "keep"}]
      /\ DOMAIN held' = Threads /\ phase'[t] = "start" /\ todo'[t] = rest
      /\ \A o \in Threads : o # t => todo'[o] = todo[o] /\ phase'[o] = phase[o] /\ held'[o] = held[o]
  BY <1>1, <1>2, <1>4, GoesOn
<1>6. /\ last' \in [Remembered -> Nat] /\ on_start' \in Nat /\ regs' \in [Fields -> Nat]
      /\ \A f \in Remembered : f # "brightness" => last'[f] = last[f]
  BY <1>1, <1>2 DEF SettingTypes
<1>7. /\ chosen' \in [Fields -> Nat]
      /\ \A f \in Fields : chosen'[f] \in {chosen[f], Unknown} /\ (f \in Same(op.f) => chosen'[f] = Unknown)
  <2>1. chosen \in [Fields -> Nat] /\ Unknown \in Nat
    BY <1>2 DEF SettingTypes, Unknown
  <2> QED  BY <1>1, <2>1
<1> HIDE DEF group, lost
<1>8. ASSUME NEW f \in Fields, chosen'[f] # Unknown
      PROVE  /\ regs'[f] = regs[f] /\ chosen'[f] = chosen[f] /\ Wanted(f)' = Wanted(f)
             /\ ~Owes(t, f) /\ ~Spoils(t, f) /\ f # "brightness"
  <2>1. ~Pending(t, f)
    BY <1>1, <1>2, OnlyNotice
  <2>2. f \notin Same(op.f) /\ chosen'[f] = chosen[f]
    BY <1>7, <1>8
  <2> QED  BY <1>1, <1>2, <1>3, <2>1, <2>2 DEF Owes, Spoils, Wanted
<1>9. \A f \in Fields : regs'[f] # regs[f] \/ chosen'[f] \notin {chosen[f], Unknown}
          => Busy(t) /\ f \in Same(op.f)
  BY <1>1, <1>7
<1>10. \A f \in Remembered : \/ chosen'[f] = Unknown
                             \/ last'[f] = chosen'[f]
                             \/ last'[f] = last[f] /\ chosen'[f] = chosen[f] /\ ~Spoils(t, f)
  BY <1>6, <1>8, RememberedFields
<1> QED  BY <1>5, <1>6, <1>7, <1>8, <1>9, <1>10, Leaves

\* An access fails.
LEMMA FailEnds ==
  ASSUME CoreInv, NEW t \in Threads, EcFails(t), Now(t).do # "notify"
  PROVE  CoreInv'
<1> DEFINE op == Now(t)
<1>0. SettingTypes
  BY DEF CoreInv
<1>1. /\ ~Idle(t) /\ Busy(t) /\ Next1(t)
      /\ chosen' \in [Fields -> Nat]
      /\ \A g \in Fields : chosen'[g] \in {chosen[g], Unknown} /\ (g \in Same(op.f) => chosen'[g] = Unknown)
      /\ regs' \in [Fields -> Nat] /\ \A g \in Fields : g \notin Same(op.f) => regs'[g] = regs[g]
      /\ last' \in [Remembered -> Nat] /\ \A g \in Remembered : g # op.f => last'[g] = last[g]
      /\ on_start' \in Nat /\ black' = black
  BY <1>0, FailureLeaves
<1>2. PICK rest \in Seq(Updates) :
              /\ todo' = [todo EXCEPT ![t] = rest]
              /\ \A x \in Elems(todo[t]) : x \in Elems(rest) \/ chosen'[x.f] = Unknown
  BY <1>0, FailureLeaves
<1>3. /\ todo' \in [Threads -> Seq(Updates)] /\ phase' \in [Threads -> {"start", "write", "keep"}]
      /\ DOMAIN held' = Threads /\ phase'[t] = "start" /\ todo'[t] = rest
      /\ \A o \in Threads : o # t => todo'[o] = todo[o] /\ phase'[o] = phase[o] /\ held'[o] = held[o]
  BY <1>0, <1>1, <1>2, GoesOn
<1>4. op.f \in Fields /\ op.f \in Same(op.f)
  BY <1>0, <1>1, FirstUpdate
<1>5. \A f \in Fields : regs'[f] # regs[f] \/ chosen'[f] \notin {chosen[f], Unknown}
          => Busy(t) /\ f \in Same(op.f)
  BY <1>1
<1>6. \A f \in Fields : \/ chosen'[f] = Unknown
                        \/ regs'[f] = Wanted(f)'
                        \/ /\ regs'[f] = regs[f] /\ chosen'[f] = chosen[f] /\ Wanted(f)' = Wanted(f)
                           /\ Owes(t, f) => Pending(t, f)'
  <2> SUFFICES ASSUME NEW f \in Fields, chosen'[f] # Unknown
               PROVE  /\ regs'[f] = regs[f] /\ chosen'[f] = chosen[f] /\ Wanted(f)' = Wanted(f)
                      /\ Owes(t, f) => Pending(t, f)'
    OBVIOUS
  <2>1. f \notin Same(op.f) /\ regs'[f] = regs[f] /\ chosen'[f] = chosen[f] /\ Wanted(f)' = Wanted(f)
    BY <1>1 DEF Wanted
  <2>2. ASSUME Owes(t, f) PROVE Pending(t, f)'
    <3>1. PICK x \in Elems(todo[t]) : x.do = "update" /\ x.f = f /\ (x.v = Last \/ f = "custom")
      BY <1>4, <2>1, <2>2 DEF Owes, Pending
    <3>2. x \in Elems(rest)
      BY <1>2, <3>1
    <3> QED  BY <1>3, <3>1, <3>2 DEF Pending
  <2> QED  BY <2>1, <2>2
<1>7. \A f \in Remembered : \/ chosen'[f] = Unknown
                            \/ last'[f] = last[f] /\ chosen'[f] = chosen[f] /\ ~Spoils(t, f)
  BY <1>1, <1>4, RememberedFields DEF Spoils
<1> QED  BY <1>1, <1>3, <1>5, <1>6, <1>7, Leaves

\* The mark, and what is remembered, do not matter to who does what.
Like(a, b) == a.do = b.do /\ a.f = b.f /\ a.v = b.v /\ a.group = b.group

\* A thread has nothing new to do.
Shrinks(o) == \A a \in Elems(todo'[o]) : \E b \in Elems(todo[o]) : Like(a, b)

\* If all threads but one have nothing new to do, and that one has what it may.
LEMMA OwnersMove ==
  ASSUME OwnersInv, NEW t \in Threads,
         \A o \in Threads : o # t => Shrinks(o),
         \A o \in Threads, op \in Updates : o # t /\ op \in Elems(todo[o]) /\ Fits(o, op) => Fits(o, op)',
         SettingTypes,
         \A op \in Elems(todo'[t]) : Fits(t, op)',
         Notifies(t)' => \A op \in Elems(todo'[t]) : op.do = "notify",
         t \in Users /\ InLeds(t)' => \A u \in Users : u # t => ~InLeds(u)
  PROVE  OwnersInv'
<1>1. \A o \in Threads : Elems(todo[o]) \subseteq Updates
  BY ElemsOf DEF SettingTypes
<1>2. ASSUME NEW o \in Threads, o # t, NEW a \in Elems(todo'[o]) PROVE Fits(o, a)'
  <2>1. PICK b \in Elems(todo[o]) : Like(a, b)
    BY <1>2 DEF Shrinks
  <2>2. Fits(o, b)'
    BY <1>1, <1>2 DEF OwnersInv
  <2> QED  BY <2>1, <2>2 DEF Fits, Like
<1>3. ASSUME NEW o \in Threads, o # t, Notifies(o)', NEW a \in Elems(todo'[o]) PROVE a.do = "notify"
  <2>1. PICK c \in Elems(todo'[o]) : c.do = "notify"
    BY <1>3 DEF Notifies
  <2>2. PICK d \in Elems(todo[o]) : Like(c, d)
    BY <1>3 DEF Shrinks
  <2>3. PICK b \in Elems(todo[o]) : Like(a, b)
    BY <1>3 DEF Shrinks
  <2>4. Notifies(o)
    BY <2>1, <2>2 DEF Notifies, Like
  <2> QED  BY <2>3, <2>4 DEF OwnersInv, Like
<1>4. ASSUME NEW o \in Threads, o # t, InLeds(o)' PROVE InLeds(o)
  <2>1. PICK a \in Elems(todo'[o]) : a.group = "leds"
    BY <1>4 DEF InLeds
  <2>2. PICK b \in Elems(todo[o]) : Like(a, b)
    BY <1>4 DEF Shrinks
  <2> QED  BY <2>1, <2>2 DEF InLeds, Like
<1>5. \A u, o \in Users : u # o => ~InLeds(u)' \/ ~InLeds(o)'
  <2>1. Users \subseteq Threads
    BY DEF Threads
  <2> QED  BY <1>4, <2>1 DEF OwnersInv
<1> QED  BY <1>2, <1>3, <1>5 DEF OwnersInv

\* If no thread has anything new to do.
LEMMA OwnersShrink ==
  ASSUME SettingTypes, OwnersInv, \A o \in Threads : Shrinks(o), state' = state,
         last'["colour"] = last["colour"],
         NEW t \in Threads
  PROVE  OwnersInv'
<1>1. \A o \in Threads, op \in Updates : Fits(o, op) => Fits(o, op)'
  BY DEF Fits
<1>2. \A a \in Elems(todo'[t]) : Fits(t, a)'
  <2> SUFFICES ASSUME NEW a \in Elems(todo'[t]) PROVE Fits(t, a)'
    OBVIOUS
  <2>1. PICK b \in Elems(todo[t]) : Like(a, b)
    BY DEF Shrinks
  <2>2. Fits(t, b)
    BY DEF OwnersInv
  <2> QED  BY <2>1, <2>2 DEF Fits, Like
<1>3. ASSUME Notifies(t)', NEW a \in Elems(todo'[t]) PROVE a.do = "notify"
  <2>1. PICK c \in Elems(todo'[t]) : c.do = "notify"
    BY <1>3 DEF Notifies
  <2>2. PICK d \in Elems(todo[t]) : Like(c, d)
    BY DEF Shrinks
  <2>3. PICK b \in Elems(todo[t]) : Like(a, b)
    BY <1>3 DEF Shrinks
  <2>4. Notifies(t)
    BY <2>1, <2>2 DEF Notifies, Like
  <2> QED  BY <2>3, <2>4 DEF OwnersInv, Like
<1>4. t \in Users /\ InLeds(t)' => \A u \in Users : u # t => ~InLeds(u)
  <2> SUFFICES ASSUME t \in Users, InLeds(t)' PROVE \A u \in Users : u # t => ~InLeds(u)
    OBVIOUS
  <2>1. PICK a \in Elems(todo'[t]) : a.group = "leds"
    BY DEF InLeds
  <2>2. PICK b \in Elems(todo[t]) : Like(a, b)
    BY DEF Shrinks
  <2>3. InLeds(t)
    BY <2>1, <2>2 DEF InLeds, Like
  <2> QED  BY <2>3 DEF OwnersInv
<1> QED  BY <1>1, <1>2, <1>3, <1>4, OwnersMove

\* Threads at work stay so until they are done.
LEMMA StateKept ==
  ASSUME StateInv, state' = state, \A o \in Threads : Idle(o) => Idle(o)'
  PROVE  StateInv'
<1>1. Users \subseteq Threads /\ Handlers \subseteq Threads /\ Driver \in Threads
  BY DEF Threads
<1> QED  BY <1>1 DEF StateInv

\* What a list whose first update is marked has for elements.
LEMMA MarkedShrinks ==
  ASSUME SettingTypes, NEW o \in Threads, todo'[o] = todo[o] \/ (~Idle(o) /\ todo'[o] = RaceWith(o))
  PROVE  /\ Shrinks(o) /\ (Idle(o)' <=> Idle(o))
         /\ \A op \in Elems(todo[o]) : op # Now(o) => op \in Elems(todo'[o])
<1>1. CASE todo'[o] = todo[o]
  BY <1>1 DEF Shrinks, Like, Idle
<1>2. CASE ~Idle(o) /\ todo'[o] = RaceWith(o)
  <2>1. /\ Elems(todo'[o]) = {Raced(Now(o))} \cup Elems(Tail(todo[o]))
        /\ Elems(todo[o]) = {Now(o)} \cup Elems(Tail(todo[o])) /\ Now(o) \in Updates /\ ~Idle(o)'
    BY <1>2, MarkedList, FirstUpdate DEF Idle
  <2>2. Like(Raced(Now(o)), Now(o))
    BY <2>1, MarkedUpdate DEF Like
  <2>3. \A a : Like(a, a)
    BY DEF Like
  <2> QED  BY <1>2, <2>1, <2>2, <2>3 DEF Shrinks
<1> QED  BY <1>1, <1>2

\* What a list has for elements when its first is done, and the others stay.
LEMMA TailShrinks ==
  ASSUME SettingTypes, NEW t \in Threads, ~Idle(t), todo' = [todo EXCEPT ![t] = Tail(@)]
  PROVE  \A o \in Threads :
           /\ Shrinks(o) /\ (Idle(o) => Idle(o)')
           /\ \A op \in Elems(todo[o]) : (o = t => op # Now(t)) => op \in Elems(todo'[o])
<1>1. todo'[t] = Tail(todo[t]) /\ \A o \in Threads : o # t => todo'[o] = todo[o]
  BY DEF SettingTypes
<1>2. Elems(todo[t]) = {Now(t)} \cup Elems(Tail(todo[t]))
  BY FirstUpdate
<1>3. \A a : Like(a, a)
  BY DEF Like
<1>4. ASSUME NEW o \in Threads
      PROVE  /\ Shrinks(o) /\ (Idle(o) => Idle(o)')
             /\ \A op \in Elems(todo[o]) : (o = t => op # Now(t)) => op \in Elems(todo'[o])
  <2>1. CASE o = t
    BY <1>1, <1>2, <1>3, <2>1 DEF Shrinks
  <2>2. CASE o # t
    <3>1. todo'[o] = todo[o]
      BY <1>1, <2>2
    <3> QED  BY <1>3, <3>1 DEF Shrinks, Idle
  <2> QED  BY <2>1, <2>2
<1> QED  BY <1>4

\* How a step of a thread leaves who does what.
Orderly ==
  /\ state' = state /\ last'["colour"] = last["colour"]
  /\ \A o \in Threads : Idle(o) => Idle(o)'
  /\ \A op \in Elems(todo[Driver]) : op.do = "offer" => op \in Elems(todo'[Driver]) \/ op.f \in available'
  /\ available \subseteq available' \/ state = "removing"

\* The driver is told of the brightness, or fails to read it.
Notices(t) == phase[t] = "keep" /\ Now(t).do = "notify"

\* The LED is turned off as it goes.
LEMMA TurnOffKeeps ==
  ASSUME SInv, NEW t \in Threads, TurnOff(t)
  PROVE  SInv'
<1> DEFINE op == Now(t)
           colour == [Restore("colour") EXCEPT !.group = "leds"]
           apply == Update("apply", 1, Unknown, "leds")
           off == Update("brightness", 0, 0, "leds")
<1>0. SettingTypes /\ CoreInv /\ OwnersInv
  BY DEF SInv, CoreInv
<1>1. /\ ~Idle(t) /\ op.do = "off"
      /\ \/ todo' = [todo EXCEPT ![t] = <<colour, apply>> \o <<off>> \o Tail(todo[t])]
         \/ todo' = [todo EXCEPT ![t] = <<>> \o <<off>> \o Tail(todo[t])]
      /\ UNCHANGED <<state, regs, chosen, black, phase, held, last, on_start, available>>
  BY DEF TurnOff, uniwill_leds_set_brightness, ecVars
<1>2. /\ op \in Updates /\ op \in Elems(todo[t]) /\ Elems(todo[t]) = {op} \cup Elems(Tail(todo[t]))
      /\ Tail(todo[t]) \in Seq(Updates)
  BY <1>0, <1>1, FirstUpdate
<1>3. t = Driver /\ state = "removing" /\ t \notin Users
  <2>1. Fits(t, op) /\ t \in Users \cup Handlers \cup {Driver}
    BY <1>0, <1>2 DEF OwnersInv, Threads
  <2> QED  BY <1>1, <2>1, SettingsAssumption DEF Fits
<1>4. ~Busy(t)
  BY <1>0, <1>1 DEF SettingTypes
<1>5. colour \in Updates /\ apply \in Updates /\ off \in Updates
      /\ \A a \in {colour, apply, off} : a.do = "update" /\ (a.f = "colour" => a.v = Last)
  <2>1. {"colour", "apply", "brightness"} \subseteq Fields /\ "leds" \in Groups /\ "apply" \notin Remembered
        /\ {"colour", "brightness"} \subseteq Remembered /\ Unknown = 100 /\ Last = 101
    BY FieldNames DEF Groups, Remembered, Unknown, Last
  <2>2. colour = [do |-> "update", f |-> "colour", v |-> Last, keep |-> Unknown, group |-> "leds",
                  how |-> "restored"]
    <3>1. PICK x : x = Restore("colour")
      OBVIOUS
    <3>2. x = [do |-> "update", f |-> "colour", v |-> Last, keep |-> Unknown, group |-> "colour",
               how |-> "restored"]
      BY <3>1 DEF Restore, Update
    <3> QED  BY <3>1, <3>2
  <2>3. apply = [do |-> "update", f |-> "apply", v |-> 1, keep |-> Unknown, group |-> "leds", how |-> "asked"]
    BY DEF Update
  <2>4. off = [do |-> "update", f |-> "brightness", v |-> 0, keep |-> 0, group |-> "leds", how |-> "asked"]
    BY DEF Update
  <2>5. colour \in Updates
    BY <2>1, <2>2 DEF Updates
  <2>6. apply \in Updates
    BY <2>1, <2>3 DEF Updates
  <2>7. off \in Updates
    BY <2>1, <2>4 DEF Updates
  <2> QED  BY <2>2, <2>3, <2>4, <2>5, <2>6, <2>7
<1> HIDE DEF colour, apply, off
<1>6. PICK rest \in Seq(Updates) : /\ todo' = [todo EXCEPT ![t] = rest]
                                  /\ Elems(rest) \subseteq {colour, apply, off} \cup Elems(Tail(todo[t]))
                                  /\ Elems(Tail(todo[t])) \subseteq Elems(rest)
  <2>1. PICK r \in Seq(Updates) : r = Tail(todo[t])
    BY <1>2
  <2>2. PICK x \in Seq(Updates) : x = <<colour, apply>> /\ Elems(x) = {colour, apply}
    <3>1. colour \in Updates /\ apply \in Updates
      BY <1>5
    <3>2. <<colour, apply>> \in Seq(Updates) /\ Elems(<<colour, apply>>) = {colour, apply}
      BY ONLY <3>1, ElemsShort
    <3> QED  BY <3>2
  <2>3. PICK y \in Seq(Updates) : y = <<off>> /\ Elems(y) = {off}
    <3>1. off \in Updates
      BY <1>5
    <3>2. <<off>> \in Seq(Updates) /\ Elems(<<off>>) = {off}
      BY ONLY <3>1, ElemsShort
    <3> QED  BY <3>2
  <2>4. PICK z \in Seq(Updates) : z = <<>> /\ Elems(z) = {}
    BY ElemsShort
  <2>5. PICK xy \in Seq(Updates) : xy = x \o y /\ Elems(xy) = Elems(x) \cup Elems(y)
    <3>1. x \o y \in Seq(Updates) /\ Elems(x \o y) = Elems(x) \cup Elems(y)
      BY ElemsConcat
    <3> QED  BY <3>1
  <2>6. PICK zy \in Seq(Updates) : zy = z \o y /\ Elems(zy) = Elems(z) \cup Elems(y)
    <3>1. z \o y \in Seq(Updates) /\ Elems(z \o y) = Elems(z) \cup Elems(y)
      BY ElemsConcat
    <3> QED  BY <3>1
  <2>7. PICK xr \in Seq(Updates) : xr = xy \o r /\ Elems(xr) = Elems(xy) \cup Elems(r)
    <3>1. xy \o r \in Seq(Updates) /\ Elems(xy \o r) = Elems(xy) \cup Elems(r)
      BY ElemsConcat
    <3> QED  BY <3>1
  <2>8. PICK zr \in Seq(Updates) : zr = zy \o r /\ Elems(zr) = Elems(zy) \cup Elems(r)
    <3>1. zy \o r \in Seq(Updates) /\ Elems(zy \o r) = Elems(zy) \cup Elems(r)
      BY ElemsConcat
    <3> QED  BY <3>1
  <2>9. todo' = [todo EXCEPT ![t] = xr] \/ todo' = [todo EXCEPT ![t] = zr]
    BY <1>1, <2>1, <2>2, <2>3, <2>4, <2>5, <2>6, <2>7, <2>8
  <2> QED  BY <2>1, <2>2, <2>3, <2>4, <2>5, <2>6, <2>7, <2>8, <2>9
<1>7. /\ todo' \in [Threads -> Seq(Updates)] /\ phase' \in [Threads -> {"start", "write", "keep"}]
      /\ DOMAIN held' = Threads /\ phase'[t] = "start" /\ todo'[t] = rest
      /\ \A o \in Threads : o # t => todo'[o] = todo[o] /\ phase'[o] = phase[o] /\ held'[o] = held[o]
  BY <1>0, <1>1, <1>4, <1>6 DEF SettingTypes, Busy
<1>8. CoreInv'
  <2>1. /\ chosen' \in [Fields -> Nat] /\ last' \in [Remembered -> Nat] /\ on_start' \in Nat
        /\ regs' \in [Fields -> Nat]
    BY <1>0, <1>1 DEF SettingTypes
  <2>2. ASSUME NEW f \in Fields, Owes(t, f) PROVE Pending(t, f)'
    <3>1. PICK x \in Elems(todo[t]) : x.do = "update" /\ x.f = f /\ (x.v = Last \/ f = "custom")
      BY <1>4, <2>2 DEF Owes, Pending
    <3>2. x \in Elems(todo'[t])
      BY <1>1, <1>2, <1>6, <1>7, <3>1
    <3> QED  BY <3>1, <3>2 DEF Pending
  <2>3. \A f \in Fields : ~Spoils(t, f) /\ Wanted(f)' = Wanted(f)
    BY <1>1, <1>4 DEF Spoils, Wanted
  <2> QED  BY <1>0, <1>1, <1>7, <2>1, <2>2, <2>3, RememberedFields, Leaves
<1>9. \A o \in Threads : o # t => Shrinks(o) /\ (Idle(o) => Idle(o)')
  BY <1>7 DEF Shrinks, Like, Idle
<1>10. OwnersInv'
  <2>1. \A o \in Threads, x \in Updates : Fits(o, x) => Fits(o, x)'
    BY <1>1 DEF Fits
  <2>2. ASSUME NEW x \in Elems(todo'[t]) PROVE Fits(t, x)' /\ x.do # "notify"
    <3>1. CASE x \in {colour, apply, off}
      BY <1>1, <1>3, <1>5, <3>1, SettingsAssumption DEF Fits
    <3>2. CASE x \in Elems(Tail(todo[t]))
      <4>1. Fits(t, x)
        BY <1>0, <1>2, <3>2 DEF OwnersInv
      <4> QED  BY <1>1, <1>3, <4>1 DEF Fits
    <3> QED  BY <1>6, <1>7, <2>2, <3>1, <3>2
  <2>3. ~Notifies(t)'
    BY <2>2 DEF Notifies
  <2> QED  BY <1>0, <1>3, <1>9, <2>1, <2>2, <2>3, OwnersMove
<1>11. StateInv'
  BY <1>1, <1>9, StateKept DEF SInv
<1>12. AvailInv'
  BY <1>1, <1>3 DEF AvailInv
<1> QED  BY <1>8, <1>10, <1>11, <1>12 DEF SInv

\* Each step but those of the backlight key and the LED that goes leaves nothing
\* new to do.
LEMMA StepsShrink ==
  ASSUME SInv, NEW t \in Threads, Step(t), ~Notices(t), ~TurnOff(t)
  PROVE  Orderly /\ \A o \in Threads : Shrinks(o)
<1>0. SettingTypes /\ CoreInv
  BY DEF SInv, CoreInv
<1>1. CASE Begin(t)
  <2>1. UNCHANGED <<state, last, available>> /\ ~Idle(t) /\ Now(t).do \in {"update", "read", "notify"}
    BY <1>1 DEF Begin
  <2>2. \A o \in Threads : todo'[o] = todo[o] \/ (~Idle(o) /\ todo'[o] = RaceWith(o))
    BY <1>0, <1>1, BeginKeeps
  <2>3. \A o \in Threads : /\ Shrinks(o) /\ (Idle(o)' <=> Idle(o))
                           /\ \A op \in Elems(todo[o]) : op # Now(o) => op \in Elems(todo'[o])
    BY <1>0, <2>2, MarkedShrinks
  <2>4. ASSUME NEW op \in Elems(todo[Driver]), op.do = "offer" PROVE op \in Elems(todo'[Driver])
    <3>0. Driver \in Threads
      BY DEF Threads
    <3>1. CASE op # Now(Driver)
      BY <2>3, <3>0, <3>1
    <3>2. CASE op = Now(Driver)
      <4>1. ~Idle(Driver) /\ ~Busy(Driver) /\ Driver # t
        BY <1>0, <2>1, <2>4, <3>0, <3>2, ElemsShort DEF SettingTypes, Idle
      <4>2. todo'[Driver] = todo[Driver]
        BY <1>0, <1>1, <3>0, <4>1 DEF Begin, Within, Busy
      <4> QED  BY <2>4, <4>2
    <3> QED  BY <3>1, <3>2
  <2> QED  BY <2>1, <2>3, <2>4 DEF Orderly
<1>2. CASE EcWrite(t) /\ Now(t).keep # Unknown
  <2>1. UNCHANGED <<state, last, available, todo>>
    BY <1>2 DEF EcWrite
  <2>2. \A o \in Threads : todo'[o] = todo[o]
    BY <2>1
  <2> QED  BY <1>0, <2>1, <2>2, MarkedShrinks DEF Orderly
<1>3. CASE (EcWrite(t) /\ Now(t).keep = Unknown) \/ Keep(t) \/ KeepRead(t)
  <2>1. /\ UNCHANGED <<state, available>> /\ ~Idle(t) /\ phase[t] # "start"
             /\ todo' = [todo EXCEPT ![t] = Tail(@)]
        /\ last' = last \/ (Now(t).do = "update" /\ phase[t] = "keep"
             /\ last' = [last EXCEPT ![Now(t).f] = Now(t).keep])
                        \/ (Now(t).do = "read" /\ last' = [last EXCEPT ![Now(t).f] = held[t][Now(t).f]])
    BY <1>3 DEF EcWrite, Keep, KeepRead, Done
  <2>2. Now(t) \in Updates /\ Busy(t) /\ Now(t).do \in {"update", "read", "notify"}
        /\ (phase[t] = "keep" /\ Now(t).do = "update" => Now(t).keep # Unknown)
    BY <1>0, <2>1, FirstUpdate DEF SettingTypes, Busy
  <2>3. last'["colour"] = last["colour"]
    <3>1. (Now(t).do = "update" /\ Now(t).keep # Unknown) \/ Now(t).do = "read" => Now(t).f # "colour"
      BY <2>2 DEF Updates
    <3>2. last \in [Remembered -> Nat] /\ "colour" \in Remembered
      BY <1>0 DEF SettingTypes, Remembered
    <3> QED  BY <2>1, <2>2, <3>1, <3>2
  <2>4. \A o \in Threads : /\ Shrinks(o) /\ (Idle(o) => Idle(o)')
                           /\ \A op \in Elems(todo[o]) : (o = t => op # Now(t)) => op \in Elems(todo'[o])
    BY <1>0, <2>1, TailShrinks
  <2>5. \A op \in Elems(todo[Driver]) : op.do = "offer" => op \in Elems(todo'[Driver])
    BY <2>2, <2>4 DEF Threads
  <2> QED  BY <2>1, <2>3, <2>4, <2>5 DEF Orderly
<1>4. CASE OfferOrWithdraw(t)
  <2>1. /\ UNCHANGED <<state, last>> /\ ~Idle(t) /\ todo' = [todo EXCEPT ![t] = Tail(@)]
        /\ \/ Now(t).do = "offer" /\ available' = available \cup {Now(t).f}
           \/ Now(t).do = "withdraw" /\ available' = available \ {Now(t).f}
    BY <1>4 DEF OfferOrWithdraw
  <2>2. \A o \in Threads : /\ Shrinks(o) /\ (Idle(o) => Idle(o)')
                           /\ \A op \in Elems(todo[o]) : (o = t => op # Now(t)) => op \in Elems(todo'[o])
    BY <1>0, <2>1, TailShrinks
  <2>3. Now(t) \in Elems(todo[t]) /\ t \in Users \cup Handlers \cup {Driver}
    BY <1>0, <2>1, FirstUpdate DEF Threads
  <2>4. Now(t).do = "withdraw" => state = "removing"
    <3>1. Fits(t, Now(t))
      BY <2>3 DEF SInv, OwnersInv
    <3> QED  BY <2>3, <3>1 DEF Fits
  <2>5. \A op \in Elems(todo[Driver]) : op.do = "offer" => op \in Elems(todo'[Driver]) \/ op.f \in available'
    BY <2>1, <2>2 DEF Threads
  <2> QED  BY <2>1, <2>2, <2>4, <2>5 DEF Orderly
<1>5. CASE EcFails(t)
  <2>0. Now(t).do # "notify"
    <3>1. ~Idle(t) /\ (phase[t] = "write" \/ phase[t] = "keep")
      BY <1>5 DEF EcFails
    <3> QED  BY <1>0, <3>1 DEF SettingTypes, Busy, Notices
  <2>1. /\ ~Idle(t) /\ Busy(t) /\ (Now(t).do = "update" \/ Now(t).do = "read")
    BY <1>0, <1>5, <2>0, FailureLeaves
  <2>2. PICK rest \in Seq(Updates) :
              /\ todo' = [todo EXCEPT ![t] = rest] /\ Elems(rest) \subseteq Elems(todo[t])
              /\ \A op \in Elems(todo[t]) : op.group = "offer" => op \in Elems(rest)
    BY <1>0, <1>5, <2>0, FailureLeaves
  <2>3. todo'[t] = rest /\ \A o \in Threads : o # t => todo'[o] = todo[o]
    BY <1>0, <2>2 DEF SettingTypes
  <2>4. UNCHANGED <<state, available>>
    BY <1>5 DEF EcFails
  <2>5. \A a : Like(a, a)
    BY DEF Like
  <2>6. ASSUME NEW o \in Threads PROVE Shrinks(o) /\ (Idle(o) => Idle(o)')
    <3>1. CASE o = t
      BY <2>1, <2>2, <2>3, <2>5, <3>1 DEF Shrinks
    <3>2. CASE o # t
      <4>1. todo'[o] = todo[o]
        BY <2>3, <3>2
      <4> QED  BY <2>5, <4>1 DEF Shrinks, Idle
    <3> QED  BY <3>1, <3>2
  <2>7. last'["colour"] = last["colour"]
    <3>1. /\ \A g \in Remembered : g # Now(t).f => last'[g] = last[g]
      BY <1>0, <1>5, <2>0, FailureLeaves
    <3>2. Now(t).do = "update" => last' = last
      BY <1>5 DEF EcFails
    <3>3. Now(t).do = "read" => Now(t).f # "colour"
      BY <1>0, <2>1, FirstUpdate DEF Updates
    <3>4. "colour" \in Remembered
      BY DEF Remembered
    <3> QED  BY <2>1, <3>1, <3>2, <3>3, <3>4
  <2>8. ASSUME NEW op \in Elems(todo[Driver]), op.do = "offer" PROVE op \in Elems(todo'[Driver])
    <3>1. Driver \in Threads
      BY DEF Threads
    <3>2. op \in Updates
      BY <1>0, <2>8, <3>1, ElemsOf DEF SettingTypes
    <3>3. op.group = "offer"
      BY <2>8, <3>2 DEF Updates
    <3> QED  BY <2>2, <2>3, <2>8, <3>1, <3>3
  <2> QED  BY <2>4, <2>6, <2>7, <2>8 DEF Orderly
<1>6. CASE Notify(t)
  BY <1>6 DEF Notify, Notices
<1> QED  BY <1>1, <1>2, <1>3, <1>4, <1>5, <1>6 DEF Step

\* An offer is one to programs.
LEMMA OfferIs == \A f \in Fields : Offer(f).do = "offer" /\ Offer(f).f = f
BY DEF Offer, Restore, Update

\* What is offered stays so until it is withdrawn.
LEMMA AvailKept ==
  ASSUME AvailInv, Orderly
  PROVE  AvailInv'
<1>1. \A f \in {"prio", "profile"} : Offer(f).do = "offer" /\ Offer(f).f = f
  BY FieldNames, OfferIs
<1> QED  BY <1>1 DEF AvailInv, Orderly, Offer, Restore, Update

\* A step of a thread.
LEMMA StepKeeps ==
  ASSUME SInv, NEW t \in Threads, Step(t)
  PROVE  SInv'
<1>0. SettingTypes /\ CoreInv /\ OwnersInv
  BY DEF SInv, CoreInv
<1>1. ~TurnOff(t) => CoreInv'
  BY <1>0, BeginKeeps, WrittenBeforeKept, WriteEnds, KeepEnds, ReadEnds, NoticeEnds, OfferKeeps, NoticeFails,
     FailEnds DEF Step
<1>2. CASE ~Notices(t) /\ ~TurnOff(t)
  <2>1. Orderly /\ \A o \in Threads : Shrinks(o)
    BY <1>2, StepsShrink
  <2>2. OwnersInv'
    BY <1>0, <2>1, OwnersShrink DEF Orderly
  <2>3. StateInv'
    BY <2>1, StateKept DEF Orderly, SInv
  <2>4. AvailInv'
    BY <2>1, AvailKept DEF SInv
  <2> QED  BY <1>1, <1>2, <2>2, <2>3, <2>4 DEF SInv
<1>3. CASE Notices(t) /\ (Notify(t) \/ EcFails(t))
  <2>1. PICK b : /\ ~Idle(t) /\ Now(t).do = "notify" /\ phase[t] = "keep" /\ UNCHANGED <<state, available>>
                 /\ b = held[t]["brightness"] \/ b = 7
                 /\ todo' = [todo EXCEPT ![t] = NextLevel(b)] \/ todo' = [todo EXCEPT ![t] = <<>>]
                 /\ last' = last \/ last' = [last EXCEPT !["brightness"] = b]
    <3>1. CASE Notify(t)
      BY <1>3, <3>1 DEF Notify, NotifiedOf, Notices
    <3>2. CASE EcFails(t)
      <4>1. ~Idle(t) /\ NotifiedOf(t, 7) /\ UNCHANGED <<state, available>>
        BY <1>3, <3>2 DEF EcFails, Notices
      <4> QED  BY <1>3, <4>1 DEF NotifiedOf, Notices
    <3> QED  BY <1>3, <3>1, <3>2
  <2>2. t \in Handlers
    BY <1>0, <2>1, OnlyNotice, FieldNames
  <2>3. b \in Nat
    <3>1. Now(t).f = "brightness" /\ "brightness" \in Same(Now(t).f)
      BY <1>0, <2>1, FirstUpdate DEF Updates
    <3>2. held[t]["brightness"] \in Nat
      BY <1>0, <2>1, <3>1 DEF SettingTypes, Busy
    <3> QED  BY <2>1, <3>2
  <2>5. \A op \in Elems(todo'[t]) : op.do = "update" /\ op.f = "brightness"
    <3>1. \/ todo'[t] = NextLevel(b) \/ todo'[t] = <<>>
      BY <1>0, <2>1 DEF SettingTypes
    <3>2. \A op \in Elems(NextLevel(b)) : op.do = "update" /\ op.f = "brightness"
      <4>1. PICK v : v = (b + 1) % 5
        OBVIOUS
      <4>2. Elems(NextLevel(b)) = {Update("brightness", v, v, "leds")}
        BY <2>3, <4>1, NextLevelWritten
      <4> QED  BY <4>2 DEF Update
    <3> QED  BY <3>1, <3>2, ElemsShort
  <2>6. \A o \in Threads : o # t => todo'[o] = todo[o]
    BY <1>0, <2>1 DEF SettingTypes
  <2>7. last'["colour"] = last["colour"]
    <3>1. last \in [Remembered -> Nat] /\ "colour" \in Remembered
      BY <1>0 DEF SettingTypes, Remembered
    <3> QED  BY <2>1, <3>1
  <2>8. \A o \in Threads : o # t => Shrinks(o) /\ (Idle(o) => Idle(o)')
    BY <2>6 DEF Shrinks, Like, Idle
  <2>9. t \notin Users /\ t # Driver /\ Driver \in Threads
    BY <2>2, SettingsAssumption DEF Threads
  <2>10. OwnersInv'
    <3>1. \A o \in Threads, op \in Updates : Fits(o, op) => Fits(o, op)'
      BY <2>1, <2>7 DEF Fits
    <3>2. \A op \in Elems(todo'[t]) : Fits(t, op)'
      BY <2>5, <2>9 DEF Fits
    <3>3. ~Notifies(t)'
      BY <2>5 DEF Notifies
    <3> QED  BY <1>0, <2>8, <2>9, <3>1, <3>2, <3>3, OwnersMove
  <2>11. StateInv'
    BY <2>1, <2>8, StateKept DEF SInv
  <2>12. AvailInv'
    <3>1. todo'[Driver] = todo[Driver]
      BY <2>6, <2>9
    <3> QED  BY <2>1, <3>1 DEF SInv, AvailInv, Offer, Restore, Update
  <2>13. ~TurnOff(t)
    BY <2>1 DEF TurnOff
  <2> QED  BY <1>1, <2>10, <2>11, <2>12, <2>13 DEF SInv
<1>4. CASE Notices(t) /\ ~TurnOff(t) /\ ~Notify(t) /\ ~EcFails(t)
  BY <1>0, <1>4 DEF Step, Notices, Begin, EcWrite, Keep, KeepRead, OfferOrWithdraw
<1> QED  BY <1>2, <1>3, <1>4, TurnOffKeeps

---------------------------------------------------------------------------
\* What the handlers' lists are made of.
LEMMA Written ==
  ASSUME NEW f \in Fields, NEW v \in Nat, NEW keep \in Nat, NEW group \in Groups, group # "offer",
         v # Unknown, v # Last, keep = v \/ (keep = Unknown /\ f \notin Remembered \ {"colour"}),
         keep # Unknown => f \in Remembered \ {"colour"}
  PROVE  /\ Update(f, v, keep, group) \in Updates
         /\ Update(f, v, keep, group).do = "update" /\ Update(f, v, keep, group).f = f
         /\ Update(f, v, keep, group).v = v /\ Update(f, v, keep, group).group = group
<1>1. PICK u : u = Update(f, v, keep, group)
  OBVIOUS
<1>2. /\ u = [do |-> "update", f |-> f, v |-> v, keep |-> keep, group |-> group, how |-> "asked"]
      /\ u.do = "update" /\ u.f = f /\ u.v = v /\ u.group = group /\ u.keep = keep /\ u.how = "asked"
  BY <1>1 DEF Update
<1>3. u \in [do : {"update", "read", "notify", "offer", "withdraw"}, f : Fields, v : Nat, keep : Nat,
             group : Groups, how : {"asked", "restored", "raced"}]
  BY <1>2
<1> QED  BY <1>1, <1>2, <1>3 DEF Updates

\* A plain bit of a register.
LEMMA BitSet ==
  ASSUME NEW f \in Fields, f \notin Remembered, NEW v \in Nat, v # Unknown, v # Last
  PROVE  Set(f, v) \in Updates /\ Set(f, v).do = "update" /\ Set(f, v).f = f /\ Set(f, v).v = v
           /\ Set(f, v).group = f
<1>1. f # "offer" /\ f \in Groups /\ Unknown \in Nat
  BY FieldNames DEF Groups, Unknown
<1> QED  BY <1>1, Written DEF Set

\* What restores and reads, and what offers and withdraws.
LEMMA Restored ==
  ASSUME NEW f \in Fields
  PROVE  /\ f \in Remembered => Restore(f) \in Updates
         /\ Restore(f).do = "update" /\ Restore(f).f = f /\ Restore(f).v = Last
         /\ f \in {"disabled", "prio", "profile"} => ReadIn(f) \in Updates
         /\ ReadIn(f).do = "read" /\ ReadIn(f).f = f
         /\ Offer(f) \in Updates /\ Offer(f).do = "offer" /\ Offer(f).f = f
         /\ Withdraw(f) \in Updates /\ Withdraw(f).do = "withdraw" /\ Withdraw(f).f = f
         /\ LedOff \in Updates /\ LedOff.do = "off" /\ LedOff.f = "brightness"
<1>1. f # "offer" /\ f \in Groups /\ "offer" \in Groups
  BY FieldNames DEF Groups
<1>2. /\ Restore(f) = [do |-> "update", f |-> f, v |-> Last, keep |-> Unknown, group |-> f, how |-> "restored"]
      /\ ReadIn(f) = [do |-> "read", f |-> f, v |-> Last, keep |-> Unknown, group |-> f, how |-> "restored"]
      /\ Offer(f) = [do |-> "offer", f |-> f, v |-> Last, keep |-> Unknown, group |-> "offer",
                     how |-> "restored"]
      /\ Withdraw(f) = [do |-> "withdraw", f |-> f, v |-> Last, keep |-> Unknown, group |-> "offer",
                        how |-> "restored"]
  <2>1. Restore(f) = [do |-> "update", f |-> f, v |-> Last, keep |-> Unknown, group |-> f, how |-> "restored"]
    BY DEF Restore, Update
  <2>2. ReadIn(f) = [do |-> "read", f |-> f, v |-> Last, keep |-> Unknown, group |-> f, how |-> "restored"]
    BY <2>1 DEF ReadIn
  <2>3. Offer(f) = [do |-> "offer", f |-> f, v |-> Last, keep |-> Unknown, group |-> "offer",
                    how |-> "restored"]
    <3>1. PICK x : x = [Restore(f) EXCEPT !.do = "offer"]
      OBVIOUS
    <3>2. x = [do |-> "offer", f |-> f, v |-> Last, keep |-> Unknown, group |-> f, how |-> "restored"]
      BY <2>1, <3>1
    <3>3. Offer(f) = [x EXCEPT !.group = "offer"]
      BY <3>1 DEF Offer
    <3> QED  BY <3>2, <3>3
  <2>4. Withdraw(f) = [do |-> "withdraw", f |-> f, v |-> Last, keep |-> Unknown, group |-> "offer",
                        how |-> "restored"]
    <3>1. PICK x : x = [Restore(f) EXCEPT !.do = "withdraw"]
      OBVIOUS
    <3>2. x = [do |-> "withdraw", f |-> f, v |-> Last, keep |-> Unknown, group |-> f, how |-> "restored"]
      BY <2>1, <3>1
    <3>3. Withdraw(f) = [x EXCEPT !.group = "offer"]
      BY <3>1 DEF Withdraw
    <3> QED  BY <3>2, <3>3
  <2> QED  BY <2>1, <2>2, <2>3, <2>4
<1>3. Last \in Nat /\ Unknown \in Nat /\ Last # Unknown
  BY DEF Last, Unknown
<1>4. f \in Remembered => Restore(f) \in Updates
  BY <1>1, <1>2, <1>3 DEF Updates
<1>5. f \in {"disabled", "prio", "profile"} => ReadIn(f) \in Updates
  BY <1>1, <1>2, <1>3 DEF Updates
<1>6. Offer(f) \in Updates
  BY <1>1, <1>2, <1>3 DEF Updates
<1>7. Withdraw(f) \in Updates
  BY <1>1, <1>2, <1>3 DEF Updates
<1>8. LedOff \in Updates /\ LedOff.do = "off" /\ LedOff.f = "brightness"
  <2>1. LedOff = [do |-> "off", f |-> "brightness", v |-> Last, keep |-> Unknown, group |-> "offer",
                  how |-> "restored"]
    <3>1. PICK x : x = [Restore("brightness") EXCEPT !.do = "offer"]
      OBVIOUS
    <3>2. x = [do |-> "offer", f |-> "brightness", v |-> Last, keep |-> Unknown, group |-> "brightness",
               how |-> "restored"]
      BY <3>1 DEF Restore, Update
    <3>3. PICK y : y = [x EXCEPT !.group = "offer"]
      OBVIOUS
    <3>4. LedOff = [y EXCEPT !.do = "off"]
      BY <3>1, <3>3 DEF LedOff, Offer
    <3> QED  BY <3>2, <3>3, <3>4
  <2> QED  BY <1>1, <1>3, <2>1, FieldNames DEF Updates
<1> QED  BY <1>2, <1>4, <1>5, <1>6, <1>7, <1>8

\* The stores of programs that are not about the brightness.
Plain(op) ==
  /\ op \in Updates /\ op.do = "update" /\ op.v # Last /\ op.group # "leds"
  /\ op.f \notin {"brightness", "colour"}

\* A bit that is not remembered is a plain store.
LEMMA PlainBits ==
  ASSUME NEW f \in Fields, f \notin Remembered, NEW v \in Nat, v # Unknown, v # Last
  PROVE  Plain(Set(f, v)) /\ <<Set(f, v)>> \in Seq(Updates) /\ Elems(<<Set(f, v)>>) = {Set(f, v)}
<1>1. f # "leds" /\ f \notin {"brightness", "colour"}
  BY FieldNames DEF Remembered
<1> QED  BY <1>1, BitSet, ElemsShort DEF Plain

\* So are the stores of the attributes and of the light bar.
LEMMA PlainStores ==
  ASSUME NEW v \in Nat, v <= 4, NEW list,
         \/ v <= 1 /\ list = uw_set_charging_priority(v)
         \/ list = uw_set_charging_profile(v)
         \/ list = uw_set_mini_led_local_dimming(v)
         \/ list = uw_set_ac_auto_boot(v)
         \/ list = uw_set_usb_powershare(v)
         \/ list = uniwill_wmi_fn_lock_set(v)
         \/ list = lightbar_set_blocking(v)
         \/ list = uniwill_write_lightbar_animation(v)
  PROVE  list \in Seq(Updates) /\ \A op \in Elems(list) : Plain(op)
<1>1. v # Unknown /\ v # Last /\ 0 # Unknown /\ 0 # Last
  BY DEF Unknown, Last
<1>2. ASSUME NEW op, Plain(op), list = <<op>> PROVE list \in Seq(Updates) /\ \A o \in Elems(list) : Plain(o)
  BY <1>2, ElemsShort DEF Plain
<1>3. ASSUME NEW f \in {"prio", "profile", "mini_led"} PROVE Plain(Update(f, v, v, f))
  <2>1. f \in Fields /\ f \in Groups /\ f \in Remembered \ {"colour"} /\ f # "leds" /\ f # "offer"
        /\ f \notin {"brightness", "colour"}
    BY FieldNames DEF Groups, Remembered
  <2> QED  BY <1>1, <2>1, Written DEF Plain
<1>4. CASE v <= 1 /\ list = uw_set_charging_priority(v)
  <2>1. AsBool((v % 2) * 128) = v
    <3>1. CASE v = 0
      BY <3>1 DEF AsBool
    <3>2. CASE v = 1
      BY <3>2 DEF AsBool
    <3> QED  BY <1>4, <3>1, <3>2
  <2>2. list = <<Update("prio", v, v, "prio")>>
    BY <1>4, <2>1 DEF uw_set_charging_priority
  <2> QED  BY <1>2, <1>3, <2>2
<1>5. CASE list = uw_set_charging_profile(v)
  BY <1>2, <1>3, <1>5 DEF uw_set_charging_profile
<1>6. CASE list = uw_set_mini_led_local_dimming(v)
  BY <1>2, <1>3, <1>6 DEF uw_set_mini_led_local_dimming
<1>7. ASSUME NEW f \in {"boot", "powershare", "fn_lock", "animation", "lightbar"}, NEW b \in {0, v}
      PROVE  Plain(Set(f, b)) /\ <<Set(f, b)>> \in Seq(Updates) /\ Elems(<<Set(f, b)>>) = {Set(f, b)}
  BY <1>1, PlainBits, FieldNames DEF Remembered
<1>8. CASE list = uw_set_ac_auto_boot(v)
  BY <1>2, <1>7, <1>8 DEF uw_set_ac_auto_boot
<1>9. CASE list = uw_set_usb_powershare(v)
  BY <1>2, <1>7, <1>9 DEF uw_set_usb_powershare
<1>10. CASE list = uniwill_wmi_fn_lock_set(v)
  BY <1>2, <1>7, <1>10 DEF uniwill_wmi_fn_lock_set
<1>11. CASE list = uniwill_write_lightbar_animation(v)
  BY <1>2, <1>7, <1>11 DEF uniwill_write_lightbar_animation
<1>12. CASE list = lightbar_set_blocking(v)
  <2>1. PICK x, y : x = <<Set("lightbar", v)>> /\ y = <<Set("animation", 0)>>
    OBVIOUS
  <2>2. x \in Seq(Updates) /\ y \in Seq(Updates) /\ \A op \in Elems(x) \cup Elems(y) : Plain(op)
    BY <1>7, <2>1
  <2>3. list = x \o y
    BY <1>12, <2>1 DEF lightbar_set_blocking, uniwill_write_lightbar_animation
  <2> QED  BY <2>2, <2>3, ElemsConcat
<1> QED  BY <1>4, <1>5, <1>6, <1>8, <1>9, <1>10, <1>11, <1>12

\* The stores of brightness and colour.
LEMMA LedStores ==
  ASSUME NEW c \in Nat, c # Unknown, c # Last, NEW b \in Levels, NEW list,
         list = uniwill_leds_set_brightness(b) \/ list = uniwill_leds_set_brightness_mc(c, b)
  PROVE  /\ list \in Seq(Updates)
         /\ \A op \in Elems(list) :
               /\ op.do = "update" /\ op.v # Last /\ op.group = "leds"
               /\ op.f = "colour" => op.v = c
<1>1. b \in Nat /\ b # Unknown /\ b # Last /\ 1 # Unknown /\ 1 # Last /\ 0 # Unknown /\ 0 # Last
        /\ Unknown \in Nat
  BY SettingsAssumption DEF Unknown, Last
<1>2. /\ "leds" \in Groups /\ "leds" # "offer" /\ "brightness" \in Fields
           /\ "brightness" \in Remembered \ {"colour"}
      /\ "colour" \in Fields /\ "colour" \notin Remembered \ {"colour"}
      /\ "apply" \in Fields /\ "apply" \notin Remembered \ {"colour"} /\ "brightness" # "colour"
           /\ "apply" # "colour"
  BY FieldNames DEF Groups, Remembered
<1>3. PICK a : a = Update("brightness", b, b, "leds")
  OBVIOUS
<1>4. a \in Updates /\ a.do = "update" /\ a.f = "brightness" /\ a.v = b /\ a.group = "leds"
  BY <1>1, <1>2, <1>3, Written
<1>5. CASE list = <<a>>
  BY <1>1, <1>2, <1>4, <1>5, ElemsShort
<1>6. CASE c = 0 /\ list = uniwill_leds_set_brightness_mc(c, b)
  <2>1. PICK d : d = [do |-> "update", f |-> "brightness", v |-> 0, keep |-> b, group |-> "leds",
                      how |-> "black"]
    OBVIOUS
  <2>2. list = <<d>>
    <3>1. d = [Update("brightness", 0, b, "leds") EXCEPT !.how = "black"]
      BY <2>1 DEF Update
    <3> QED  BY <1>6, <3>1 DEF uniwill_leds_set_brightness_mc
  <2>3. d \in Updates /\ d.do = "update" /\ d.f = "brightness" /\ d.v = 0 /\ d.group = "leds"
    BY <1>1, <1>2, <2>1 DEF Updates
  <2> QED  BY <1>1, <1>2, <2>2, <2>3, ElemsShort
<1>7. CASE c # 0 /\ list = uniwill_leds_set_brightness_mc(c, b)
  <2>1. PICK p : p = Update("colour", c, Unknown, "leds")
    OBVIOUS
  <2>2. PICK q : q = Update("apply", 1, Unknown, "leds")
    OBVIOUS
  <2>3. p \in Updates /\ p.do = "update" /\ p.f = "colour" /\ p.v = c /\ p.group = "leds"
    BY <1>1, <1>2, <2>1, Written
  <2>4. q \in Updates /\ q.do = "update" /\ q.f = "apply" /\ q.v = 1 /\ q.group = "leds"
    BY <1>1, <1>2, <2>2, Written
  <2>5. list = <<p, q, a>>
    BY <1>3, <1>7, <2>1, <2>2 DEF uniwill_leds_set_brightness_mc
  <2>6. PICK x, y : x = <<p, q>> /\ y = <<a>>
    OBVIOUS
  <2>7. list = x \o y
    BY <2>5, <2>6
  <2>8. x \in Seq(Updates) /\ Elems(x) = {p, q} /\ y \in Seq(Updates) /\ Elems(y) = {a}
    BY <1>4, <2>3, <2>4, <2>6, ElemsShort
  <2>9. list \in Seq(Updates) /\ Elems(list) = {p, q} \cup {a}
    BY <2>7, <2>8, ElemsConcat, SMTT(30)
  <2> QED  BY <1>1, <1>2, <1>4, <2>3, <2>4, <2>9
<1> QED  BY <1>3, <1>5, <1>6, <1>7 DEF uniwill_leds_set_brightness

---------------------------------------------------------------------------
\* The lists of the handlers and the driver.
Restoring == {op \in Updates : op.do = "update" /\ (op.f = "colour" => op.v = Last)}

\* The custom profile mode is switched on, or first off.
LEMMA CustomSet ==
  ASSUME NEW z \in BOOLEAN
  PROVE  /\ uniwill_set_custom_profile_mode(z) \in Seq(Updates)
         /\ Set("custom", 1) \in Elems(uniwill_set_custom_profile_mode(z))
         /\ \A op \in Elems(uniwill_set_custom_profile_mode(z)) : op \in Restoring /\ op.f = "custom"
              /\ op.v # Last
<1>1. PICK a, b : a = Set("custom", 0) /\ b = Set("custom", 1)
  OBVIOUS
<1>2. \A op \in {a, b} : op \in Updates /\ op.do = "update" /\ op.f = "custom" /\ op.v # Last
  BY <1>1, BitSet, FieldNames DEF Remembered, Unknown, Last
<1>3. \A op \in {a, b} : op \in Restoring
  BY <1>2 DEF Restoring
<1>4. <<b>> \in Seq(Updates) /\ Elems(<<b>>) = {b} /\ <<a>> \in Seq(Updates) /\ Elems(<<a>>) = {a}
  BY <1>2, ElemsShort
<1>5. CASE z
  <2>1. PICK x, y : x = <<a>> /\ y = <<b>>
    OBVIOUS
  <2>2. uniwill_set_custom_profile_mode(z) = x \o y
    BY <1>1, <1>5, <2>1 DEF uniwill_set_custom_profile_mode
  <2>3. x \in Seq(Updates) /\ Elems(x) = {a} /\ y \in Seq(Updates) /\ Elems(y) = {b}
    BY <1>4, <2>1
  <2>4. x \o y \in Seq(Updates) /\ Elems(x \o y) = {a} \cup {b}
    BY <2>3, ElemsConcat
  <2> QED  BY <1>1, <1>2, <1>3, <2>2, <2>4
<1>6. CASE ~z
  <2>1. PICK x \in Seq(Updates), y \in Seq(Updates) : x = <<>> /\ y = <<b>>
    BY <1>4, ElemsShort
  <2>2. uniwill_set_custom_profile_mode(z) = x \o y
    BY <1>1, <1>6, <2>1 DEF uniwill_set_custom_profile_mode
  <2>3. x \o y \in Seq(Updates) /\ Elems(x \o y) = {} \cup {b}
    BY <1>4, <2>1, ElemsConcat, ElemsShort
  <2> QED  BY <1>1, <1>2, <1>3, <2>2, <2>3
<1> QED  BY <1>5, <1>6

\* The keyboard backlight is switched on or off.
LEMMA EnableSet ==
  ASSUME NEW v \in Nat
  PROVE  /\ uniwill_write_kbd_bl_enable(v) \in Seq(Updates)
         /\ \A op \in Elems(uniwill_write_kbd_bl_enable(v)) : op \in Restoring /\ op.f = "disabled"
              /\ op.v # Last
<1>1. PICK b : b = 1 - (v % 2)
  OBVIOUS
<1>2. b \in 0 .. 1
  BY <1>1
<1>3. b \in Nat /\ b # Unknown /\ b # Last
  BY <1>2 DEF Unknown, Last
<1>4. PICK a : a = Set("disabled", b)
  OBVIOUS
<1>5. a \in Updates /\ a.do = "update" /\ a.f = "disabled" /\ a.v # Last
  BY <1>3, <1>4, BitSet, FieldNames DEF Remembered
<1>6. uniwill_write_kbd_bl_enable(v) = <<a>>
  BY <1>1, <1>4 DEF uniwill_write_kbd_bl_enable
<1> QED  BY <1>5, <1>6, ElemsShort DEF Restoring

\* Brightness and colour are restored.
LEMMA LedsRestored ==
  /\ uniwill_leds_restore_state_extern \in Seq(Updates)
  /\ Elems(uniwill_leds_restore_state_extern) \subseteq Restoring
  /\ Restore("brightness") \in Elems(uniwill_leds_restore_state_extern)
<1>1. PICK a, b : a = Restore("colour") /\ b = Restore("brightness")
  OBVIOUS
<1>2. PICK s : s = Set("apply", 1)
  OBVIOUS
<1>3. PICK c : c = [s EXCEPT !.group = "colour"]
  OBVIOUS
<1>4. /\ "colour" \in Fields /\ "brightness" \in Fields /\ "apply" \in Fields
           /\ {"colour", "brightness"} \subseteq Remembered
      /\ "apply" \notin Remembered /\ "colour" \in Groups /\ "colour" # "offer" /\ "apply" # "colour"
      /\ 1 # Unknown /\ 1 # Last /\ Unknown \in Nat
  BY FieldNames DEF Remembered, Groups, Unknown, Last
<1>5. /\ a \in Updates /\ a.do = "update" /\ a.f = "colour" /\ a.v = Last
      /\ b \in Updates /\ b.do = "update" /\ b.f = "brightness" /\ b.v = Last
  BY <1>1, <1>4, Restored
<1>6. c \in Updates /\ c.do = "update" /\ c.f = "apply"
  <2>1. s = [do |-> "update", f |-> "apply", v |-> 1, keep |-> Unknown, group |-> "apply", how |-> "asked"]
    BY <1>2 DEF Set, Update
  <2>2. c = [do |-> "update", f |-> "apply", v |-> 1, keep |-> Unknown, group |-> "colour", how |-> "asked"]
    BY <1>3, <2>1
  <2> QED  BY <1>4, <2>2 DEF Updates
<1>7. \A op \in {a, b, c} : op \in Restoring
  BY <1>4, <1>5, <1>6 DEF Restoring
<1>8. PICK x, y : x = <<a, c>> /\ y = <<b>>
  OBVIOUS
<1>9. x \in Seq(Updates) /\ Elems(x) = {a, c} /\ y \in Seq(Updates) /\ Elems(y) = {b}
  BY <1>5, <1>6, <1>8, ElemsShort
<1>10. CASE board = "rgb"
  <2>1. uniwill_leds_restore_state_extern = x \o y
    BY <1>1, <1>2, <1>3, <1>8, <1>10 DEF uniwill_leds_restore_state_extern
  <2>2. x \o y \in Seq(Updates) /\ Elems(x \o y) = {a, c} \cup {b}
    BY <1>9, ElemsConcat
  <2> QED  BY <1>1, <1>7, <2>1, <2>2
<1>11. CASE board # "rgb"
  <2>1. PICK e \in Seq(Updates) : e = <<>>
    BY ElemsShort
  <2>2. uniwill_leds_restore_state_extern = e \o y
    BY <1>1, <1>8, <1>11, <2>1 DEF uniwill_leds_restore_state_extern
  <2>3. e \o y \in Seq(Updates) /\ Elems(e \o y) = {} \cup {b}
    BY <1>9, <2>1, ElemsConcat, ElemsShort
  <2> QED  BY <1>1, <1>7, <2>2, <2>3
<1> QED  BY <1>10, <1>11

\* Charging is restored where it can be set.
LEMMA ChargingRestored ==
  /\ charging_write_state \in Seq(Updates) /\ Elems(charging_write_state) \subseteq Restoring
  /\ \A f \in {"prio", "profile"} : f \in available => Restore(f) \in Elems(charging_write_state)
<1>1. ASSUME NEW f \in {"prio", "profile"}
      PROVE  /\ Restore(f) \in Restoring
             /\ <<Restore(f)>> \in Seq(Updates) /\ Elems(<<Restore(f)>>) = {Restore(f)}
  <2>1. f \in Fields /\ f \in Remembered /\ f # "colour"
    BY FieldNames DEF Remembered
  <2>2. Restore(f) \in Updates /\ Restore(f).do = "update" /\ Restore(f).f = f
    BY <2>1, Restored
  <2> QED  BY <2>1, <2>2, ElemsShort DEF Restoring
<1>2. PICK x : x = IF "prio" \in available THEN <<Restore("prio")>> ELSE <<>>
  OBVIOUS
<1>3. PICK y : y = IF "profile" \in available THEN <<Restore("profile")>> ELSE <<>>
  OBVIOUS
<1>4. charging_write_state = x \o y
  BY <1>2, <1>3 DEF charging_write_state
<1>5. /\ x \in Seq(Updates) /\ Elems(x) \subseteq Restoring
      /\ "prio" \in available => Restore("prio") \in Elems(x)
  BY <1>1, <1>2, ElemsShort
<1>6. /\ y \in Seq(Updates) /\ Elems(y) \subseteq Restoring
      /\ "profile" \in available => Restore("profile") \in Elems(y)
  BY <1>1, <1>3, ElemsShort
<1>7. x \o y \in Seq(Updates) /\ Elems(x \o y) = Elems(x) \cup Elems(y)
  BY <1>5, <1>6, ElemsConcat
<1> QED  BY <1>4, <1>5, <1>6, <1>7

\* What an event and what resume restore.
Restores(list) ==
  /\ list \in Seq(Updates) /\ Elems(list) \subseteq Restoring
  /\ Set("custom", 1) \in Elems(list) /\ Restore("brightness") \in Elems(list)
  /\ \A f \in {"prio", "profile"} : f \in available => Restore(f) \in Elems(list)

\* A cable and resume restore all that the EC may have forgotten.
LEMMA BothRestore == Restores(AdapterChange) /\ Restores(uniwill_keyboard_resume)
<1>1. PICK m : m = uniwill_set_custom_profile_mode(FALSE)
  OBVIOUS
<1>2. PICK l : l = uniwill_leds_restore_state_extern
  OBVIOUS
<1>3. PICK e : e = uniwill_write_kbd_bl_enable(1)
  OBVIOUS
<1>4. PICK w : w = charging_write_state
  OBVIOUS
<1>5. m \in Seq(Updates) /\ Elems(m) \subseteq Restoring /\ Set("custom", 1) \in Elems(m)
  BY <1>1, CustomSet
<1>6. l \in Seq(Updates) /\ Elems(l) \subseteq Restoring /\ Restore("brightness") \in Elems(l)
  BY <1>2, LedsRestored
<1>7. e \in Seq(Updates) /\ Elems(e) \subseteq Restoring
  BY <1>3, EnableSet
<1>8. w \in Seq(Updates) /\ Elems(w) \subseteq Restoring
      /\ \A f \in {"prio", "profile"} : f \in available => Restore(f) \in Elems(w)
  BY <1>4, ChargingRestored
<1>9. PICK x : x = m \o l
  OBVIOUS
<1>10. x \in Seq(Updates) /\ Elems(x) = Elems(m) \cup Elems(l)
  BY <1>5, <1>6, <1>9, ElemsConcat
<1>11. Restores(AdapterChange)
  <2>1. AdapterChange = x \o w
    BY <1>1, <1>2, <1>4, <1>9 DEF AdapterChange
  <2>2. x \o w \in Seq(Updates) /\ Elems(x \o w) = Elems(x) \cup Elems(w)
    BY <1>8, <1>10, ElemsConcat
  <2> QED  BY <1>5, <1>6, <1>8, <1>10, <2>1, <2>2 DEF Restores
<1>12. Restores(uniwill_keyboard_resume)
  <2>1. PICK y : y = x \o e
    OBVIOUS
  <2>2. uniwill_keyboard_resume = y \o w
    BY <1>1, <1>2, <1>3, <1>4, <1>9, <2>1 DEF uniwill_keyboard_resume
  <2>3. y \in Seq(Updates) /\ Elems(y) = Elems(x) \cup Elems(e)
    BY <1>7, <1>10, <2>1, ElemsConcat
  <2>4. y \o w \in Seq(Updates) /\ Elems(y \o w) = Elems(y) \cup Elems(w)
    BY <1>8, <2>3, ElemsConcat
  <2> QED  BY <1>5, <1>6, <1>7, <1>8, <1>10, <2>2, <2>3, <2>4 DEF Restores
<1> QED  BY <1>11, <1>12

---------------------------------------------------------------------------
\* The lists of the driver, by what they are made of.
Probes == {op \in Updates : /\ op.do \in {"update", "read", "offer"}
                            /\ op.do = "update" => op.v # Last /\ op.f # "colour"}
Removals == {op \in Updates : op.do \in {"update", "withdraw", "off"} /\ (op.do = "update" => op.f # "colour")}

\* Lists of updates of one kind.
LEMMA OneKind ==
  ASSUME NEW S, NEW s \in Seq(Updates), Elems(s) \subseteq S
  PROVE  s \in Seq(S)
<1>1. Len(s) \in Nat /\ DOMAIN s = 1 .. Len(s) /\ s = [i \in 1 .. Len(s) |-> s[i]]
  BY LenProperties
<1>2. \A i \in 1 .. Len(s) : s[i] \in S
  BY DEF Elems
<1> QED  BY <1>1, <1>2, IsASeq

\* Suspend leaves the custom profile mode and turns the backlight off.
LEMMA SuspendWrites ==
  /\ uniwill_keyboard_suspend \in Seq(Updates) /\ Len(uniwill_keyboard_suspend) = 2
  /\ uniwill_keyboard_suspend[1] = Set("custom", 0) /\ uniwill_keyboard_suspend[2] = Set("disabled", 1)
  /\ \A op \in Elems(uniwill_keyboard_suspend) : op.do = "update" /\ op.f # "colour"
<1>1. PICK a, b : a = Set("custom", 0) /\ b = Set("disabled", 1)
  OBVIOUS
<1>2. PICK x, y : x = <<a>> /\ y = <<b>>
  OBVIOUS
<1>3. uniwill_keyboard_suspend = x \o y
  <2>1. 1 - (0 % 2) = 1
    OBVIOUS
  <2> QED  BY <1>1, <1>2, <2>1 DEF uniwill_keyboard_suspend, uniwill_write_kbd_bl_enable
<1>4. /\ "custom" \in Fields /\ "custom" \notin Remembered /\ "custom" # "colour"
      /\ "disabled" \in Fields /\ "disabled" \notin Remembered /\ "disabled" # "colour"
      /\ 0 # Unknown /\ 0 # Last /\ 1 # Unknown /\ 1 # Last
  BY FieldNames DEF Remembered, Unknown, Last
<1>5. a \in Updates /\ a.do = "update" /\ a.f = "custom" /\ b \in Updates /\ b.do = "update"
        /\ b.f = "disabled"
  BY <1>1, <1>4, BitSet
<1>6. x \in Seq(Updates) /\ Elems(x) = {a} /\ y \in Seq(Updates) /\ Elems(y) = {b}
  BY <1>2, <1>5, ElemsShort
<1>7. Len(x) = 1 /\ x[1] = a /\ Len(y) = 1 /\ y[1] = b
  BY <1>2
<1>8. PICK s : s = x \o y
  OBVIOUS
<1>9. /\ s \in Seq(Updates) /\ Len(s) = Len(x) + Len(y)
      /\ \A i \in 1 .. Len(x) + Len(y) : s[i] = IF i <= Len(x) THEN x[i] ELSE y[i - Len(x)]
  BY <1>6, <1>8, ConcatProperties
<1>10. Len(s) = 2 /\ s[1] = a /\ s[2] = b
  BY <1>7, <1>9
<1>11. Elems(s) = {a} \cup {b}
  BY <1>6, <1>8, ElemsConcat
<1> QED  BY <1>1, <1>3, <1>4, <1>5, <1>8, <1>9, <1>10, <1>11

\* Remove withdraws what programs have, and turns off.
LEMMA RemoveWrites ==
  ASSUME on_start \in Nat
  PROVE  /\ uniwill_keyboard_remove \in Seq(Updates)
         /\ Elems(uniwill_keyboard_remove) \subseteq Removals
<1>1. Removals \subseteq Updates
  BY DEF Removals
<1>2. ASSUME NEW f \in Fields PROVE Withdraw(f) \in Removals
  BY Restored DEF Removals
<1>3. ASSUME NEW f \in {"lightbar", "animation", "manual"} PROVE Set(f, 0) \in Removals
  <2>1. f \in Fields /\ f \notin Remembered /\ f # "colour" /\ 0 # Unknown /\ 0 # Last
    BY FieldNames DEF Remembered, Unknown, Last
  <2> QED  BY <2>1, BitSet DEF Removals
<1>4. LedOff \in Removals
  <2>1. "brightness" \in Fields
    BY FieldNames
  <2> QED  BY <2>1, Restored DEF Removals
<1>5. PICK a, b, c, d : /\ a = Withdraw("fn_lock") /\ b = Withdraw("prio")
                        /\ c = Withdraw("profile") /\ d = Withdraw("brightness")
  OBVIOUS
<1>6. PICK x, y, z : x = Withdraw("boot") /\ y = Withdraw("powershare") /\ z = Withdraw("mini_led")
  OBVIOUS
<1>7. PICK u : u = LedOff
  OBVIOUS
<1>8. PICK l, m, n, o : /\ l = Withdraw("lightbar") /\ m = Set("lightbar", 0)
                        /\ n = Set("animation", 0) /\ o = Set("manual", 0)
  OBVIOUS
<1>9. PICK e : e = uniwill_write_kbd_bl_enable(on_start)
  OBVIOUS
<1>10. e \in Seq(Removals)
  <2>1. e \in Seq(Updates) /\ \A op \in Elems(e) : op \in Restoring /\ op.f = "disabled"
    BY <1>9, EnableSet
  <2>2. Elems(e) \subseteq Removals
    BY <2>1 DEF Removals, Restoring
  <2> QED  BY <2>1, <2>2, OneKind
<1>11. {a, b, c, d, x, y, z, u, l, m, n, o} \subseteq Removals
  BY <1>2, <1>3, <1>4, <1>5, <1>6, <1>7, <1>8, FieldNames
<1>12. PICK p : p = <<a, b, c, u, d>>
  OBVIOUS
<1>13. p \in Seq(Removals)
  BY <1>11, <1>12
<1>14. PICK q : q = <<l>> \o (<<m>> \o <<n>>) \o <<o>> \o <<x, y, z>>
  OBVIOUS
<1>15. q \in Seq(Removals)
  BY <1>11, <1>14
<1>16. uniwill_keyboard_remove = p \o e \o <<l>> \o (<<m>> \o <<n>>) \o <<o>> \o <<x, y, z>>
  BY <1>5, <1>6, <1>7, <1>8, <1>9, <1>12
     DEF uniwill_keyboard_remove, lightbar_set_blocking,
         uniwill_write_lightbar_animation
<1>17. uniwill_keyboard_remove \in Seq(Removals)
  <2>1. PICK r : r = p \o e
    OBVIOUS
  <2>2. r \in Seq(Removals)
    BY <1>10, <1>13, <2>1, ConcatProperties
  <2>3. PICK s : s = r \o <<l>>
    OBVIOUS
  <2>4. s \in Seq(Removals)
    BY <1>11, <2>2, <2>3
  <2>5. PICK t : t = <<m>> \o <<n>>
    OBVIOUS
  <2>6. t \in Seq(Removals)
    BY <1>11, <2>5
  <2>7. PICK v : v = s \o t
    OBVIOUS
  <2>8. v \in Seq(Removals)
    BY <2>4, <2>6, <2>7, ConcatProperties
  <2>9. PICK w : w = v \o <<o>>
    OBVIOUS
  <2>10. w \in Seq(Removals)
    BY <1>11, <2>8, <2>9
  <2>11. w \o <<x, y, z>> \in Seq(Removals)
    <3>1. <<x, y, z>> \in Seq(Removals)
      BY <1>11
    <3> QED  BY <2>10, <3>1, ConcatProperties
  <2> QED  BY <1>16, <2>1, <2>3, <2>5, <2>7, <2>9, <2>11
<1> QED  BY <1>1, <1>17, ElemsOf, SeqMonotonic

\* Probe asks for values of its own and offers charging.
LEMMA ProbeWrites ==
  /\ ProbeUpdates \in Seq(Updates) /\ Elems(ProbeUpdates) \subseteq Probes
  /\ Offer("prio") \in Elems(ProbeUpdates) /\ Offer("profile") \in Elems(ProbeUpdates)
<1>1. Probes \subseteq Updates
  BY DEF Probes
<1>2. ASSUME NEW f \in Fields PROVE Offer(f) \in Probes
  BY Restored DEF Probes
<1>3. ASSUME NEW f \in {"disabled", "prio", "profile"} PROVE ReadIn(f) \in Probes
  <2>1. f \in Fields
    BY FieldNames
  <2> QED  BY <1>3, <2>1, Restored DEF Probes
<1>4. ASSUME NEW f \in {"lightbar", "animation", "manual", "fixed_color5"}, NEW v \in {0, 1}
      PROVE  Set(f, v) \in Probes
  <2>1. f \in Fields /\ f \notin Remembered /\ f # "colour" /\ v # Unknown /\ v # Last /\ v \in Nat
    BY FieldNames DEF Remembered, Unknown, Last
  <2> QED  BY <2>1, BitSet DEF Probes
<1>5. PICK m, e : m = uniwill_set_custom_profile_mode(TRUE) /\ e = uniwill_write_kbd_bl_enable(1)
  OBVIOUS
<1>6. m \in Seq(Probes) /\ e \in Seq(Probes)
  <2>1. m \in Seq(Updates) /\ \A op \in Elems(m) : op \in Restoring /\ op.f = "custom" /\ op.v # Last
    BY <1>5, CustomSet
  <2>2. e \in Seq(Updates) /\ \A op \in Elems(e) : op \in Restoring /\ op.f = "disabled" /\ op.v # Last
    BY <1>5, EnableSet
  <2>3. Elems(m) \subseteq Probes /\ Elems(e) \subseteq Probes
    BY <2>1, <2>2 DEF Probes, Restoring
  <2> QED  BY <2>1, <2>2, <2>3, OneKind
<1>7. PICK d : d = uw_set_mini_led_local_dimming(0)
  OBVIOUS
<1>8. d \in Seq(Probes)
  <2>1. d \in Seq(Updates) /\ \A op \in Elems(d) : Plain(op)
    BY <1>7, PlainStores
  <2>2. Elems(d) \subseteq Probes
    BY <2>1 DEF Plain, Probes
  <2> QED  BY <2>1, <2>2, OneKind
<1>9. PICK a, b, c, g : /\ a = Set("manual", 1) /\ b = ReadIn("disabled") /\ c = Offer("brightness")
                        /\ g = Set("fixed_color5", 1)
  OBVIOUS
<1>10. PICK x, y, z : x = Offer("lightbar") /\ y = Set("animation", 0) /\ z = Set("lightbar", 0)
  OBVIOUS
<1>11. PICK p, q : p = Offer("prio") /\ q = Offer("profile")
  OBVIOUS
<1>12. PICK pr, qr : pr = ReadIn("prio") /\ qr = ReadIn("profile")
  OBVIOUS
<1>13. PICK o, u, l, f : o = Offer("boot") /\ u = Offer("powershare") /\ l = Offer("mini_led")
         /\ f = Offer("fn_lock")
  OBVIOUS
<1>14. {a, b, c, g, x, y, z, p, q, pr, qr, o, u, l, f} \subseteq Probes
  BY <1>2, <1>3, <1>4, <1>9, <1>10, <1>11, <1>12, <1>13, FieldNames
<1>15. PICK k : k = <<p, pr, q, qr, o, u, l>>
  OBVIOUS
<1>16. k \in Seq(Probes) /\ p \in Elems(k) /\ q \in Elems(k)
  <2>1. k \in Seq(Probes) /\ Len(k) = 7 /\ k[1] = p /\ k[3] = q
    BY <1>14, <1>15
  <2>2. 1 \in 1 .. 7 /\ 3 \in 1 .. 7
    OBVIOUS
  <2> QED  BY <2>1, <2>2 DEF Elems
<1>17. PICK h1, h2, h3 : h1 = <<a, b, g, c>> /\ h2 = <<x, y, z>> /\ h3 = <<f>>
  OBVIOUS
<1>18. h1 \in Seq(Probes) /\ h2 \in Seq(Probes) /\ h3 \in Seq(Probes)
  BY <1>14, <1>17
<1>19. ProbeUpdates = m \o h1 \o e \o h2 \o k \o d \o h3
  BY <1>5, <1>7, <1>9, <1>10, <1>11, <1>12, <1>13, <1>15, <1>17 DEF ProbeUpdates
<1>20. PICK s : s = m \o h1 \o e \o h2
  OBVIOUS
<1>21. s \in Seq(Probes)
  BY <1>6, <1>18, <1>20, ConcatProperties
<1>22. PICK t : t = s \o k
  OBVIOUS
<1>23. t \in Seq(Probes) /\ p \in Elems(t) /\ q \in Elems(t)
  BY <1>16, <1>21, <1>22, ElemsConcat
<1>24. PICK w : w = t \o d
  OBVIOUS
<1>25. w \in Seq(Probes) /\ p \in Elems(w) /\ q \in Elems(w)
  BY <1>8, <1>23, <1>24, ElemsConcat
<1>26. w \o h3 \in Seq(Probes) /\ p \in Elems(w \o h3) /\ q \in Elems(w \o h3)
  BY <1>18, <1>25, ElemsConcat
<1>27. ProbeUpdates = w \o h3
  BY <1>19, <1>20, <1>22, <1>24
<1> QED  BY <1>1, <1>11, <1>26, <1>27, ElemsOf, SeqMonotonic

---------------------------------------------------------------------------
\* A store arrives.
LEMMA AskKeeps ==
  ASSUME SInv, NEW u \in Users, NEW f, NEW list \in Seq(Updates), Ask(u, f, list),
         \A op \in Elems(list) :
            /\ op.do = "update" /\ op.v # Last
            /\ op.f \in {"brightness", "colour"} => op.group = "leds"
            /\ op.group = "leds" => f = "brightness"
            /\ op.f = "colour" => op.v = last'["colour"],
         \/ last' = last /\ chosen' = chosen
         \/ \E c \in Nat, b \in Nat :
               /\ f = "brightness" /\ chosen' = [chosen EXCEPT !["colour"] = Unknown, !["brightness"] = Unknown]
               /\ \/ last' = [last EXCEPT !["brightness"] = b]
                  \/ last' = [last EXCEPT !["colour"] = c, !["brightness"] = b]
  PROVE  SInv'
<1>0. CoreInv /\ SettingTypes /\ OwnersInv /\ StateInv /\ AvailInv
  BY DEF SInv, CoreInv
<1>1. /\ Idle(u) /\ state \in {"probing", "bound", "removing"}
      /\ f = "brightness" => \A o \in Users : \A i \in DOMAIN todo[o] : todo[o][i].group # "leds"
      /\ todo' = [todo EXCEPT ![u] = list]
      /\ UNCHANGED <<board, state, regs, black, phase, held, on_start, available>>
  BY DEF Ask
<1>2. u \in Threads /\ u # Driver /\ u \notin Handlers /\ Users \subseteq Threads
  BY SettingsAssumption DEF Threads
<1>3. /\ todo' \in [Threads -> Seq(Updates)] /\ todo'[u] = list
      /\ \A o \in Threads : o # u => todo'[o] = todo[o]
  BY <1>0, <1>1, <1>2 DEF SettingTypes
<1>4. /\ last' \in [Remembered -> Nat] /\ chosen' \in [Fields -> Nat]
      /\ \A g \in Fields : chosen'[g] \in {chosen[g], Unknown}
      /\ \A g \in Remembered : last'[g] # last[g] => f = "brightness" /\ chosen'[g] = Unknown
      /\ "colour" \in Remembered
  <2>1. /\ last \in [Remembered -> Nat] /\ chosen \in [Fields -> Nat] /\ Unknown \in Nat
        /\ {"colour", "brightness"} \subseteq Remembered /\ {"colour", "brightness"} \subseteq Fields
    BY <1>0, FieldNames DEF SettingTypes, Remembered, Unknown
  <2>2. CASE last' = last /\ chosen' = chosen
    BY <2>1, <2>2
  <2>3. CASE \E c \in Nat, b \in Nat :
               /\ f = "brightness" /\ chosen' = [chosen EXCEPT !["colour"] = Unknown, !["brightness"] = Unknown]
               /\ \/ last' = [last EXCEPT !["brightness"] = b]
                  \/ last' = [last EXCEPT !["colour"] = c, !["brightness"] = b]
    <3>1. \A g \in Fields : chosen'[g] = IF g \in {"colour", "brightness"} THEN Unknown ELSE chosen[g]
      BY <2>1, <2>3
    <3>2. chosen' \in [Fields -> Nat]
      BY <2>1, <2>3
    <3>3. PICK c \in Nat, b \in Nat : \/ last' = [last EXCEPT !["brightness"] = b]
                                     \/ last' = [last EXCEPT !["colour"] = c, !["brightness"] = b]
      BY <2>3
    <3>4. /\ last' \in [Remembered -> Nat]
          /\ \A g \in Remembered : last'[g] # last[g] => g \in {"colour", "brightness"}
      <4>1. PICK mid : mid = [last EXCEPT !["colour"] = c]
        OBVIOUS
      <4>2. mid \in [Remembered -> Nat] /\ \A g \in Remembered : g # "colour" => mid[g] = last[g]
        BY <2>1, <4>1
      <4>3. last' = [last EXCEPT !["brightness"] = b] \/ last' = [mid EXCEPT !["brightness"] = b]
        BY <3>3, <4>1
      <4>4. \A m : m \in [Remembered -> Nat] /\ (\A g \in Remembered : g # "colour" => m[g] = last[g])
                  /\ last' = [m EXCEPT !["brightness"] = b] =>
                    /\ last' \in [Remembered -> Nat]
                    /\ \A g \in Remembered : last'[g] # last[g] => g \in {"colour", "brightness"}
        BY <3>3
      <4>5. last \in [Remembered -> Nat]
        BY <2>1
      <4> QED  BY <4>2, <4>3, <4>4, <4>5
    <3> QED  BY <2>1, <2>3, <3>1, <3>2, <3>4
  <2> QED  BY <2>2, <2>3
<1>5. CoreInv'
  <2>1. \A o \in Threads : o # u => Stays(o)
    BY <1>1, <1>3 DEF Stays
  <2>2. regs' \in [Fields -> Nat] /\ on_start' \in Nat /\ regs' = regs /\ phase' = phase /\ held' = held
    BY <1>0, <1>1 DEF SettingTypes
  <2> QED  BY <1>0, <1>1, <1>2, <1>3, <1>4, <2>1, <2>2, Arrives
<1>6. f = "brightness" => \A o \in Users : ~InLeds(o)
  <2>1. \A o \in Users : Len(todo[o]) \in Nat /\ DOMAIN todo[o] = 1 .. Len(todo[o])
    BY <1>0, <1>2, LenProperties DEF SettingTypes
  <2> QED  BY <1>1, <2>1 DEF InLeds, Elems
<1>7. OwnersInv'
  <2>1. \A o \in Threads : o # u => Shrinks(o)
    BY <1>3 DEF Shrinks, Like
  <2>2. ASSUME NEW o \in Threads, NEW op \in Updates, o # u, op \in Elems(todo[o]), Fits(o, op)
        PROVE Fits(o, op)'
    <3>1. CASE last'["colour"] = last["colour"]
      BY <1>1, <2>2, <3>1 DEF Fits
    <3>2. CASE last'["colour"] # last["colour"]
      <4>1. o \in Users => op.f # "colour"
        BY <1>4, <1>6, <2>2, <3>2 DEF Fits, InLeds
      <4> QED  BY <1>1, <2>2, <4>1 DEF Fits
    <3> QED  BY <3>1, <3>2
  <2>3. \A op \in Elems(todo'[u]) : Fits(u, op)'
    BY <1>2, <1>3 DEF Fits
  <2>4. ~Notifies(u)'
    BY <1>3 DEF Notifies
  <2>5. InLeds(u)' => \A o \in Users : o # u => ~InLeds(o)
    BY <1>3, <1>6 DEF InLeds
  <2> QED  BY <1>0, <1>2, <2>1, <2>2, <2>3, <2>4, <2>5, OwnersMove
<1>8. StateInv'
  <2>1. \A o \in Threads : o # u => (Idle(o)' <=> Idle(o))
    BY <1>3 DEF Idle
  <2>2. Driver \in Threads /\ \A h \in Handlers : h \in Threads /\ h # u
    BY <1>2 DEF Threads
  <2> QED  BY <1>0, <1>1, <1>2, <2>1, <2>2 DEF StateInv
<1>9. AvailInv'
  <2>1. Driver \in Threads
    BY DEF Threads
  <2>2. todo'[Driver] = todo[Driver]
    BY <1>2, <1>3, <2>1
  <2> QED  BY <1>0, <1>1, <2>2 DEF AvailInv, Offer, Restore, Update
<1> QED  BY <1>5, <1>7, <1>8, <1>9 DEF SInv

\* A store into an attribute or the light bar keeps the invariant.
LEMMA StoreKeeps ==
  ASSUME SInv, NEW u \in Users, Store(u)
  PROVE  SInv'
<1>1. last' = last /\ chosen' = chosen
  BY DEF Store
<1>2. last["colour"] \in Nat
  BY DEF SInv, CoreInv, SettingTypes, Remembered
<1>3. ASSUME NEW v \in Nat, v <= 4, NEW f, NEW list, Ask(u, f, list),
             \/ v <= 1 /\ list = uw_set_charging_priority(v)
             \/ list = uw_set_charging_profile(v)
             \/ list = uw_set_mini_led_local_dimming(v)
             \/ list = uw_set_ac_auto_boot(v)
             \/ list = uw_set_usb_powershare(v)
             \/ list = uniwill_wmi_fn_lock_set(v)
             \/ list = lightbar_set_blocking(v)
             \/ list = uniwill_write_lightbar_animation(v)
      PROVE  SInv'
  <2>1. list \in Seq(Updates) /\ \A op \in Elems(list) : Plain(op)
    BY <1>3, PlainStores
  <2> QED  BY <1>1, <1>3, <2>1, AskKeeps DEF Plain
<1>5. \A v \in Bits : v \in Nat /\ v <= 4 /\ v <= 1
  BY SettingsAssumption
<1>6. \A v \in Profiles : v \in Nat /\ v <= 4
  BY SettingsAssumption
<1>7. CASE \E v \in Bits : \/ Ask(u, "prio", uw_set_charging_priority(v))
                           \/ Ask(u, "mini_led", uw_set_mini_led_local_dimming(v))
                           \/ Ask(u, "boot", uw_set_ac_auto_boot(v))
                           \/ Ask(u, "powershare", uw_set_usb_powershare(v))
                           \/ Ask(u, "fn_lock", uniwill_wmi_fn_lock_set(v))
                           \/ Ask(u, "lightbar", lightbar_set_blocking(v))
                           \/ Ask(u, "lightbar", uniwill_write_lightbar_animation(v))
  BY <1>3, <1>5, <1>7, Zenon
<1>8. CASE \E v \in Profiles : Ask(u, "profile", uw_set_charging_profile(v))
  BY <1>3, <1>6, <1>8, Zenon
<1> QED  BY <1>7, <1>8 DEF Store

\* So does a store of brightness, or of colour and brightness.
LEMMA StoreLedKeeps ==
  ASSUME SInv, NEW u \in Users, NEW c \in Colours, NEW b \in Levels, StoreLed(u, c, b)
  PROVE  SInv'
<1>1. c \in Nat /\ c # Unknown /\ c # Last /\ b \in Nat
  BY SettingsAssumption
<1>2. PICK list : /\ list = uniwill_leds_set_brightness(b) \/ list = uniwill_leds_set_brightness_mc(c, b)
                  /\ Ask(u, "brightness", list)
                  /\ \/ list = uniwill_leds_set_brightness(b) /\ last' = [last EXCEPT !["brightness"] = b]
                     \/ last' = [last EXCEPT !["colour"] = c, !["brightness"] = b]
                  /\ chosen' = [chosen EXCEPT !["colour"] = Unknown, !["brightness"] = Unknown]
  BY DEF StoreLed
<1>3. last \in [Remembered -> Nat] /\ {"colour", "brightness"} \subseteq Remembered
  BY DEF SInv, CoreInv, SettingTypes, Remembered
<1>4. /\ list \in Seq(Updates)
      /\ \A op \in Elems(list) :
            /\ op.do = "update" /\ op.v # Last /\ op.group = "leds"
            /\ op.f = "colour" => op.v = c
  BY <1>1, <1>2, LedStores
<1>5. \A op \in Elems(list) : op.f = "colour" => op.v = last'["colour"]
  <2>1. CASE last' = [last EXCEPT !["colour"] = c, !["brightness"] = b]
    <3>1. last'["colour"] = c
      BY <1>3, <2>1
    <3> QED  BY <1>4, <3>1
  <2>2. CASE list = uniwill_leds_set_brightness(b)
    <3>1. PICK a : a = Update("brightness", b, b, "leds")
      OBVIOUS
    <3>2. a.f = "brightness" /\ list = <<a>>
      BY <2>2, <3>1 DEF uniwill_leds_set_brightness, Update
    <3>3. \A op \in Elems(list) : op = a
      <4>1. \A i \in 1 .. Len(<<a>>) : <<a>>[i] = a
        OBVIOUS
      <4> QED  BY <3>2, <4>1 DEF Elems
    <3> QED  BY <3>2, <3>3
  <2> QED  BY <1>2, <2>1, <2>2
<1> QED  BY <1>1, <1>2, <1>4, <1>5, AskKeeps

---------------------------------------------------------------------------
\* An event arrives: the firmware may have changed settings meanwhile.
LEMMA EventKeeps ==
  ASSUME SInv, NEW h \in Handlers, NEW list \in Seq(Updates), NEW new, Event(h, list, new),
         \A g \in DOMAIN new : new[g] \in Nat,
         \A op \in Elems(list) : op.do \in {"update", "notify"} /\ (op.f = "colour" => op.v = Last),
         (\E op \in Elems(list) : op.do = "notify") => \A op \in Elems(list) : op.do = "notify",
         chosen' \in [Fields -> Nat], \A g \in Fields : chosen'[g] \in {chosen[g], Unknown},
         \A g \in Fields \cap DOMAIN new :
            \/ chosen'[g] = Unknown
            \/ \E op \in Elems(list) : op.do = "update" /\ op.f = g /\ (op.v = Last \/ g = "custom")
  PROVE  SInv'
<1>0. CoreInv /\ SettingTypes /\ OwnersInv /\ StateInv /\ AvailInv
  BY DEF SInv, CoreInv
<1>1. /\ Idle(h) /\ state \in {"bound", "suspending", "asleep", "resuming"}
      /\ regs' = [g \in Fields |-> IF g \in DOMAIN new THEN new[g] ELSE regs[g]]
      /\ todo' = [t \in Threads |-> IF t = h THEN list
                                    ELSE IF \E g \in DOMAIN new : Within(t, g) THEN RaceWith(t) ELSE todo[t]]
      /\ UNCHANGED <<board, state, black, phase, held, last, on_start, available>>
  BY DEF Event
<1>2. h \in Threads /\ h # Driver /\ h \notin Users /\ Users \subseteq Threads /\ Driver \in Threads
  BY SettingsAssumption DEF Threads
<1>3. ASSUME NEW o \in Threads, o # h
      PROVE  /\ todo'[o] = todo[o] \/ (~Idle(o) /\ Busy(o) /\ todo'[o] = RaceWith(o))
             /\ todo'[o] \in Seq(Updates)
             /\ (\E g \in DOMAIN new : Within(o, g)) => todo'[o] = RaceWith(o)
  <2>1. todo'[o] = IF \E g \in DOMAIN new : Within(o, g) THEN RaceWith(o) ELSE todo[o]
    BY <1>1, <1>3
  <2>2. CASE \E g \in DOMAIN new : Within(o, g)
    <3>1. ~Idle(o) /\ Busy(o)
      BY <2>2 DEF Within, Busy
    <3>2. RaceWith(o) \in Seq(Updates)
      BY <1>0, <3>1, MarkedList
    <3> QED  BY <2>1, <2>2, <3>1, <3>2
  <2>3. CASE ~(\E g \in DOMAIN new : Within(o, g))
    BY <1>0, <2>1, <2>3 DEF SettingTypes
  <2> QED  BY <2>2, <2>3
<1>4. todo'[h] = list /\ todo' \in [Threads -> Seq(Updates)]
  <2>1. todo'[h] = list
    BY <1>1, <1>2
  <2>2. \A o \in Threads : todo'[o] \in Seq(Updates)
    BY <1>3, <2>1
  <2>3. todo' = [o \in Threads |-> todo'[o]]
    BY <1>1
  <2> QED  BY <2>1, <2>2, <2>3
<1>5. /\ regs' \in [Fields -> Nat]
      /\ \A g \in Fields : regs'[g] # regs[g] => g \in DOMAIN new
  BY <1>0, <1>1 DEF SettingTypes
<1>6. CoreInv'
  <2>1. \A o \in Threads : o # h => Stays(o)
    BY <1>1, <1>3 DEF Stays
  <2>2. /\ last' = last /\ last' \in [Remembered -> Nat] /\ on_start' \in Nat /\ phase' = phase
             /\ held' = held
    BY <1>0, <1>1 DEF SettingTypes
  <2>3. ASSUME NEW o \in Threads, NEW g \in Fields, o # h, Busy(o), Now(o).f \in Same(g), regs'[g] # regs[g]
        PROVE  todo'[o] = RaceWith(o)
    <3>1. ~Idle(o) /\ g \in DOMAIN new
      BY <1>0, <1>5, <2>3 DEF SettingTypes
    <3>2. Within(o, g)
      BY <2>3, <3>1 DEF Within, Busy
    <3> QED  BY <1>3, <2>3, <3>1, <3>2
  <2>4. \A g \in Fields : regs'[g] # regs[g] => chosen'[g] = Unknown \/ Pending(h, g)'
    BY <1>4, <1>5 DEF Pending
  <2> QED  BY <1>0, <1>1, <1>2, <1>4, <1>5, <2>1, <2>2, <2>3, <2>4, Arrives
<1>7. \A o \in Threads : o # h => Shrinks(o) /\ (Idle(o)' <=> Idle(o))
  BY <1>0, <1>3, MarkedShrinks
<1>8. OwnersInv'
  <2>1. \A o \in Threads, op \in Updates : Fits(o, op) => Fits(o, op)'
    BY <1>1 DEF Fits
  <2>2. \A op \in Elems(todo'[h]) : Fits(h, op)'
    BY <1>2, <1>4 DEF Fits
  <2>3. Notifies(h)' => \A op \in Elems(todo'[h]) : op.do = "notify"
    BY <1>4 DEF Notifies
  <2> QED  BY <1>0, <1>2, <1>7, <2>1, <2>2, <2>3, OwnersMove
<1>9. StateInv'
  BY <1>0, <1>1, <1>2, <1>7 DEF StateInv
<1>10. AvailInv'
  BY <1>0, <1>1 DEF AvailInv
<1> QED  BY <1>6, <1>8, <1>9, <1>10 DEF SInv

\* A cable: what the firmware forgets is restored.
LEMMA CableKeeps ==
  ASSUME SInv, NEW h \in Handlers, Cable(h)
  PROVE  SInv'
<1>1. PICK new \in Forgotten : Event(h, AdapterChange, new)
  BY DEF Cable
<1>2. chosen' = chosen /\ chosen \in [Fields -> Nat]
  BY DEF Cable, SInv, CoreInv, SettingTypes
<1>3. PICK lost \in {{}, Forgettable} : new = [g \in lost |-> 0]
  BY DEF Forgotten
<1>4. DOMAIN new \subseteq {"prio", "profile", "brightness", "custom"} /\ \A g \in DOMAIN new : new[g] \in Nat
  BY <1>3 DEF Forgettable
<1>5. "prio" \in available /\ "profile" \in available
  BY <1>1 DEF SInv, AvailInv, Event
<1>6. PICK list : list = AdapterChange
  OBVIOUS
<1>7. Restores(list)
  BY <1>6, BothRestore
<1>8. \A g \in DOMAIN new :
         \E op \in Elems(list) : op.do = "update" /\ op.f = g /\ (op.v = Last \/ g = "custom")
  <2>1. /\ "prio" \in Fields /\ "profile" \in Fields /\ "brightness" \in Fields /\ "custom" \in Fields
        /\ "custom" \notin Remembered /\ 1 # Unknown /\ 1 # Last
    BY FieldNames DEF Remembered, Unknown, Last
  <2>2. \A g \in {"prio", "profile", "brightness"} :
           Restore(g) \in Elems(list) /\ Restore(g).do = "update" /\ Restore(g).f = g /\ Restore(g).v = Last
    BY <1>5, <1>7, <2>1, Restored DEF Restores
  <2>3. Set("custom", 1) \in Elems(list) /\ Set("custom", 1).do = "update" /\ Set("custom", 1).f = "custom"
    BY <1>7, <2>1, BitSet DEF Restores
  <2> QED  BY <1>4, <2>2, <2>3
<1>9. /\ list \in Seq(Updates)
      /\ \A op \in Elems(list) : op.do = "update" /\ (op.f = "colour" => op.v = Last)
  BY <1>7 DEF Restores, Restoring
<1> QED  BY <1>1, <1>2, <1>4, <1>6, <1>8, <1>9, EventKeeps

\* The firmware's key: which brightness is in force is not known until read.
LEMMA BacklightKeyKeeps ==
  ASSUME SInv, NEW h \in Handlers, BacklightKey(h)
  PROVE  SInv'
<1>1. PICK list : list = << [ReadIn("brightness") EXCEPT !.do = "notify", !.how = "asked"] >>
  OBVIOUS
<1>2. PICK new \in {<<>>} \cup {[brightness |-> b] : b \in Levels} : Event(h, list, new)
  BY <1>1 DEF BacklightKey
<1>3. DOMAIN new \subseteq {"brightness"} /\ \A g \in DOMAIN new : new[g] \in Nat
  <2>1. CASE new = <<>>
    BY <2>1
  <2>2. CASE \E b \in Levels : new = [brightness |-> b]
    BY <2>2, SettingsAssumption
  <2> QED  BY <1>2, <2>1, <2>2
<1>4. /\ chosen' \in [Fields -> Nat] /\ chosen'["brightness"] = Unknown
      /\ \A g \in Fields : chosen'[g] \in {chosen[g], Unknown}
  <2>1. chosen \in [Fields -> Nat] /\ "brightness" \in Fields /\ Unknown \in Nat
    BY FieldNames DEF SInv, CoreInv, SettingTypes, Unknown
  <2>2. chosen' = [chosen EXCEPT !["brightness"] = Unknown]
    BY DEF BacklightKey
  <2> QED  BY <2>1, <2>2
<1>5. PICK a : a = [do |-> "notify", f |-> "brightness", v |-> Last, keep |-> Unknown, group |-> "brightness",
                    how |-> "asked"]
  OBVIOUS
<1>6. list = <<a>>
  <2>1. PICK r : r = ReadIn("brightness")
    OBVIOUS
  <2>2. r = [do |-> "read", f |-> "brightness", v |-> Last, keep |-> Unknown, group |-> "brightness",
             how |-> "restored"]
    BY <2>1 DEF ReadIn, Restore, Update
  <2>3. PICK x : x = [r EXCEPT !.do = "notify"]
    OBVIOUS
  <2>4. x = [do |-> "notify", f |-> "brightness", v |-> Last, keep |-> Unknown, group |-> "brightness",
             how |-> "restored"]
    BY <2>2, <2>3
  <2>5. [x EXCEPT !.how = "asked"] = a
    BY <1>5, <2>4
  <2>6. list = << [x EXCEPT !.how = "asked"] >>
    BY <1>1, <2>1, <2>3
  <2> QED  BY <2>5, <2>6
<1>7. a \in Updates /\ a.do = "notify" /\ a.f = "brightness"
  <2>1. "brightness" \in Fields /\ "brightness" \in Groups /\ Last \in Nat /\ Unknown \in Nat
    BY FieldNames DEF Groups, Last, Unknown
  <2> QED  BY <1>5, <2>1 DEF Updates
<1>8. list \in Seq(Updates) /\ Elems(list) = {a}
  BY <1>6, <1>7, ElemsShort
<1>9. "brightness" # "colour"
  OBVIOUS
<1> QED  BY <1>2, <1>3, <1>4, <1>7, <1>8, <1>9, EventKeeps

---------------------------------------------------------------------------
\* The driver begins to probe, suspend, resume or remove.
LEMMA RunKeeps ==
  ASSUME SInv, NEW from, NEW to, NEW list \in Seq(Updates), Run(from, to, list),
         regs' \in [Fields -> Nat], chosen' = chosen, black' = black,
         \A g \in Fields : regs'[g] # regs[g] =>
            /\ \A o \in Threads : ~Busy(o)
            /\ \E op \in Elems(list) : op.do = "update" /\ op.f = g /\ (op.v = Last \/ g = "custom"),
         \A op \in Elems(list) : Fits(Driver, op)'
  PROVE  CoreInv' /\ OwnersInv' /\ todo'[Driver] = list /\ \A o \in Threads : o # Driver => todo'[o] = todo[o]
<1>0. CoreInv /\ SettingTypes /\ OwnersInv
  BY DEF SInv, CoreInv
<1>1. /\ Idle(Driver) /\ todo' = [todo EXCEPT ![Driver] = list]
      /\ UNCHANGED <<board, phase, held, last, on_start, available>>
  BY DEF Run
<1>2. Driver \in Threads /\ Driver \notin Users /\ Driver \notin Handlers
  BY SettingsAssumption DEF Threads
<1>3. /\ todo' \in [Threads -> Seq(Updates)] /\ todo'[Driver] = list
      /\ \A o \in Threads : o # Driver => todo'[o] = todo[o]
  BY <1>0, <1>1, <1>2 DEF SettingTypes
<1>4. CoreInv'
  <2>1. \A o \in Threads : o # Driver => Stays(o)
    BY <1>1, <1>3 DEF Stays
  <2>2. /\ chosen' \in [Fields -> Nat] /\ last' = last /\ last' \in [Remembered -> Nat] /\ on_start' \in Nat
        /\ phase' = phase /\ held' = held
    BY <1>0, <1>1 DEF SettingTypes
  <2>3. \A g \in Fields : regs'[g] # regs[g] => chosen'[g] = Unknown \/ Pending(Driver, g)'
    BY <1>3 DEF Pending
  <2> QED  BY <1>0, <1>1, <1>2, <1>3, <2>1, <2>2, <2>3, Arrives
<1>5. OwnersInv'
  <2>1. \A o \in Threads : o # Driver => Shrinks(o)
    BY <1>3 DEF Shrinks, Like
  <2>2. \A o \in Threads, op \in Updates : o # Driver /\ op \in Elems(todo[o]) /\ Fits(o, op) => Fits(o, op)'
    BY <1>1 DEF Fits
  <2>3. \A op \in Elems(todo'[Driver]) : Fits(Driver, op)'
    BY <1>3
  <2>4. ~Notifies(Driver)'
    BY <1>2, <2>3 DEF Notifies, Fits
  <2> QED  BY <1>0, <1>2, <2>1, <2>2, <2>3, <2>4, OwnersMove
<1> QED  BY <1>3, <1>4, <1>5

\* Threads that are not the driver are as they were.
LEMMA OthersIdle ==
  ASSUME \A o \in Threads : o # Driver => todo'[o] = todo[o]
  PROVE  /\ \A u \in Users : Idle(u)' <=> Idle(u)
         /\ \A h \in Handlers : Idle(h)' <=> Idle(h)
BY SettingsAssumption DEF Threads, Idle

\* Probe offers charging, so that it can be restored later.
LEMMA ProbeKeeps ==
  ASSUME SInv, Probe
  PROVE  SInv'
<1>1. PICK list : list = ProbeUpdates
  OBVIOUS
<1>2. /\ Run("unbound", "probing", list) /\ state = "unbound" /\ state' = "probing" /\ regs' = regs
           /\ chosen' = chosen /\ black' = black
      /\ available' = available
  BY <1>1 DEF Probe, Run, ecVars
<1>3. /\ list \in Seq(Updates) /\ Elems(list) \subseteq Probes
      /\ Offer("prio") \in Elems(list) /\ Offer("profile") \in Elems(list)
  BY <1>1, ProbeWrites
<1>4. \A op \in Elems(list) : Fits(Driver, op)'
  <2>1. Driver \notin Users /\ Driver \notin Handlers
    BY SettingsAssumption
  <2> QED  BY <1>2, <1>3, <2>1 DEF Fits, Probes
<1>5. regs' \in [Fields -> Nat]
  BY <1>2 DEF SInv, CoreInv, SettingTypes
<1>6. CoreInv' /\ OwnersInv' /\ todo'[Driver] = list /\ \A o \in Threads : o # Driver => todo'[o] = todo[o]
  BY <1>2, <1>3, <1>4, <1>5, RunKeeps
<1>7. StateInv'
  BY <1>2, <1>6, OthersIdle DEF SInv, StateInv
<1>8. AvailInv'
  <2>1. \A f \in {"prio", "profile"} : Offer(f) \in Elems(todo'[Driver])
    BY <1>3, <1>6
  <2> QED  BY <1>2, <2>1 DEF AvailInv, Offer, Restore, Update
<1> QED  BY <1>6, <1>7, <1>8 DEF SInv

\* Suspend begins when no program is in a store.
LEMMA SuspendKeeps ==
  ASSUME SInv, Suspend
  PROVE  SInv'
<1>1. PICK list : list = uniwill_keyboard_suspend
  OBVIOUS
<1>2. /\ Run("bound", "suspending", list) /\ state = "bound" /\ state' = "suspending" /\ regs' = regs
           /\ chosen' = chosen /\ black' = black
      /\ available' = available /\ \A u \in Users : Idle(u)
  BY <1>1 DEF Suspend, Run, ecVars
<1>3. list \in Seq(Updates) /\ \A op \in Elems(list) : op.do = "update" /\ op.f # "colour"
  BY <1>1, SuspendWrites
<1>4. \A op \in Elems(list) : Fits(Driver, op)'
  <2>1. Driver \notin Users /\ Driver \notin Handlers
    BY SettingsAssumption
  <2> QED  BY <1>2, <1>3, <2>1 DEF Fits
<1>5. regs' \in [Fields -> Nat]
  BY <1>2 DEF SInv, CoreInv, SettingTypes
<1>6. CoreInv' /\ OwnersInv' /\ todo'[Driver] = list /\ \A o \in Threads : o # Driver => todo'[o] = todo[o]
  BY <1>2, <1>3, <1>4, <1>5, RunKeeps
<1>7. StateInv'
  BY <1>2, <1>6, OthersIdle DEF SInv, StateInv
<1>8. AvailInv'
  BY <1>2 DEF SInv, AvailInv
<1> QED  BY <1>6, <1>7, <1>8 DEF SInv

\* Resume: nobody has read what the EC forgot in its sleep.
LEMMA ResumeKeeps ==
  ASSUME SInv, Resume
  PROVE  SInv'
<1>0. SettingTypes /\ StateInv
  BY DEF SInv, CoreInv
<1>1. PICK list : list = uniwill_keyboard_resume
  OBVIOUS
<1>2. /\ Run("asleep", "resuming", list) /\ state = "asleep" /\ state' = "resuming" /\ chosen' = chosen
      /\ black' = black
      /\ available' = available /\ Idle(Driver) /\ \A h \in Handlers : Idle(h) \/ phase[h] = "start"
  BY <1>1 DEF Resume, Run
<1>3. PICK new \in Forgotten : regs' = [f \in Fields |-> IF f \in DOMAIN new THEN new[f] ELSE regs[f]]
  BY DEF Resume
<1>4. PICK lost \in {{}, Forgettable} : new = [g \in lost |-> 0]
  BY DEF Forgotten
<1>5. DOMAIN new \subseteq {"prio", "profile", "brightness", "custom"} /\ \A g \in DOMAIN new : new[g] \in Nat
  BY <1>4 DEF Forgettable
<1>6. regs' \in [Fields -> Nat] /\ \A g \in Fields : regs'[g] # regs[g] => g \in DOMAIN new
  BY <1>0, <1>3, <1>5 DEF SettingTypes
<1>7. \A o \in Threads : ~Busy(o)
  <2>1. \A u \in Users : Idle(u)
    BY <1>0, <1>2 DEF StateInv
  <2>2. \A o \in Threads : Idle(o) \/ phase[o] = "start"
    BY <1>2, <2>1 DEF Threads
  <2> QED  BY <1>0, <2>2 DEF SettingTypes, Busy
<1>8. "prio" \in available /\ "profile" \in available
  BY <1>2 DEF SInv, AvailInv
<1>9. Restores(list)
  BY <1>1, BothRestore
<1>10. \A g \in DOMAIN new :
          \E op \in Elems(list) : op.do = "update" /\ op.f = g /\ (op.v = Last \/ g = "custom")
  <2>1. /\ "prio" \in Fields /\ "profile" \in Fields /\ "brightness" \in Fields /\ "custom" \in Fields
        /\ "custom" \notin Remembered /\ 1 # Unknown /\ 1 # Last
    BY FieldNames DEF Remembered, Unknown, Last
  <2>2. \A g \in {"prio", "profile", "brightness"} :
           Restore(g) \in Elems(list) /\ Restore(g).do = "update" /\ Restore(g).f = g /\ Restore(g).v = Last
    BY <1>8, <1>9, <2>1, Restored DEF Restores
  <2>3. Set("custom", 1) \in Elems(list) /\ Set("custom", 1).do = "update" /\ Set("custom", 1).f = "custom"
    BY <1>9, <2>1, BitSet DEF Restores
  <2> QED  BY <1>5, <2>2, <2>3
<1>11. list \in Seq(Updates) /\ \A op \in Elems(list) : op.do = "update" /\ (op.f = "colour" => op.v = Last)
  BY <1>9 DEF Restores, Restoring
<1>12. \A op \in Elems(list) : Fits(Driver, op)'
  <2>1. Driver \notin Users /\ Driver \notin Handlers
    BY SettingsAssumption
  <2> QED  BY <1>2, <1>11, <2>1 DEF Fits
<1>13. CoreInv' /\ OwnersInv' /\ todo'[Driver] = list /\ \A o \in Threads : o # Driver => todo'[o] = todo[o]
  BY <1>2, <1>6, <1>7, <1>10, <1>11, <1>12, RunKeeps
<1>14. StateInv'
  BY <1>2, <1>13, OthersIdle DEF SInv, StateInv
<1>15. AvailInv'
  BY <1>2 DEF SInv, AvailInv
<1> QED  BY <1>13, <1>14, <1>15 DEF SInv

\* Remove begins when no handler is at work.
LEMMA RemoveKeeps ==
  ASSUME SInv, Remove
  PROVE  SInv'
<1>1. PICK list : list = uniwill_keyboard_remove
  OBVIOUS
<1>2. /\ Run("bound", "removing", list) /\ state = "bound" /\ state' = "removing" /\ regs' = regs
           /\ chosen' = chosen /\ black' = black
      /\ \A h \in Handlers : Idle(h)
  BY <1>1 DEF Remove, Run, ecVars
<1>3. list \in Seq(Updates) /\ Elems(list) \subseteq Removals
  BY <1>1, RemoveWrites DEF SInv, CoreInv, SettingTypes
<1>4. \A op \in Elems(list) : Fits(Driver, op)'
  <2>1. Driver \notin Users /\ Driver \notin Handlers
    BY SettingsAssumption
  <2> QED  BY <1>2, <1>3, <2>1 DEF Fits, Removals
<1>5. regs' \in [Fields -> Nat]
  BY <1>2 DEF SInv, CoreInv, SettingTypes
<1>6. CoreInv' /\ OwnersInv' /\ todo'[Driver] = list /\ \A o \in Threads : o # Driver => todo'[o] = todo[o]
  BY <1>2, <1>3, <1>4, <1>5, RunKeeps
<1>7. StateInv'
  BY <1>2, <1>6, OthersIdle DEF SInv, StateInv
<1>8. AvailInv'
  BY <1>2 DEF AvailInv
<1> QED  BY <1>6, <1>7, <1>8 DEF SInv

\* It has done all it had to do.
LEMMA ReturnKeeps ==
  ASSUME SInv, Return
  PROVE  SInv'
<1>0. CoreInv /\ SettingTypes /\ OwnersInv /\ StateInv /\ AvailInv
  BY DEF SInv, CoreInv
<1>1. /\ Idle(Driver) /\ state \in DOMAIN After /\ state' = After[state]
      /\ UNCHANGED <<regs, chosen, black, todo, phase, held, last, on_start, available>>
  BY DEF Return, ecVars
<1>2. \/ state = "probing" /\ state' = "bound"
      \/ state = "suspending" /\ state' = "asleep"
      \/ state = "resuming" /\ state' = "bound"
      \/ state = "removing" /\ state' = "unbound"
  BY <1>1 DEF After
<1>3. CoreInv'
  BY <1>0, <1>1 DEF CoreInv, SettingTypes, AloneInv, HeldInv, OwesInv, LastInv, Wanted, Owes, Spoils, Pending,
                    Busy, Now, Idle
<1>4. todo[Driver] = <<>> /\ Elems(todo[Driver]) = {}
  BY <1>1, ElemsShort DEF Idle
<1>5. OwnersInv'
  <2>1. \A o \in Threads : \A op \in Elems(todo[o]) : Fits(o, op)'
    BY <1>0, <1>1, <1>4 DEF OwnersInv, Fits
  <2> QED  BY <1>0, <1>1, <2>1 DEF OwnersInv, InLeds, Notifies
<1>6. StateInv'
  <2>1. \A o \in Threads : Idle(o)' <=> Idle(o)
    BY <1>1 DEF Idle
  <2> QED  BY <1>0, <1>1, <1>2, <2>1 DEF StateInv, Threads
<1>7. AvailInv'
  BY <1>0, <1>1, <1>2, <1>4 DEF AvailInv
<1> QED  BY <1>3, <1>5, <1>6, <1>7 DEF SInv

---------------------------------------------------------------------------
\* The settings at rest.
LEMMA InitiallySettled == SettingsInit => SInv
<1> SUFFICES ASSUME SettingsInit PROVE SInv
  OBVIOUS
<1>1. /\ todo = [t \in Threads |-> <<>>] /\ phase = [t \in Threads |-> "start"]
           /\ held = [t \in Threads |-> <<>>]
      /\ regs = [f \in Fields |-> 0] /\ state = "unbound" /\ on_start = Unknown
      /\ ~black /\ chosen = [f \in Fields |-> IF f \in {"brightness", "colour"} THEN Unknown ELSE regs[f]]
      /\ last = [prio |-> 0, profile |-> 0, brightness |-> 0, colour |-> 1, mini_led |-> 0]
  BY DEF SettingsInit
<1>2. \A t \in Threads : Idle(t) /\ ~Busy(t) /\ todo[t] = <<>> /\ Elems(todo[t]) = {}
  <2>1. Elems(<<>>) = {}
    BY ElemsShort
  <2> QED  BY <1>1, <2>1 DEF Idle, Busy
<1>3. todo \in [Threads -> Seq(Updates)]
  <2>1. <<>> \in Seq(Updates)
    BY ElemsShort
  <2> QED  BY <1>1, <2>1
<1>4. /\ last \in [Remembered -> Nat] /\ last["prio"] = 0 /\ last["profile"] = 0 /\ last["mini_led"] = 0
      /\ last["brightness"] = 0 /\ last["colour"] = 1
  BY <1>1 DEF Remembered
<1>5. /\ regs \in [Fields -> Nat] /\ chosen \in [Fields -> Nat] /\ on_start \in Nat
      /\ \A f \in Fields : chosen[f] # Unknown => regs[f] = chosen[f] /\ chosen[f] = 0
           /\ f \notin {"brightness", "colour"}
  <2>1. Unknown \in Nat
    BY DEF Unknown
  <2> QED  BY <1>1, <2>1
<1>6. SettingTypes
  <2>1. phase \in [Threads -> {"start", "write", "keep"}] /\ DOMAIN held = Threads
    BY <1>1
  <2> QED  BY <1>2, <1>3, <1>4, <1>5, <2>1 DEF SettingTypes
<1>7. AloneInv /\ HeldInv
  BY <1>2 DEF AloneInv, HeldInv
<1>8. OwesInv
  BY <1>1, <1>5 DEF OwesInv, Wanted
<1>9. LastInv
  <2>1. \A f \in Remembered : chosen[f] # Unknown => last[f] = chosen[f]
    BY <1>4, <1>5, RememberedFields DEF Remembered
  <2> QED  BY <2>1 DEF LastInv
<1>10. OwnersInv
  BY <1>2, SettingsAssumption DEF OwnersInv, InLeds, Notifies, Threads
<1>11. StateInv
  BY <1>1, <1>2 DEF StateInv, Threads
<1>12. AvailInv
  BY <1>1 DEF AvailInv
<1> QED  BY <1>6, <1>7, <1>8, <1>9, <1>10, <1>11, <1>12 DEF SInv, CoreInv

\* Every step keeps the invariant.
LEMMA SettingsStep == SInv /\ [SettingsNext]_settingsVars => SInv'
<1> SUFFICES ASSUME SInv, [SettingsNext]_settingsVars PROVE SInv'
  OBVIOUS
<1>1. CASE \E t \in Threads : Step(t)
  BY <1>1, StepKeeps
<1>2. CASE \E u \in Users : Store(u) \/ \E c \in Colours, b \in Levels : StoreLed(u, c, b)
  BY <1>2, StoreKeeps, StoreLedKeeps
<1>3. CASE \E h \in Handlers : Cable(h) \/ BacklightKey(h)
  BY <1>3, CableKeeps, BacklightKeyKeeps
<1>4. CASE Probe \/ Suspend \/ Resume \/ Remove \/ Return
  BY <1>4, ProbeKeeps, SuspendKeeps, ResumeKeeps, RemoveKeeps, ReturnKeeps
<1>5. CASE UNCHANGED settingsVars
  BY <1>5 DEF settingsVars, ecVars, SInv, CoreInv, SettingTypes, AloneInv, HeldInv, OwesInv, LastInv, Wanted,
              Owes, Spoils, Pending, Busy, Now, Idle, OwnersInv, Fits, InLeds, Notifies, StateInv, AvailInv,
              Offer, Restore, Update
<1> QED  BY <1>1, <1>2, <1>3, <1>4, <1>5 DEF SettingsNext

\* So it always holds.
LEMMA AlwaysSettled == SettingsSpec => []SInv
BY InitiallySettled, SettingsStep, PTL DEF SettingsSpec

\* Nobody owes anything to a field that nobody is about to update.
LEMMA QuietOwesNothing ==
  ASSUME SInv, NEW f \in Fields, Quiet(f)
  PROVE  \A t \in Threads : ~Owes(t, f) /\ ~Spoils(t, f)
<1> SUFFICES ASSUME NEW t \in Threads PROVE ~Owes(t, f) /\ ~Spoils(t, f)
  OBVIOUS
<1>0. SettingTypes
  BY DEF SInv, CoreInv
<1>1. todo[t] \in Seq(Updates) /\ DOMAIN todo[t] = 1 .. Len(todo[t])
  BY <1>0, LenProperties DEF SettingTypes
<1>2. \A op \in Elems(todo[t]) : op.f \notin Same(f)
  BY <1>1 DEF Quiet, Elems
<1>3. f \in Same(f)
  BY SameRegister
<1>4. ~Pending(t, f)
  BY <1>2, <1>3 DEF Pending
<1>5. ~(Busy(t) /\ f \in Same(Now(t).f))
  <2> SUFFICES ASSUME Busy(t), f \in Same(Now(t).f) PROVE FALSE
    OBVIOUS
  <2>1. ~Idle(t)
    BY <1>0 DEF SettingTypes
  <2>2. Now(t) \in Elems(todo[t]) /\ Now(t).f \in Fields
    BY <1>0, <2>1, FirstUpdate
  <2>3. Now(t).f \in Same(f)
    BY <2>2, SameRegister
  <2> QED  BY <1>2, <2>2, <2>3
<1> QED  BY <1>4, <1>5 DEF Owes, Spoils

\* A setting in the EC is the one chosen last, whatever programs, events, sleep
\* and failures do to it and to its register.
THEOREM ChosenAlwaysInForce == SettingsSpec => []ChosenInForce
<1>1. SInv => ChosenInForce
  BY QuietOwesNothing DEF SInv, CoreInv, OwesInv, ChosenInForce
<1> QED  BY <1>1, AlwaysSettled, PTL

\* What programs are told of the brightness and the local dimming is in force.
THEOREM ShownAlwaysInForce == SettingsSpec => []ShownIsInForce
<1>1. SInv => ShownIsInForce
  <2> SUFFICES ASSUME SInv, NEW f \in {"brightness", "mini_led"}, Quiet(f), chosen[f] # Unknown
               PROVE last[f] = IF f = "brightness" /\ black THEN chosen[f] ELSE regs[f]
    BY DEF ShownIsInForce
  <2>1. f \in Fields /\ f \in Remembered
    BY FieldNames DEF Remembered
  <2> QED  BY <2>1, QuietOwesNothing DEF SInv, CoreInv, OwesInv, LastInv, Wanted
<1> QED  BY <1>1, AlwaysSettled, PTL

---------------------------------------------------------------------------
\* Of the two updates of suspend, what is left to be done: an update of a field
\* with a value that is not remembered.
Is(op, f, v) == op.do = "update" /\ op.f = f /\ op.v = v /\ op.keep = Unknown

Leaving ==
  /\ Len(todo[Driver]) = 2 /\ state = "suspending"
  /\ Is(todo[Driver][1], "custom", 0) /\ Is(todo[Driver][2], "disabled", 1)
  /\ Busy(Driver) => held[Driver]["custom"] = 0
Darkening ==
  /\ Len(todo[Driver]) = 1 /\ state = "suspending"
  /\ Is(todo[Driver][1], "disabled", 1) /\ regs["custom"] = 0
  /\ Busy(Driver) => held[Driver]["disabled"] = 1
Dark == todo[Driver] = <<>> /\ regs["custom"] = 0 /\ regs["disabled"] = 1

SleepInv ==
  state \in {"suspending", "asleep"} /\ ~disturbed =>
    /\ \A t \in Threads : t # Driver => Idle(t)
    /\ Leaving \/ Darkening \/ Dark

\* While it suspends undisturbed, the driver has the EC for itself.
LEMMA SleepStep ==
  ASSUME SInv, SleepInv, NEW t \in Threads, Step(t)
  PROVE  SleepInv'
<1> SUFFICES ASSUME state' \in {"suspending", "asleep"}, ~disturbed'
             PROVE  (\A o \in Threads : o # Driver => Idle(o)') /\ (Leaving \/ Darkening \/ Dark)'
  BY DEF SleepInv
<1>0. SettingTypes
  BY DEF SInv, CoreInv
<1>1. ~EcFails(t) /\ UNCHANGED <<state, disturbed>>
  BY DEF Step, Begin, EcWrite, Keep, KeepRead, Notify, OfferOrWithdraw, TurnOff, EcFails
<1>2. (\A o \in Threads : o # Driver => Idle(o)) /\ (Leaving \/ Darkening \/ Dark)
  BY <1>1 DEF SleepInv
<1>3. t = Driver /\ Driver \in Threads /\ ~Idle(Driver)
  <2>1. ~Idle(t)
    BY <1>1 DEF Step, Begin, EcWrite, Keep, KeepRead, Notify, OfferOrWithdraw, TurnOff
  <2> QED  BY <1>2, <2>1
<1>4. todo[Driver] \in Seq(Updates) /\ todo[Driver] # <<>> /\ Now(Driver) = todo[Driver][1]
  <2>1. todo[Driver] \in Seq(Updates) /\ todo[Driver] # <<>>
    BY <1>0, <1>3 DEF SettingTypes, Idle
  <2> QED  BY <2>1, ElemsParts DEF Now
<1>5. PICK f \in {"custom", "disabled"}, v \in {0, 1} :
         /\ Is(Now(Driver), f, v) /\ (Busy(Driver) => held[Driver][f] = v)
         /\ \/ f = "custom" /\ v = 0 /\ Leaving
            \/ f = "disabled" /\ v = 1 /\ Darkening
  <2>1. CASE Leaving
    BY <1>4, <2>1 DEF Leaving
  <2>2. CASE Darkening
    BY <1>4, <2>2 DEF Darkening
  <2> QED  BY <1>2, <1>4, <2>1, <2>2 DEF Dark
<1>6. /\ f \in Fields /\ Now(Driver).f = f /\ Now(Driver).do = "update" /\ Now(Driver).v = v
      /\ Now(Driver).keep = Unknown /\ v # Last /\ f \in Same(f) /\ Same(f) \subseteq Fields
  BY <1>5, FieldNames, SameRegister DEF Is, Last
<1>7. Begin(Driver) \/ EcWrite(Driver)
  <2>1. ~KeepRead(Driver) /\ ~Notify(Driver) /\ ~OfferOrWithdraw(Driver) /\ ~TurnOff(Driver)
    BY <1>6 DEF KeepRead, Notify, OfferOrWithdraw, TurnOff
  <2>2. ~Keep(Driver)
    BY <1>0, <1>3, <1>6 DEF Keep, SettingTypes, Busy
  <2> QED  BY <1>1, <1>3, <2>1, <2>2 DEF Step
<1>8. CASE Begin(Driver)
  <2>1. todo' = todo
    <3>1. todo' \in [Threads -> Seq(Updates)] /\ \A o \in Threads : todo'[o] = todo[o]
      <4>1. \A o \in Threads \ {Driver} : ~Within(o, Now(Driver).f)
        BY <1>2 DEF Within
      <4>2. PICK racing : racing = {o \in Threads \ {Driver} : Within(o, Now(Driver).f)}
        OBVIOUS
      <4>3. racing = {}
        BY <4>1, <4>2
      <4>4. todo' = [o \in Threads |-> IF o \in racing \/ (o = Driver /\ racing # {}) THEN RaceWith(o)
                                       ELSE todo[o]]
        BY <1>8, <4>2 DEF Begin
      <4>5. todo' = [o \in Threads |-> todo[o]]
        BY <4>3, <4>4
      <4> QED  BY <1>0, <4>5 DEF SettingTypes
    <3>2. todo \in [Threads -> Seq(Updates)]
      BY <1>0 DEF SettingTypes
    <3> QED  BY <3>1, <3>2
  <2>2. regs' = regs
    BY <1>8 DEF Begin, ecVars
  <2>3. held'[Driver] = [g \in Same(f) |-> IF g = f THEN v ELSE regs[g]]
    <3>1. PICK h : h = [g \in Same(Now(Driver).f) |->
                          IF g = Now(Driver).f /\ Now(Driver).do = "update"
                          THEN IF Now(Driver).v = Last THEN last[g] ELSE Now(Driver).v
                          ELSE regs[g]]
      OBVIOUS
    <3>2. held' = [held EXCEPT ![Driver] = h]
      BY <1>8, <3>1 DEF Begin
    <3>3. h = [g \in Same(f) |-> IF g = f THEN v ELSE regs[g]]
      BY <1>6, <3>1
    <3> QED  BY <1>0, <1>3, <3>2, <3>3 DEF SettingTypes
  <2>4. held'[Driver][f] = v
    BY <1>6, <2>3
  <2>5. \A o \in Threads : o # Driver => Idle(o)'
    BY <1>2, <2>1 DEF Idle
  <2>6. (Leaving \/ Darkening)'
    BY <1>1, <1>5, <2>1, <2>2, <2>4 DEF Leaving, Darkening
  <2> QED  BY <2>5, <2>6
<1>9. CASE EcWrite(Driver)
  <2>1. /\ phase[Driver] = "write" /\ todo' = [todo EXCEPT ![Driver] = Tail(@)]
        /\ phase' = [phase EXCEPT ![Driver] = "start"]
        /\ regs' = [g \in Fields |-> IF g \in DOMAIN held[Driver] THEN held[Driver][g] ELSE regs[g]]
    BY <1>6, <1>9 DEF EcWrite, Done, Next1
  <2>2. Busy(Driver) /\ DOMAIN held[Driver] = Same(f) /\ held[Driver][f] = v
    BY <1>0, <1>3, <1>5, <1>6, <2>1 DEF Busy, SettingTypes
  <2>3. regs'[f] = v /\ \A g \in Fields : g \notin Same(f) => regs'[g] = regs[g]
    BY <1>6, <2>1, <2>2
  <2>4. todo'[Driver] = Tail(todo[Driver]) /\ \A o \in Threads : o # Driver => todo'[o] = todo[o]
    BY <1>0, <1>3, <2>1 DEF SettingTypes
  <2>5. ~Busy(Driver)'
    BY <1>0, <1>3, <2>1 DEF SettingTypes, Busy
  <2>6. \A o \in Threads : o # Driver => Idle(o)'
    BY <1>2, <2>4 DEF Idle
  <2>7. PICK r : r = Tail(todo[Driver])
    OBVIOUS
  <2>8. r \in Seq(Updates) /\ Len(r) = Len(todo[Driver]) - 1
          /\ \A i \in 1 .. Len(r) : r[i] = todo[Driver][i + 1]
    BY <1>4, <2>7, ElemsParts
  <2>9. CASE f = "custom" /\ v = 0 /\ Leaving
    <3>1. Len(r) = 1
      BY <2>8, <2>9 DEF Leaving
    <3>2. r[1] = todo[Driver][2]
      <4>1. 1 \in 1 .. Len(r) /\ 1 + 1 = 2
        BY <3>1
      <4>2. PICK k : k = 1 + 1
        OBVIOUS
      <4>3. r[1] = todo[Driver][k]
        BY <2>8, <4>1, <4>2
      <4> QED  BY <4>1, <4>2, <4>3
    <3>3. Darkening'
      BY <1>1, <2>3, <2>4, <2>5, <2>7, <2>9, <3>1, <3>2 DEF Leaving, Darkening
    <3> QED  BY <2>6, <3>3
  <2>10. CASE f = "disabled" /\ v = 1 /\ Darkening
    <3>1. Len(r) = 0
      BY <2>8, <2>10 DEF Darkening
    <3>2. r = <<>>
      BY <2>8, <3>1, EmptySeq
    <3>3. "custom" \in Fields /\ "custom" \notin Same("disabled")
      BY FieldNames DEF Same, Sharing, RegOf, Fields
    <3>4. Dark'
      BY <2>3, <2>4, <2>7, <2>10, <3>2, <3>3 DEF Darkening, Dark
    <3> QED  BY <2>6, <3>4
  <2> QED  BY <1>5, <2>9, <2>10
<1> QED  BY <1>7, <1>8, <1>9

\* Suspend begins undisturbed if no handler is at work.
LEMMA SleepBegins ==
  ASSUME SInv, Suspend
  PROVE  SleepInv'
<1>0. SettingTypes
  BY DEF SInv, CoreInv
<1>1. PICK list : list = uniwill_keyboard_suspend
  OBVIOUS
<1>2. /\ Idle(Driver) /\ todo' = [todo EXCEPT ![Driver] = list] /\ UNCHANGED <<phase, held>>
      /\ state' = "suspending" /\ \A u \in Users : Idle(u)
      /\ disturbed' = (\E h \in Handlers : ~Idle(h))
  BY <1>1 DEF Suspend, Run
<1>3. /\ Len(list) = 2 /\ list[1] = Set("custom", 0) /\ list[2] = Set("disabled", 1)
  BY <1>1, SuspendWrites
<1>4. Is(Set("custom", 0), "custom", 0) /\ Is(Set("disabled", 1), "disabled", 1)
  BY DEF Is, Set, Update
<1>5. Driver \in Threads
  BY DEF Threads
<1>6. todo'[Driver] = list /\ \A o \in Threads : o # Driver => todo'[o] = todo[o]
  BY <1>0, <1>2, <1>5 DEF SettingTypes
<1>7. ~Busy(Driver)'
  BY <1>0, <1>2, <1>5 DEF SettingTypes, Busy
<1>8. Leaving'
  BY <1>2, <1>3, <1>4, <1>6, <1>7 DEF Leaving
<1>9. ASSUME ~disturbed', NEW o \in Threads, o # Driver PROVE Idle(o)'
  BY <1>2, <1>6, <1>9 DEF Threads, Idle
<1> QED  BY <1>8, <1>9 DEF SleepInv

\* Nothing but an event or a failure disturbs the sleep, and both are recorded.
LEMMA SleepNext == SInv /\ SleepInv /\ [SettingsNext]_settingsVars => SleepInv'
<1> SUFFICES ASSUME SInv, SleepInv, [SettingsNext]_settingsVars PROVE SleepInv'
  OBVIOUS
<1>1. CASE \E t \in Threads : Step(t)
  BY <1>1, SleepStep
<1>2. CASE \E u \in Users : Store(u) \/ \E c \in Colours, b \in Levels : StoreLed(u, c, b)
  <2>1. PICK u \in Users : Store(u) \/ \E c \in Colours, b \in Levels : StoreLed(u, c, b)
    BY <1>2
  <2>2. \E f, list : Ask(u, f, list)
    BY <2>1 DEF Store, StoreLed
  <2>3. state' \in {"probing", "bound", "removing"}
    BY <2>2 DEF Ask
  <2> QED  BY <2>3 DEF SleepInv
<1>3. CASE \E h \in Handlers : Cable(h) \/ BacklightKey(h)
  <2>1. PICK h \in Handlers : Cable(h) \/ BacklightKey(h)
    BY <1>3
  <2>2. disturbed'
    BY <2>1 DEF Cable, BacklightKey, Event
  <2> QED  BY <2>2 DEF SleepInv
<1>4. CASE Probe \/ Resume \/ Remove
  <2>1. state' \in {"probing", "resuming", "removing"}
    BY <1>4 DEF Probe, Resume, Remove, Run
  <2> QED  BY <2>1 DEF SleepInv
<1>5. CASE Suspend
  BY <1>5, SleepBegins
<1>6. CASE Return
  <2>1. /\ Idle(Driver) /\ state \in DOMAIN After /\ state' = After[state]
        /\ UNCHANGED <<regs, todo, phase, held, disturbed>>
    BY <1>6 DEF Return, ecVars
  <2>2. CASE state = "suspending"
    <3>1. Len(todo[Driver]) = 0
      <4>1. todo[Driver] = <<>>
        BY <2>1 DEF Idle
      <4> QED  BY <4>1
    <3>2. disturbed \/ Dark
      BY <2>2, <3>1 DEF SleepInv, Leaving, Darkening
    <3> QED  BY <2>1, <2>2, <3>2 DEF SleepInv, Dark, Idle
  <2>3. CASE state # "suspending"
    <3>1. state' \in {"bound", "unbound"}
      BY <2>1, <2>3 DEF After
    <3> QED  BY <3>1 DEF SleepInv
  <2> QED  BY <2>2, <2>3
<1>7. CASE UNCHANGED settingsVars
  BY <1>7 DEF settingsVars, ecVars, SleepInv, Leaving, Darkening, Dark, Idle, Busy
<1> QED  BY <1>1, <1>2, <1>3, <1>4, <1>5, <1>6, <1>7 DEF SettingsNext

\* A machine that went to sleep undisturbed is dark and not in custom mode.
THEOREM AsleepAlwaysDark == SettingsSpec => []AsleepIsDark
<1>1. SettingsInit => SleepInv
  BY DEF SettingsInit, SleepInv
<1>2. SleepInv /\ SInv => AsleepIsDark
  BY DEF SleepInv, AsleepIsDark, Leaving, Darkening, Dark
<1> QED  BY <1>1, <1>2, SleepNext, AlwaysSettled, PTL DEF SettingsSpec
================================================================================
