---------------------------- MODULE ProcessProofs ----------------------------
(***************************************************************************)
(* Proofs about Process, for any components in any order, any modes and    *)
(* whatever each of them supports; about Dedicated: what a dedicated       *)
(* server is told before it is initialized takes place once and in order;  *)
(* and about what the client puts around the game's process: the emulated  *)
(* Steam API, the messages of the console and the input of the game's own  *)
(* console.                                                                *)
(*                                                                         *)
(* The order of a component's hooks rests on three facts: what a listed    *)
(* component was called with is among the functions that are handled;      *)
(* where the main thread is bounds what can be handled; and in a loop over *)
(* the components, those at and behind the iterator have not been called.  *)
(***************************************************************************)
EXTENDS MCProcess, Console, Dedicated, SequenceLemmas

ProcessSpec == ProcessInit /\ [][ProcessNext]_processVars

Registered == {Component[i] : i \in DOMAIN Component}
Hook == {"post_start", "post_load", "post_unpack", "pre_destroy"}
Phase == {"main", "post_start", "detect", "launcher", "message loop", "binary", "load", "clean",
          "post_load", "game", "post_unpack", "destroy", "pre_destroy", "exit", "terminated"}

\* The type invariant of Process (main.cpp, component_loader.cpp).
ProcessTypeOK ==
  /\ phase \in Phase
  /\ at \in Nat /\ (phase # "main" => at > 0)
  /\ components \in Seq(Registered)
  /\ handled \subseteq Hook
  /\ mode \in Mode \cup {"none"}
  /\ hooks \in [Registered -> Seq(Hook)]
  /\ recovery \in [counts : Nat, recent : BOOLEAN]
  /\ is_initialized \in BOOLEAN
  /\ interrupted \in BOOLEAN

\* What can be handled where the main thread is.
HandledHere ==
  /\ phase \in Hook => phase \in handled
  /\ phase = "main" => handled = {}
  /\ phase \in {"post_start", "detect", "launcher", "message loop", "binary", "load"} =>
       handled \subseteq {"post_start"}
  /\ phase \in {"clean", "post_load"} => handled \subseteq {"post_start", "post_load"}
  /\ phase \in {"clean", "game", "post_unpack"} => "post_load" \in handled
  /\ phase = "post_unpack" => "pre_destroy" \notin handled
  /\ phase = "game" /\ "pre_destroy" \in handled => "post_unpack" \in handled
  /\ phase = "exit" => "pre_destroy" \in handled
  /\ is_initialized => "post_unpack" \in handled

Seen(c) == ToSet(hooks[c])

\* The listed components have been called with what is handled only, and those
\* at and behind the iterator not yet with the hook in progress.
CalledHandled == \A c \in ToSet(components) : Seen(c) \subseteq handled
NotYetCalled == phase \in Hook => \A i \in 1..Len(components) : i >= at => phase \notin Seen(components[i])

\* Who is destroyed: the components that are no longer listed, those before the
\* iterator that destroys, and all of them once it has passed.
Forgotten == \A c \in Registered : c \notin ToSet(components) => "pre_destroy" \in Seen(c)
Destroying ==
  phase = "pre_destroy" =>
    \A i \in 1..Len(components) : i < at => "pre_destroy" \in Seen(components[i])
AllDestroyed ==
  "pre_destroy" \in handled /\ ~interrupted /\ phase \notin {"pre_destroy", "terminated"} =>
    \A c \in Registered : "pre_destroy" \in Seen(c)

\* What became of the components that do not support the mode.
Early == {"main", "post_start", "detect", "launcher", "message loop", "binary", "load", "clean"}
OfTheGame(c) == {"post_load", "post_unpack"} \cap Seen(c)
NoGameYet == phase \in Early => \A c \in Registered : OfTheGame(c) = {}
Spared == mode # "none" => \A c \in Registered : c \in Unsupported[mode] => OfTheGame(c) = {}
Cleaning ==
  phase = "clean" /\ mode # "none" =>
    \A i \in 1..Len(components) : i < at => components[i] \notin Unsupported[mode]
Cleaned ==
  "post_load" \in handled /\ phase # "clean" /\ mode # "none" =>
    \A c \in ToSet(components) : c \notin Unsupported[mode]

Ordered(s) == \A i \in 1..Len(s) - 1 : Rank(s[i]) < Rank(s[i + 1])
HooksOrdered == \A c \in Registered : Ordered(hooks[c])

LifeInv ==
  /\ HandledHere /\ HooksOrdered /\ Distinct(components)
  /\ CalledHandled /\ NotYetCalled /\ Forgotten /\ Destroying /\ AllDestroyed
  /\ NoGameYet /\ Spared /\ Cleaning /\ Cleaned
-----------------------------------------------------------------------------
(* Calls of hooks.                                                         *)

LEMMA HookRank ==
  /\ Rank("post_start") = 1 /\ Rank("post_load") = 2
  /\ Rank("post_unpack") = 3 /\ Rank("pre_destroy") = 4
<1>1. /\ \A i \in 1..4 : Order[i] = "post_start" <=> i = 1
      /\ \A i \in 1..4 : Order[i] = "post_load" <=> i = 2
      /\ \A i \in 1..4 : Order[i] = "post_unpack" <=> i = 3
      /\ \A i \in 1..4 : Order[i] = "pre_destroy" <=> i = 4
  BY DEF Order
<1> QED BY <1>1 DEF Rank

LEMMA AppendOrdered ==
  ASSUME NEW s \in Seq(Hook), NEW h \in Hook, Ordered(s),
         \A e \in ToSet(s) : Rank(e) < Rank(h)
  PROVE  Ordered(Append(s, h))
<1>1. /\ Len(Append(s, h)) = Len(s) + 1 /\ Append(s, h)[Len(s) + 1] = h
      /\ \A k \in 1..Len(s) : Append(s, h)[k] = s[k]
  BY AppendElements
<1>2. Len(s) \in Nat /\ \A k \in 1..Len(s) : s[k] \in ToSet(s)
  BY LenProperties, ToSetMember
<1> SUFFICES ASSUME NEW i \in 1..Len(s)
             PROVE  Rank(Append(s, h)[i]) < Rank(Append(s, h)[i + 1])
  BY <1>1, <1>2 DEF Ordered
<1>3. CASE i = Len(s)
  BY <1>1, <1>2, <1>3
<1>4. CASE i # Len(s)
  <2>1. i \in 1..Len(s) - 1 /\ i + 1 \in 1..Len(s)
    BY <1>2, <1>4
  <2> QED BY <2>1, <1>1 DEF Ordered
<1> QED BY <1>3, <1>4

\* A hook of the component at the iterator is called: it is called in order if
\* it comes after those the component has seen, and no other component changes.
LEMMA CallEffect ==
  ASSUME ProcessTypeOK, HooksOrdered, NEW h \in Hook, at \in 1..Len(components),
         hooks' = Called(components[at], h),
         \A e \in ToSet(hooks[components[at]]) : Rank(e) < Rank(h)
  PROVE  /\ components[at] \in Registered /\ components[at] \in ToSet(components)
         /\ hooks' \in [Registered -> Seq(Hook)]
         /\ ToSet(hooks'[components[at]]) = ToSet(hooks[components[at]]) \cup {h}
         /\ \A d \in Registered : d # components[at] => hooks'[d] = hooks[d]
         /\ \A d \in Registered : Ordered(hooks'[d])
<1> DEFINE c == components[at]
<1>1. c \in Registered /\ c \in ToSet(components)
  BY ElementOfSeq, ToSetMember DEF ProcessTypeOK
<1>2. hooks[c] \in Seq(Hook) /\ hooks \in [Registered -> Seq(Hook)]
  BY <1>1 DEF ProcessTypeOK
<1>3. hooks' = [hooks EXCEPT ![c] = Append(hooks[c], h)]
  BY DEF Called
<1>4. Append(hooks[c], h) \in Seq(Hook) /\ ToSet(Append(hooks[c], h)) = ToSet(hooks[c]) \cup {h}
  BY <1>2, AppendElements
<1>5. Ordered(Append(hooks[c], h))
  BY <1>1, <1>2, AppendOrdered DEF HooksOrdered
<1> HIDE DEF c
<1>6. /\ hooks' \in [Registered -> Seq(Hook)] /\ hooks'[c] = Append(hooks[c], h)
      /\ \A d \in Registered : d # c => hooks'[d] = hooks[d]
  BY <1>1, <1>2, <1>3, <1>4
<1> QED BY <1>1, <1>4, <1>5, <1>6 DEF c, HooksOrdered
-----------------------------------------------------------------------------
(* Types.                                                                  *)

LEMMA InitialTypes == ProcessInit => ProcessTypeOK
<1> SUFFICES ASSUME ProcessInit PROVE ProcessTypeOK
  OBVIOUS
<1>1. Component \in Seq(Registered)
  BY ProcessAssumption DEF Registered
<1>2. hooks = [c \in Registered |-> <<>>] /\ <<>> \in Seq(Hook)
  BY EmptySeq DEF ProcessInit, Registered
<1> QED BY <1>1, <1>2 DEF ProcessInit, ProcessTypeOK, Phase

LEMMA StepTypes == ProcessTypeOK /\ [ProcessNext]_processVars => ProcessTypeOK'
<1> SUFFICES ASSUME ProcessTypeOK, [ProcessNext]_processVars PROVE ProcessTypeOK'
  OBVIOUS
<1> USE DEF ProcessTypeOK
<1>1. ASSUME NEW f \in Hook, NEW from \in Phase, NEW to \in Phase, Begin(f, from, to)
      PROVE  ProcessTypeOK'
  BY <1>1 DEF Begin, Go
<1>2. ASSUME NEW h \in Hook, NEW next \in Phase, next # "main",
             NEW mayThrow \in BOOLEAN, CallNext(h, next, mayThrow)
      PROVE  ProcessTypeOK'
  <2>3. /\ components' = components /\ handled' = handled /\ mode' = mode
        /\ recovery' = recovery /\ is_initialized' = is_initialized /\ interrupted' = interrupted
    BY <1>2 DEF CallNext
  <2>1. CASE at > Len(components)
    <3>1. phase' = next /\ at' = 1 /\ hooks' = hooks
      BY <1>2, <2>1 DEF CallNext, Go
    <3> QED BY <3>1, <2>3
  <2>2. CASE ~(at > Len(components))
    <3>1. at \in 1..Len(components)
      BY <1>2, <2>2, LenProperties DEF CallNext, Hook
    <3>2. hooks' = Called(components[at], h)
      BY <1>2, <2>2 DEF CallNext
    <3>3. hooks' \in [Registered -> Seq(Hook)]
      <4>1. components[at] \in Registered
        BY <3>1, ElementOfSeq
      <4>2. Append(hooks[components[at]], h) \in Seq(Hook)
        BY <4>1, AppendElements
      <4> QED BY <3>2, <4>1, <4>2 DEF Called
    <3>4. (phase' = phase /\ at' = at + 1) \/ (phase' = "destroy" /\ at' = 1)
      <4>1. (phase' = phase /\ at' = at + 1) \/ Leave
        BY <1>2, <2>2, Zenon DEF CallNext
      <4> QED BY <4>1 DEF Leave, Go
    <3>5. "destroy" \in Phase
      BY DEF Phase
    <3>6. phase' \in Phase /\ at' \in Nat /\ at' > 0
      BY <3>1, <3>4, <3>5
    <3> QED BY <3>3, <3>6, <2>3
  <2> QED BY <2>1, <2>2
<1>3. CASE clean
  <2>1. CASE at > Len(components)
    BY <1>3, <2>1 DEF clean, Go, Phase
  <2>2. CASE ~(at > Len(components))
    <3>1. at \in 1..Len(components) /\ components[at] \in Registered
      BY <1>3, <2>2, LenProperties, ElementOfSeq DEF clean
    <3>2. CASE components[at] \in Unsupported[mode]
      <4>1. RemoveAt(components, at) \in Seq(Registered)
        BY <3>1, RemoveElements
      <4>2. Append(hooks[components[at]], "pre_destroy") \in Seq(Hook)
        BY <3>1, AppendElements DEF Hook
      <4>3. hooks' \in [Registered -> Seq(Hook)]
        BY <1>3, <2>2, <3>1, <3>2, <4>2 DEF clean, Called
      <4> QED BY <1>3, <2>2, <3>2, <4>1, <4>3 DEF clean
    <3>3. CASE components[at] \notin Unsupported[mode]
      BY <1>3, <2>2, <3>3 DEF clean
    <3> QED BY <3>2, <3>3
  <2> QED BY <2>1, <2>2
<1>4. CASE post_start
  BY <1>4, <1>1, <1>2 DEF post_start, Hook, Phase
<1>5. CASE post_load
  BY <1>5, <1>1, <1>2, <1>3 DEF post_load, Hook, Phase
<1>6. CASE post_unpack
  BY <1>6, <1>1, <1>2 DEF post_unpack, Hook, Phase
<1>7. CASE pre_destroy
  <2>1. CASE phase = "destroy" /\ Go("exit") /\ UNCHANGED <<components, handled, mode, windows, hooks, recovery, is_initialized, interrupted>>
    BY <2>1 DEF Go, Phase
  <2> QED BY <1>7, <2>1, <1>1, <1>2 DEF pre_destroy, Hook, Phase
<1>8. ASSUME NEW m \in Mode \cup {"none"}, detect_mode_from_arguments(m)
      PROVE  ProcessTypeOK'
  BY <1>8 DEF detect_mode_from_arguments, Becomes, Go, Phase
<1>9. CASE create_main_menu \/ close_all \/ \E m \in Mode : select_mode(m)
  BY <1>9 DEF create_main_menu, close_all, select_mode, Phase
<1>10. CASE run \/ load_binary \/ exit_hook
  <2>1. /\ UNCHANGED <<components, handled, mode, hooks, recovery, is_initialized, interrupted>>
        /\ phase' \in {"binary", "load", "destroy"} /\ at' = 1
    BY <1>10 DEF run, load_binary, exit_hook, Go, Leave
  <2>2. phase' \in Phase
    BY <2>1 DEF Phase
  <2> QED BY <2>1, <2>2
<1>11. CASE SetInitialized \/ MinutePasses
  BY <1>11 DEF SetInitialized, MinutePasses
<1>12. ASSUME NEW game_thread \in BOOLEAN, NEW legacy \in BOOLEAN, reset_state(game_thread, legacy)
       PROVE  ProcessTypeOK'
  <2>1. /\ UNCHANGED <<components, handled, mode, hooks, is_initialized>>
        /\ phase' \in {"game", "terminated"} /\ at' = 1
    BY <1>12 DEF reset_state, Go
  <2>2. interrupted' \in BOOLEAN
    BY <1>12, Zenon DEF reset_state
  <2>3. \/ recovery' = recovery
        \/ recovery' = [counts |-> recovery.counts + 1, recent |-> TRUE]
    BY <1>12 DEF reset_state
  <2>4. phase' \in Phase
    BY <2>1 DEF Phase
  <2>5. recovery.counts + 1 \in Nat
    OBVIOUS
  <2>6. [counts |-> recovery.counts + 1, recent |-> TRUE] \in [counts : Nat, recent : BOOLEAN]
    BY <2>5
  <2>7. recovery' \in [counts : Nat, recent : BOOLEAN]
    BY <2>3, <2>6, Zenon
  <2> QED BY <2>1, <2>2, <2>4, <2>7
<1>13. CASE UNCHANGED processVars
  BY <1>13 DEF processVars
<1> QED BY <1>4, <1>5, <1>6, <1>7, <1>8, <1>9, <1>10, <1>11, <1>12, <1>13 DEF ProcessNext

\* Every variable of the process keeps its type (main.cpp, component_loader.cpp).
THEOREM ProcessTypes == ProcessSpec => []ProcessTypeOK
BY InitialTypes, StepTypes, PTL DEF ProcessSpec
-----------------------------------------------------------------------------
(* The life of the components.                                             *)

LEMMA InitialLife == ProcessInit => LifeInv
<1> SUFFICES ASSUME ProcessInit PROVE LifeInv
  OBVIOUS
<1>1. /\ phase = "main" /\ components = Component /\ handled = {} /\ mode = "none"
      /\ hooks = [c \in Registered |-> <<>>] /\ is_initialized = FALSE
  BY DEF ProcessInit, Registered
<1>2. Component \in Seq(Registered)
  BY ProcessAssumption DEF Registered
<1>3. \A c \in Registered : hooks[c] = <<>> /\ Seen(c) = {}
  BY <1>1 DEF Seen, ToSet
<1>4. ToSet(components) = Registered
  BY <1>1, <1>2 DEF ToSet, Registered
<1>5. Distinct(components)
  BY <1>1, <1>2, ProcessAssumption DEF Distinct
<1>6. HooksOrdered
  BY <1>3 DEF HooksOrdered, Ordered
<1>7. HandledHere /\ CalledHandled /\ NotYetCalled /\ Forgotten /\ Destroying /\ AllDestroyed
  BY <1>1, <1>3, <1>4 DEF HandledHere, CalledHandled, NotYetCalled, Forgotten, Destroying, AllDestroyed, Hook
<1>8. NoGameYet /\ Spared /\ Cleaning /\ Cleaned
  BY <1>1, <1>3 DEF NoGameYet, OfTheGame, Spared, Cleaning, Cleaned
<1> QED BY <1>5, <1>6, <1>7, <1>8 DEF LifeInv

\* A function of component_loader begins: nothing is called yet, and as it was
\* not handled no component has seen its hook.
LEMMA BeginLife ==
  ASSUME ProcessTypeOK, LifeInv, NEW f, NEW from, NEW to, Begin(f, from, to),
         \/ f = "post_start" /\ from = "main" /\ to = "post_start"
         \/ f = "post_load" /\ from = "load" /\ to = "clean"
         \/ f = "post_unpack" /\ from = "game" /\ to = "post_unpack"
         \/ f = "pre_destroy" /\ from = "destroy" /\ to = "pre_destroy"
  PROVE  LifeInv'
<1>1. /\ phase = from /\ f \notin handled /\ handled' = handled \cup {f} /\ phase' = to /\ at' = 1
      /\ components' = components /\ mode' = mode /\ hooks' = hooks
      /\ is_initialized' = is_initialized /\ interrupted' = interrupted
  BY DEF Begin, Go
<1>2. \A c : Seen(c)' = Seen(c) /\ OfTheGame(c)' = OfTheGame(c)
  BY <1>1 DEF Seen, OfTheGame
<1>3. HandledHere'
  BY <1>1 DEF LifeInv, HandledHere, Hook
<1>4. HooksOrdered' /\ Distinct(components)'
  BY <1>1 DEF LifeInv, HooksOrdered, Distinct
<1>5. CalledHandled' /\ Forgotten'
  BY <1>1, <1>2 DEF LifeInv, CalledHandled, Forgotten
<1>6. NotYetCalled'
  <2> SUFFICES ASSUME to \in Hook, NEW i \in 1..Len(components)
               PROVE  to \notin Seen(components[i])
    BY <1>1, <1>2 DEF NotYetCalled
  <2>1. components[i] \in ToSet(components)
    BY ToSetMember DEF ProcessTypeOK
  <2>2. to = f
    BY DEF Hook
  <2> QED BY <1>1, <2>1, <2>2 DEF LifeInv, CalledHandled
<1>7. Destroying'
  BY <1>1, LenProperties DEF ProcessTypeOK, Destroying
<1>8. AllDestroyed'
  BY <1>1, <1>2 DEF LifeInv, AllDestroyed
<1>9. NoGameYet' /\ Spared'
  BY <1>1, <1>2 DEF LifeInv, NoGameYet, Spared, Early
<1>10. Cleaning'
  BY <1>1, LenProperties DEF ProcessTypeOK, Cleaning
<1>11. Cleaned'
  BY <1>1 DEF LifeInv, Cleaned
<1> QED BY <1>3, <1>4, <1>5, <1>6, <1>7, <1>8, <1>9, <1>10, <1>11 DEF LifeInv

\* The loop of a function of component_loader: the hook is called in order, at
\* most once, and never one of the game's where the mode is not supported.
LEMMA CallLife ==
  ASSUME ProcessTypeOK, LifeInv, NEW h \in Hook, NEW next, NEW mayThrow \in BOOLEAN,
         CallNext(h, next, mayThrow),
         \/ h = "post_start" /\ next = "detect"
         \/ h \in {"post_load", "post_unpack"} /\ next = "game"
         \/ h = "pre_destroy" /\ next = "exit",
         h \in {"post_unpack", "pre_destroy"} => ~mayThrow
  PROVE  LifeInv'
<1>1. /\ phase = h /\ components' = components /\ handled' = handled /\ mode' = mode
      /\ is_initialized' = is_initialized /\ interrupted' = interrupted
  BY DEF CallNext
<1>2. Len(components) \in Nat /\ \A i \in 1..Len(components) :
        components[i] \in ToSet(components) /\ components[i] \in Registered
  BY LenProperties, ToSetMember, ElementOfSeq DEF ProcessTypeOK
<1>3. CASE at > Len(components)
  <2>1. phase' = next /\ at' = 1 /\ hooks' = hooks
    BY <1>3 DEF CallNext, Go
  <2>2. \A c : Seen(c)' = Seen(c) /\ OfTheGame(c)' = OfTheGame(c)
    BY <2>1 DEF Seen, OfTheGame
  <2>3. HandledHere'
    BY <1>1, <2>1, HookRank DEF LifeInv, HandledHere, Hook
  <2>4. HooksOrdered' /\ Distinct(components)' /\ CalledHandled' /\ Forgotten'
    BY <1>1, <2>1, <2>2 DEF LifeInv, HooksOrdered, Distinct, CalledHandled, Forgotten
  <2>5. NotYetCalled' /\ Destroying' /\ Cleaning'
    BY <1>1, <2>1 DEF NotYetCalled, Destroying, Cleaning, Hook
  <2>6. AllDestroyed'
    <3>1. CASE h = "pre_destroy"
      <4>1. \A c \in Registered : "pre_destroy" \in Seen(c)
        <5> TAKE c \in Registered
        <5>1. CASE c \notin ToSet(components)
          BY <5>1 DEF LifeInv, Forgotten
        <5>2. CASE c \in ToSet(components)
          <6>1. PICK i \in 1..Len(components) : components[i] = c
            BY <5>2, ToSetMember DEF ProcessTypeOK
          <6>2. i < at
            BY <6>1, <1>2, <1>3 DEF ProcessTypeOK
          <6> QED BY <6>1, <6>2, <1>1, <3>1 DEF LifeInv, Destroying
        <5> QED BY <5>1, <5>2
      <4> QED BY <4>1, <2>2 DEF AllDestroyed
    <3>2. CASE h # "pre_destroy"
      <4>1. "pre_destroy" \notin handled
        BY <1>1, <3>2 DEF LifeInv, HandledHere, Hook
      <4> QED BY <4>1, <1>1 DEF AllDestroyed
    <3> QED BY <3>1, <3>2
  <2>7. NoGameYet' /\ Spared' /\ Cleaned'
    <3>1. NoGameYet'
      BY <1>1, <2>1, <2>2 DEF LifeInv, NoGameYet, Early
    <3>2. Spared'
      BY <1>1, <2>2 DEF LifeInv, Spared
    <3>3. Cleaned'
      BY <1>1 DEF LifeInv, Cleaned, Hook
    <3> QED BY <3>1, <3>2, <3>3
  <2> QED BY <2>3, <2>4, <2>5, <2>6, <2>7 DEF LifeInv
<1>4. CASE ~(at > Len(components))
  <2> DEFINE c == components[at]
  <2>1. at \in 1..Len(components) /\ c \in Registered /\ c \in ToSet(components)
    BY <1>1, <1>2, <1>4 DEF ProcessTypeOK, Hook
  <2>2. hooks' = Called(components[at], h)
    BY <1>4 DEF CallNext
  <2>3. (phase' = h /\ at' = at + 1) \/ (phase' = "destroy" /\ h \in {"post_start", "post_load"})
    <3>1. (phase' = phase /\ at' = at + 1) \/ (mayThrow /\ Leave)
      BY <1>4, Zenon DEF CallNext
    <3>2. CASE phase' = phase /\ at' = at + 1
      BY <3>2, <1>1
    <3>3. CASE mayThrow /\ Leave
      BY <3>3, Zenon DEF Leave, Go, Hook
    <3> QED BY <3>1, <3>2, <3>3
  <2>4. \A e \in Seen(c) : Rank(e) < Rank(h)
    <3>1. Seen(c) \subseteq handled /\ h \notin Seen(c) /\ handled \subseteq Hook
      BY <1>1, <2>1 DEF LifeInv, CalledHandled, NotYetCalled, ProcessTypeOK
    <3>2. \/ h = "post_start" /\ handled \subseteq {"post_start"}
          \/ h = "post_load" /\ handled \subseteq {"post_start", "post_load"}
          \/ h = "post_unpack" /\ "pre_destroy" \notin handled
          \/ h = "pre_destroy"
      BY <1>1 DEF LifeInv, HandledHere
    <3> SUFFICES ASSUME NEW e \in Seen(c)
                 PROVE  Rank(e) < Rank(h)
      OBVIOUS
    <3>3. e \in handled /\ e # h /\ e \in Hook
      BY <3>1
    <3> HIDE DEF c
    <3> QED BY <3>2, <3>3, HookRank DEF Hook
  <2>5. /\ \A d \in Registered : Ordered(hooks'[d])
        /\ ToSet(hooks'[c]) = ToSet(hooks[c]) \cup {h}
        /\ \A d \in Registered : d # c => hooks'[d] = hooks[d]
    BY <2>1, <2>2, <2>4, CallEffect DEF LifeInv, Seen
  <2> HIDE DEF c
  <2>6. \A d \in Registered : Seen(d)' = (IF d = c THEN Seen(c) \cup {h} ELSE Seen(d))
    BY <2>5 DEF Seen
  <2>7. HandledHere'
    BY <1>1, <2>3 DEF LifeInv, HandledHere, Hook
  <2>8. HooksOrdered' /\ Distinct(components)'
    BY <1>1, <2>5 DEF LifeInv, HooksOrdered, Distinct
  <2>9. CalledHandled'
    <3>1. h \in handled
      BY <1>1 DEF LifeInv, HandledHere
    <3>2. \A d \in ToSet(components) : Seen(d) \subseteq handled
      BY DEF LifeInv, CalledHandled
    <3>3. ASSUME NEW d \in ToSet(components)
          PROVE  d \in Registered
      <4>1. PICK i \in 1..Len(components) : components[i] = d
        BY ToSetMember DEF ProcessTypeOK
      <4> QED BY <4>1, <1>2
    <3> QED BY <3>1, <3>2, <3>3, <2>6, <1>1 DEF CalledHandled
  <2>10. NotYetCalled'
    <3> SUFFICES ASSUME phase' \in Hook, NEW i \in 1..Len(components), i >= at'
                 PROVE  h \notin Seen(components[i])'
      BY <1>1, <2>3 DEF NotYetCalled, Hook
    <3>1. at' = at + 1
      BY <2>3 DEF Hook
    <3>2. i >= at /\ i # at
      BY <3>1, <2>1, <1>2
    <3>3. components[i] # c /\ components[i] \in Registered
      BY <3>2, <2>1, <1>2 DEF LifeInv, Distinct, c
    <3>4. h \notin Seen(components[i])
      BY <3>2, <1>1 DEF LifeInv, NotYetCalled
    <3>5. Seen(components[i])' = ToSet(hooks'[components[i]])
      BY <1>1 DEF Seen
    <3> QED BY <3>3, <3>4, <3>5, <2>5 DEF Seen
  <2>11. Forgotten'
    BY <1>1, <2>6 DEF LifeInv, Forgotten
  <2>12. Destroying'
    <3> SUFFICES ASSUME phase' = "pre_destroy", NEW i \in 1..Len(components), i < at'
                 PROVE  "pre_destroy" \in ToSet(hooks'[components[i]])
      BY <1>1 DEF Destroying, Seen
    <3>1. h = "pre_destroy" /\ at' = at + 1
      BY <2>3
    <3>2. CASE i = at
      BY <3>1, <3>2, <2>5 DEF c
    <3>3. CASE i # at
      <4>1. i < at
        BY <3>1, <3>3, <2>1, <1>2
      <4>2. "pre_destroy" \in Seen(components[i])
        BY <4>1, <3>1, <1>1 DEF LifeInv, Destroying
      <4>3. components[i] # c /\ components[i] \in Registered
        BY <3>3, <2>1, <1>2 DEF LifeInv, Distinct, c
      <4> QED BY <4>2, <4>3, <2>5 DEF Seen
    <3> QED BY <3>2, <3>3
  <2>13. AllDestroyed'
    <3>1. "pre_destroy" \notin handled \/ phase' = "pre_destroy"
      BY <1>1, <2>3 DEF LifeInv, HandledHere, Hook
    <3> QED BY <3>1, <1>1 DEF AllDestroyed
  <2>14. NoGameYet'
    <3> SUFFICES ASSUME phase' \in Early, NEW d \in Registered
                 PROVE  OfTheGame(d)' = {}
      BY DEF NoGameYet
    <3>1. h = "post_start"
      BY <2>3 DEF Early, Hook
    <3>2. OfTheGame(d) = {}
      BY <3>1, <1>1 DEF LifeInv, NoGameYet, Early
    <3>3. Seen(d)' \subseteq Seen(d) \cup {"post_start"}
      BY <2>6, <3>1
    <3> QED BY <3>2, <3>3 DEF OfTheGame
  <2>15. Spared'
    <3> SUFFICES ASSUME mode # "none", NEW d \in Registered, d \in Unsupported[mode]
                 PROVE  OfTheGame(d)' = {}
      BY <1>1 DEF Spared
    <3>1. OfTheGame(d) = {}
      BY DEF LifeInv, Spared
    <3>2. d = c => h \notin {"post_load", "post_unpack"}
      <4> SUFFICES ASSUME h \in {"post_load", "post_unpack"}
                   PROVE  c \notin Unsupported[mode]
        OBVIOUS
      <4>1. "post_load" \in handled /\ phase # "clean"
        BY <1>1 DEF LifeInv, HandledHere, Hook
      <4> QED BY <4>1, <2>1 DEF LifeInv, Cleaned
    <3> QED BY <3>1, <3>2, <2>6 DEF OfTheGame
  <2>16. Cleaning' /\ Cleaned'
    BY <1>1, <2>3 DEF LifeInv, Cleaning, Cleaned, Hook
  <2> QED BY <2>7, <2>8, <2>9, <2>10, <2>11, <2>12, <2>13, <2>14, <2>15, <2>16 DEF LifeInv
<1> QED BY <1>3, <1>4

\* clean: a component that does not support the mode is destroyed before a hook
\* of the game, and forgotten; the others stay in their order.
LEMMA CleanLife ==
  ASSUME ProcessTypeOK, LifeInv, clean
  PROVE  LifeInv'
<1>1. /\ phase = "clean" /\ handled' = handled /\ mode' = mode
      /\ is_initialized' = is_initialized /\ interrupted' = interrupted
  BY DEF clean
<1>2. Len(components) \in Nat /\ at \in Nat /\ at > 0 /\ \A i \in 1..Len(components) :
        components[i] \in ToSet(components) /\ components[i] \in Registered
  BY <1>1, LenProperties, ToSetMember, ElementOfSeq DEF ProcessTypeOK
<1>3. handled \subseteq {"post_start", "post_load"} /\ "post_load" \in handled /\ ~is_initialized
  BY <1>1 DEF LifeInv, HandledHere
<1>4. CASE at > Len(components)
  <2>1. phase' = "post_load" /\ hooks' = hooks /\ components' = components
    BY <1>4 DEF clean, Go
  <2>2. \A c : Seen(c)' = Seen(c) /\ OfTheGame(c)' = OfTheGame(c)
    BY <2>1 DEF Seen, OfTheGame
  <2>3. HandledHere'
    BY <1>1, <1>3, <2>1 DEF HandledHere, Hook
  <2>4. HooksOrdered' /\ Distinct(components)' /\ CalledHandled' /\ Forgotten'
    BY <1>1, <2>1, <2>2 DEF LifeInv, HooksOrdered, Distinct, CalledHandled, Forgotten
  <2>5. NotYetCalled'
    <3>1. \A c \in Registered : "post_load" \notin Seen(c)
      BY <1>1 DEF LifeInv, NoGameYet, OfTheGame, Early
    <3> QED BY <3>1, <2>1, <2>2, <1>2 DEF NotYetCalled
  <2>6. Destroying' /\ AllDestroyed'
    BY <1>1, <1>3, <2>1 DEF Destroying, AllDestroyed
  <2>7. NoGameYet' /\ Spared' /\ Cleaning'
    BY <1>1, <2>1, <2>2 DEF LifeInv, NoGameYet, Spared, Cleaning, Early
  <2>8. Cleaned'
    <3> SUFFICES ASSUME mode # "none", NEW c \in ToSet(components)
                 PROVE  c \notin Unsupported[mode]
      BY <1>1, <2>1 DEF Cleaned
    <3>1. PICK i \in 1..Len(components) : components[i] = c
      BY ToSetMember DEF ProcessTypeOK
    <3>2. i < at
      BY <1>2, <1>4, <3>1
    <3> QED BY <1>1, <3>1, <3>2 DEF LifeInv, Cleaning
  <2> QED BY <2>3, <2>4, <2>5, <2>6, <2>7, <2>8 DEF LifeInv
<1>5. CASE ~(at > Len(components)) /\ components[at] \in Unsupported[mode]
  <2>1. /\ hooks' = Called(components[at], "pre_destroy")
        /\ components' = RemoveAt(components, at) /\ phase' = "clean" /\ at' = at
    BY <1>1, <1>5 DEF clean
  <2>2. at \in 1..Len(components)
    BY <1>2, <1>5
  <2>3. PICK c \in Registered : c = components[at] /\ c \in ToSet(components)
    BY <1>2, <2>2
  <2>4. \A e \in Seen(c) : Rank(e) < Rank("pre_destroy")
    <3>1. Seen(c) \subseteq handled
      BY <2>3 DEF LifeInv, CalledHandled
    <3>2. \A e \in Seen(c) : e = "post_start" \/ e = "post_load"
      BY <3>1, <1>3
    <3> QED BY <3>2, HookRank
  <2>5. /\ \A d \in Registered : Ordered(hooks'[d])
        /\ \A d \in Registered : Seen(d)' = (IF d = c THEN Seen(c) \cup {"pre_destroy"} ELSE Seen(d))
    <3>1. "pre_destroy" \in Hook
      BY DEF Hook
    <3>2. /\ \A d \in Registered : Ordered(hooks'[d])
          /\ ToSet(hooks'[c]) = ToSet(hooks[c]) \cup {"pre_destroy"}
          /\ \A d \in Registered : d # c => hooks'[d] = hooks[d]
      BY <3>1, <2>1, <2>2, <2>3, <2>4, CallEffect DEF LifeInv, Seen
    <3> QED BY <3>2 DEF Seen
  <2>6. /\ components' \in Seq(Registered) /\ Len(components') = Len(components) - 1
        /\ \A k \in 1..Len(components) - 1 :
             components'[k] = IF k < at THEN components[k] ELSE components[k + 1]
        /\ \A e \in ToSet(components) : e = c \/ e \in ToSet(components')
        /\ ToSet(components') \subseteq ToSet(components)
    BY <2>1, <2>2, <2>3, RemoveElements DEF ProcessTypeOK
  <2>7. Distinct(components') /\ c \notin ToSet(components')
    BY <2>1, <2>2, <2>3, RemoveDistinct DEF ProcessTypeOK, LifeInv
  <2>8. HandledHere' /\ NotYetCalled' /\ Destroying' /\ AllDestroyed'
    BY <1>1, <1>3, <2>1 DEF HandledHere, NotYetCalled, Destroying, AllDestroyed, Hook
  <2>9. HooksOrdered'
    BY <2>5 DEF HooksOrdered
  <2>10. CalledHandled'
    <3> SUFFICES ASSUME NEW d \in ToSet(components')
                 PROVE  Seen(d)' \subseteq handled
      BY <1>1 DEF CalledHandled
    <3>1. d \in ToSet(components) /\ d # c
      BY <2>6, <2>7
    <3>2. PICK i \in 1..Len(components) : components[i] = d
      BY <3>1, ToSetMember DEF ProcessTypeOK
    <3> QED BY <3>1, <3>2, <1>2, <2>5 DEF LifeInv, CalledHandled
  <2>11. Forgotten'
    BY <2>5, <2>6 DEF LifeInv, Forgotten
  <2>12. NoGameYet' /\ Spared'
    <3>1. \A d \in Registered : OfTheGame(d) = {} /\ OfTheGame(d)' = OfTheGame(d)
      BY <1>1, <2>5 DEF LifeInv, NoGameYet, OfTheGame, Early
    <3> QED BY <3>1 DEF NoGameYet, Spared
  <2>13. Cleaning' /\ Cleaned'
    <3>1. \A i \in 1..Len(components') : i < at => components'[i] = components[i] /\ i \in 1..Len(components)
      BY <2>2, <2>6, <1>2
    <3> QED BY <3>1, <1>1, <2>1 DEF LifeInv, Cleaning, Cleaned
  <2> QED BY <2>7, <2>8, <2>9, <2>10, <2>11, <2>12, <2>13 DEF LifeInv
<1>6. CASE ~(at > Len(components)) /\ components[at] \notin Unsupported[mode]
  <2>1. at' = at + 1 /\ phase' = phase /\ components' = components /\ hooks' = hooks
    BY <1>6 DEF clean
  <2>2. \A c : Seen(c)' = Seen(c) /\ OfTheGame(c)' = OfTheGame(c)
    BY <2>1 DEF Seen, OfTheGame
  <2>3. HandledHere' /\ HooksOrdered' /\ Distinct(components)'
    BY <1>1, <2>1 DEF LifeInv, HandledHere, HooksOrdered, Distinct
  <2>4. CalledHandled' /\ NotYetCalled' /\ Forgotten' /\ Destroying' /\ AllDestroyed'
    BY <1>1, <1>3, <2>1, <2>2 DEF LifeInv, CalledHandled, NotYetCalled, Forgotten, Destroying, AllDestroyed, Hook
  <2>5. NoGameYet' /\ Spared' /\ Cleaned'
    BY <1>1, <2>1, <2>2 DEF LifeInv, NoGameYet, Spared, Cleaned
  <2>6. Cleaning'
    <3>1. \A i \in 1..Len(components) : i < at + 1 => i < at \/ i = at
      BY <1>2
    <3> QED BY <3>1, <1>1, <1>6, <2>1 DEF LifeInv, Cleaning
  <2> QED BY <2>3, <2>4, <2>5, <2>6 DEF LifeInv
<1> QED BY <1>4, <1>5, <1>6

\* Steps that call nothing and forget nothing: the main thread goes on.
LEMMA QuietLife ==
  ASSUME ProcessTypeOK, LifeInv, UNCHANGED <<components, handled, hooks>>, HandledHere',
         phase' \notin Hook \cup {"clean"} \/ (phase' = phase /\ at' = at),
         phase' \in Early => phase \in Early,
         mode' = mode \/ phase \in Early \ {"clean"},
         interrupted => interrupted',
         phase = "clean" => phase' = "clean",
         phase = "pre_destroy" => phase' \in {"pre_destroy", "terminated"} \/ interrupted',
         phase = "terminated" => phase' = "terminated"
  PROVE  LifeInv'
<1>1. components' = components /\ handled' = handled /\ hooks' = hooks
  OBVIOUS
<1>2. \A c : Seen(c)' = Seen(c) /\ OfTheGame(c)' = OfTheGame(c)
  BY <1>1 DEF Seen, OfTheGame
<1>3. HooksOrdered' /\ Distinct(components)' /\ CalledHandled' /\ Forgotten'
  BY <1>1, <1>2 DEF LifeInv, HooksOrdered, Distinct, CalledHandled, Forgotten
<1>4. NotYetCalled' /\ Destroying'
  BY <1>1, <1>2 DEF LifeInv, NotYetCalled, Destroying, Hook
<1>5. AllDestroyed'
  BY <1>1, <1>2 DEF LifeInv, AllDestroyed
<1>6. NoGameYet'
  BY <1>1, <1>2 DEF LifeInv, NoGameYet
<1>7. Spared'
  <2>1. CASE mode' = mode
    BY <2>1, <1>2 DEF LifeInv, Spared
  <2>2. CASE phase \in Early
    BY <2>2, <1>2 DEF LifeInv, NoGameYet, Spared
  <2> QED BY <2>1, <2>2
<1>8. Cleaning' /\ Cleaned'
  <2>1. CASE mode' = mode
    <3>1. Cleaning'
      BY <2>1, <1>1 DEF LifeInv, Cleaning
    <3>2. Cleaned'
      BY <2>1, <1>1 DEF LifeInv, Cleaned
    <3> QED BY <3>1, <3>2
  <2>2. CASE mode' # mode
    <3>1. phase \in Early \ {"clean"} /\ "post_load" \notin handled
      BY <2>2 DEF LifeInv, HandledHere, Early
    <3>2. phase' # "clean"
      BY <3>1, <1>1 DEF HandledHere
    <3> QED BY <3>1, <3>2, <1>1 DEF Cleaning, Cleaned
  <2> QED BY <2>1, <2>2
<1> QED BY <1>3, <1>4, <1>5, <1>6, <1>7, <1>8 DEF LifeInv

LEMMA StepLife == ProcessTypeOK /\ LifeInv /\ [ProcessNext]_processVars => LifeInv'
<1> SUFFICES ASSUME ProcessTypeOK, LifeInv, [ProcessNext]_processVars PROVE LifeInv'
  OBVIOUS
<1>1. CASE post_start
  BY <1>1, BeginLife, CallLife DEF post_start, Hook
<1>2. CASE post_load
  BY <1>2, BeginLife, CallLife, CleanLife DEF post_load, Hook
<1>3. CASE post_unpack
  BY <1>3, BeginLife, CallLife DEF post_unpack, Hook
<1>4. CASE pre_destroy
  <2>1. CASE phase = "destroy" /\ "pre_destroy" \in handled /\ Go("exit")
             /\ UNCHANGED <<components, handled, mode, windows, hooks, recovery, is_initialized, interrupted>>
    <3>1. HandledHere'
      BY <2>1 DEF LifeInv, HandledHere, Go, Hook
    <3> QED BY <2>1, <3>1, QuietLife DEF Go, Hook, Early
  <2> QED BY <1>4, <2>1, BeginLife, CallLife DEF pre_destroy, Hook
<1>5. ASSUME NEW m \in Mode \cup {"none"}, detect_mode_from_arguments(m)
      PROVE  LifeInv'
  <2>1. /\ UNCHANGED <<components, handled, hooks, is_initialized, interrupted>>
        /\ phase = "detect" /\ phase' \in {"launcher", "binary"}
    BY <1>5 DEF detect_mode_from_arguments, Becomes, Go
  <2>2. HandledHere'
    BY <2>1 DEF LifeInv, HandledHere, Hook
  <2> QED BY <2>1, <2>2, QuietLife DEF Hook, Early
<1>6. CASE create_main_menu \/ close_all \/ \E m \in Mode : select_mode(m)
  <2>1. /\ UNCHANGED <<components, handled, hooks, is_initialized, interrupted>>
        /\ phase \in {"launcher", "message loop"} /\ phase' = "message loop"
    BY <1>6 DEF create_main_menu, close_all, select_mode
  <2>2. HandledHere'
    BY <2>1 DEF LifeInv, HandledHere, Hook
  <2> QED BY <2>1, <2>2, QuietLife DEF Hook, Early
<1>7. CASE run \/ load_binary \/ exit_hook
  <2>1. /\ UNCHANGED <<components, handled, mode, hooks, is_initialized, interrupted>>
        /\ \/ phase = "message loop" /\ phase' \in {"binary", "destroy"}
           \/ phase = "binary" /\ phase' \in {"load", "destroy"}
           \/ phase \in {"game", "post_unpack"} /\ phase' = "destroy"
    BY <1>7 DEF run, load_binary, exit_hook, Go, Leave
  <2>2. HandledHere'
    BY <2>1 DEF LifeInv, HandledHere, Hook
  <2> QED BY <2>1, <2>2, QuietLife DEF Hook, Early
<1>8. CASE SetInitialized \/ MinutePasses
  <2>1. /\ UNCHANGED <<phase, at, components, handled, mode, hooks, interrupted>>
        /\ is_initialized' => is_initialized \/ "post_unpack" \in handled
    BY <1>8 DEF SetInitialized, MinutePasses
  <2>2. HandledHere'
    BY <2>1 DEF LifeInv, HandledHere
  <2> QED BY <2>1, <2>2, QuietLife DEF Hook, Early
<1>9. ASSUME NEW game_thread \in BOOLEAN, NEW legacy \in BOOLEAN, reset_state(game_thread, legacy)
      PROVE  LifeInv'
  <2>1. /\ UNCHANGED <<components, handled, mode, hooks, is_initialized>>
        /\ "post_load" \in handled /\ phase \in {"game", "post_unpack", "pre_destroy"}
        /\ \/ /\ phase' = "game" /\ is_initialized
              /\ interrupted' = (interrupted \/ phase = "pre_destroy")
           \/ phase' = "terminated" /\ interrupted' = interrupted
    BY <1>9, Zenon DEF reset_state, Go, is_recoverable
  <2>2. is_initialized => "post_unpack" \in handled
    BY DEF LifeInv, HandledHere
  <2>3. HandledHere'
    <3>1. CASE phase' = "game"
      BY <2>1, <2>2, <3>1, Zenon DEF HandledHere, Hook
    <3>2. CASE phase' = "terminated"
      BY <2>1, <2>2, <3>2, Zenon DEF HandledHere, Hook
    <3> QED BY <2>1, <3>1, <3>2
  <2>4. interrupted => interrupted'
    BY <2>1, Zenon
  <2>5. phase = "pre_destroy" => phase' = "terminated" \/ interrupted'
    BY <2>1, Zenon
  <2> QED BY <2>1, <2>3, <2>4, <2>5, QuietLife DEF Hook, Early
<1>10. CASE UNCHANGED processVars
  <2>1. UNCHANGED <<phase, at, components, handled, mode, hooks, is_initialized, interrupted>>
    BY <1>10 DEF processVars
  <2>2. HandledHere'
    BY <2>1 DEF LifeInv, HandledHere
  <2> QED BY <2>1, <2>2, QuietLife DEF Hook, Early
<1> QED BY <1>1, <1>2, <1>3, <1>4, <1>5, <1>6, <1>7, <1>8, <1>9, <1>10 DEF ProcessNext

\* Whatever ends the process, throws or crashes, for any components and modes:
\* a component sees each of its hooks at most once and in their order, none of
\* the game's if the mode is not supported, and is destroyed before the process
\* exits unless a crash was recovered from in the middle of that (main.cpp,
\* component_loader.cpp, exception.cpp).
THEOREM ComponentsDestroyedOnce == ProcessSpec => []DestroyedOnce
<1>1. ProcessTypeOK /\ LifeInv => DestroyedOnce
  <2> SUFFICES ASSUME ProcessTypeOK, LifeInv, NEW c \in DOMAIN hooks
               PROVE  /\ Ordered(hooks[c])
                      /\ mode # "none" /\ c \in Unsupported[mode] => OfTheGame(c) = {}
                      /\ phase = "exit" /\ ~interrupted => "pre_destroy" \in Seen(c)
    BY DEF DestroyedOnce, Ordered, OfTheGame, Seen
  <2>1. c \in Registered
    BY DEF ProcessTypeOK
  <2>2. Ordered(hooks[c])
    BY <2>1 DEF LifeInv, HooksOrdered
  <2>3. mode # "none" /\ c \in Unsupported[mode] => OfTheGame(c) = {}
    BY <2>1 DEF LifeInv, Spared
  <2>4. phase = "exit" /\ ~interrupted => "pre_destroy" \in Seen(c)
    BY <2>1 DEF LifeInv, AllDestroyed, HandledHere
  <2> QED BY <2>2, <2>3, <2>4
<1> QED BY <1>1, InitialTypes, StepTypes, InitialLife, StepLife, PTL DEF ProcessSpec
-----------------------------------------------------------------------------
(* Dedicated: rising sequences.                                            *)

Rising(s) == \A i, k \in 1..Len(s) : i < k => s[i] < s[k]

\* A rising sequence stays one when a greater number is appended.
LEMMA AppendRising ==
  ASSUME NEW s \in Seq(Int), NEW n \in Int, Rising(s), \A c \in ToSet(s) : c < n
  PROVE  Rising(Append(s, n))
<1>1. /\ Len(Append(s, n)) = Len(s) + 1 /\ Append(s, n)[Len(s) + 1] = n
      /\ \A k \in 1..Len(s) : Append(s, n)[k] = s[k]
  BY AppendElements
<1>2. Len(s) \in Nat /\ \A k \in 1..Len(s) : s[k] < n
  BY ToSetMember
<1> SUFFICES ASSUME NEW i \in 1..Len(s) + 1, NEW k \in 1..Len(s) + 1, i < k
             PROVE  Append(s, n)[i] < Append(s, n)[k]
  BY <1>1 DEF Rising
<1>3. i \in 1..Len(s)
  BY <1>2
<1>4. CASE k = Len(s) + 1
  BY <1>1, <1>2, <1>3, <1>4
<1>5. CASE k \in 1..Len(s)
  BY <1>1, <1>3, <1>5 DEF Rising
<1> QED
  BY <1>2, <1>4, <1>5

\* The empty sequence has no element.
LEMMA NoElements ==
  Len(<<>>) = 0 /\ DOMAIN <<>> = {} /\ ToSet(<<>>) = {}
BY DEF ToSet

\* What is joined to a sequence in rising order stands in it once and in order.
LEMMA JoinRising ==
  ASSUME NEW e \in Seq(Int), NEW q \in Seq(Int), Distinct(e), Rising(q),
         ToSet(e) \cap ToSet(q) = {}
  PROVE  /\ Distinct(e \o q)
         /\ \A c, d \in ToSet(q), j \in 1..Len(e \o q) :
              c < d /\ (e \o q)[j] = d => \E i \in 1..j - 1 : (e \o q)[i] = c
<1> DEFINE u == e \o q
<1>1. /\ Len(u) = Len(e) + Len(q)
      /\ \A k \in 1..Len(e) : u[k] = e[k] /\ e[k] \in ToSet(e)
      /\ \A k \in 1..Len(q) : u[Len(e) + k] = q[k] /\ q[k] \in ToSet(q)
  BY ConcatElements, ToSetMember
<1>2. Len(e) \in Nat /\ Len(q) \in Nat
  BY LenProperties
<1>3. \A k \in 1..Len(q) : q[k] \in Int
  OBVIOUS
<1> HIDE DEF u
<1>4. ASSUME NEW j \in 1..Len(u)
      PROVE  \/ j \in 1..Len(e) /\ u[j] = e[j] /\ u[j] \in ToSet(e)
             \/ \E k \in 1..Len(q) : j = Len(e) + k /\ u[j] = q[k] /\ u[j] \in ToSet(q)
  <2>1. CASE j <= Len(e)
    BY <1>1, <1>2, <2>1
  <2>2. CASE j > Len(e)
    <3>1. j - Len(e) \in 1..Len(q) /\ j = Len(e) + (j - Len(e))
      BY <1>1, <1>2, <2>2
    <3> QED
      BY <1>1, <3>1
  <2> QED
    BY <1>2, <2>1, <2>2
<1>5. ASSUME NEW j \in 1..Len(u), NEW l \in 1..Len(u), u[j] = u[l]
      PROVE  j = l
  <2>1. CASE u[j] \in ToSet(e)
    <3>1. j \in 1..Len(e) /\ l \in 1..Len(e) /\ e[j] = e[l]
      BY <1>4, <1>5, <2>1
    <3> QED
      BY <3>1 DEF Distinct
  <2>2. CASE u[j] \in ToSet(q)
    <3>1. PICK k \in 1..Len(q) : j = Len(e) + k /\ u[j] = q[k]
      BY <1>4, <2>2
    <3>2. PICK m \in 1..Len(q) : l = Len(e) + m /\ u[l] = q[m]
      BY <1>4, <1>5, <2>2
    <3>3. q[k] = q[m] /\ ~(q[k] < q[m]) /\ ~(q[m] < q[k])
      BY <1>3, <1>5, <3>1, <3>2
    <3>4. k = m
      BY <3>3, <1>2 DEF Rising
    <3> QED
      BY <3>1, <3>2, <3>4
  <2> QED
    BY <1>4, <2>1, <2>2
<1>6. ASSUME NEW c \in ToSet(q), NEW d \in ToSet(q), NEW j \in 1..Len(u), c < d, u[j] = d
      PROVE  \E i \in 1..j - 1 : u[i] = c
  <2>1. PICK k \in 1..Len(q) : j = Len(e) + k /\ q[k] = d
    BY <1>4, <1>6
  <2>2. PICK m \in 1..Len(q) : q[m] = c
    BY ToSetMember
  <2>3. m < k
    <3>1. ~(q[k] < q[m]) /\ q[k] # q[m]
      BY <1>3, <1>6, <2>1, <2>2
    <3> QED
      BY <3>1, <1>2 DEF Rising
  <2>4. Len(e) + m \in 1..j - 1 /\ u[Len(e) + m] = c
    BY <1>1, <1>2, <2>1, <2>2, <2>3
  <2> QED
    BY <2>4
<1> QED
  BY <1>5, <1>6 DEF u, Distinct

-----------------------------------------------------------------------------
(* The invariant.                                                          *)

\* The commands that wait, in the order in which FlushQueues executes them.
PutOffCommands == startup_command_queue \o console_command_queue

\* Until the initialization the commands that wait are those put off so far;
\* the console is served only when the command line has been gone through.
EarlyWaits ==
  ~initialized =>
    /\ early = ToSet(PutOffCommands)
    /\ Rising(PutOffCommands)
    /\ booting => console_command_queue = <<>>

\* Afterwards they have all been executed.
EarlyDone == initialized => early \subseteq ToSet(executed)

\* Numbers are given in turn: the next one is new everywhere.
NumbersGiven == \A c \in early \cup ToSet(executed) \cup ToSet(PutOffCommands) : c <= given

DedicatedInv ==
  /\ DedicatedTypeOK
  /\ booting => callback = "polling"
  /\ EarlyWaits
  /\ EarlyDone
  /\ NumbersGiven
  /\ Distinct(executed)
  /\ ToSet(executed) \cap ToSet(PutOffCommands) = {}
  /\ EarlyInOrder

LEMMA WaitingType ==
  ASSUME DedicatedTypeOK
  PROVE  /\ PutOffCommands \in Seq(Command)
         /\ ToSet(PutOffCommands) = ToSet(startup_command_queue) \cup ToSet(console_command_queue)
         /\ ToSet(PutOffCommands) \subseteq Command /\ ToSet(executed) \subseteq Command
         /\ Command \subseteq Int
         /\ PutOffCommands \in Seq(Int) /\ executed \in Seq(Int)
<1>1. PutOffCommands \in Seq(Command) /\
      ToSet(PutOffCommands) = ToSet(startup_command_queue) \cup ToSet(console_command_queue)
  BY ConcatElements DEF DedicatedTypeOK, PutOffCommands
<1>2. ToSet(PutOffCommands) \subseteq Command /\ ToSet(executed) \subseteq Command
  BY <1>1, ToSetType DEF DedicatedTypeOK
<1>3. Command \subseteq Int
  BY DedicatedAssumption DEF Command
<1>4. ASSUME NEW q \in Seq(Command)
      PROVE  q \in Seq(Int)
  <2>1. Len(q) \in Nat /\ q \in [1..Len(q) -> Command]
    OBVIOUS
  <2>2. q \in [1..Len(q) -> Int]
    BY <1>3, <2>1
  <2> QED
    BY <2>1, <2>2, FunctionIsSeq
<1> QED
  BY <1>1, <1>2, <1>3, <1>4 DEF DedicatedTypeOK

LEMMA DedicatedStarts ==
  DedicatedInit => DedicatedInv
<1> SUFFICES ASSUME DedicatedInit PROVE DedicatedInv
  OBVIOUS
<1> USE DEF DedicatedInit
<1>1. DedicatedTypeOK
  <2>1. syncing \in BOOLEAN /\ database \in BOOLEAN /\ booting \in BOOLEAN
    BY Zenon
  <2>2. given \in 0..MaxCommands
    BY DedicatedAssumption
  <2>3. <<>> \in Seq(Command)
    OBVIOUS
  <2> QED
    BY <2>1, <2>2, <2>3 DEF DedicatedTypeOK
<1>2. PutOffCommands = <<>> /\ Len(PutOffCommands) = 0 /\ ToSet(PutOffCommands) = {}
  <2>1. PutOffCommands = <<>>
    BY <1>1, ConcatEmptySeq DEF PutOffCommands, DedicatedTypeOK
  <2> QED
    BY <2>1, NoElements
<1>3. Len(executed) = 0 /\ ToSet(executed) = {} /\ DOMAIN executed = {}
  BY NoElements
<1>4. EarlyWaits
  BY <1>2 DEF EarlyWaits, Rising
<1>5. EarlyDone /\ NumbersGiven /\ Distinct(executed) /\ EarlyInOrder
  BY <1>2, <1>3 DEF EarlyDone, NumbersGiven, Distinct, EarlyInOrder
<1> QED
  BY <1>1, <1>2, <1>3, <1>4, <1>5 DEF DedicatedInv

\* A command that is put off: it waits behind all others.
LEMMA PutOffKeeps ==
  ASSUME DedicatedInv, syncing, Give,
         PutOffCommands' = Append(PutOffCommands, given'), DedicatedTypeOK',
         UNCHANGED <<callback, booting>>,
         booting => console_command_queue' = <<>>
  PROVE  DedicatedInv'
<1>1. /\ PutOffCommands \in Seq(Int) /\ executed \in Seq(Int) /\ ToSet(PutOffCommands) \subseteq Int
      /\ ToSet(executed) \subseteq Int
  BY WaitingType DEF DedicatedInv
<1>2. given \in Int /\ given' = given + 1 /\ UNCHANGED executed
      /\ early' = IF initialized THEN early ELSE early \cup {given'}
  BY DedicatedAssumption DEF Give, DedicatedInv, DedicatedTypeOK
<1>3. given' \in Int /\ initialized' = initialized
  BY <1>2 DEF initialized
<1>4. ToSet(PutOffCommands') = ToSet(PutOffCommands) \cup {given'}
  BY <1>1, <1>3, AppendElements
<1>5. /\ \A c \in ToSet(PutOffCommands) : c < given'
      /\ \A c \in ToSet(executed) : c < given'
      /\ \A c \in early : c < given' /\ c \in Int
  <2>1. early \subseteq Int
    BY WaitingType DEF DedicatedInv, DedicatedTypeOK
  <2> QED
    BY <1>1, <1>2, <2>1 DEF DedicatedInv, NumbersGiven
<1>6. EarlyWaits'
  <2>1. ASSUME ~initialized
        PROVE  /\ early' = ToSet(PutOffCommands')
               /\ Rising(PutOffCommands')
               /\ booting => console_command_queue' = <<>>
    <3>1. early' = ToSet(PutOffCommands')
      BY <2>1, <1>2, <1>4 DEF DedicatedInv, EarlyWaits
    <3>2. Rising(Append(PutOffCommands, given'))
      BY <2>1, <1>1, <1>3, <1>5, AppendRising DEF DedicatedInv, EarlyWaits
    <3> QED
      BY <3>1, <3>2
  <2> QED
    BY <2>1, <1>3 DEF EarlyWaits
<1>7. EarlyDone'
  BY <1>2, <1>3 DEF DedicatedInv, EarlyDone
<1>8. NumbersGiven'
  <2>1. \A c \in early' \cup ToSet(executed') \cup ToSet(PutOffCommands') :
          c = given' \/ (c \in Int /\ c < given')
    BY <1>1, <1>2, <1>4, <1>5
  <2> QED
    BY <1>3, <2>1 DEF NumbersGiven
<1>9. Distinct(executed') /\ ToSet(executed') \cap ToSet(PutOffCommands') = {}
  BY <1>1, <1>2, <1>3, <1>4, <1>5 DEF DedicatedInv
<1>10. EarlyInOrder'
  <2>1. ASSUME NEW c \in early', NEW d \in early', NEW j \in DOMAIN executed,
               c < d, executed[j] = d
        PROVE  \E i \in 1..j - 1 : executed[i] = c
    <3>1. d \in ToSet(executed)
      BY <2>1, <1>1, ToSetMember
    <3>2. d # given' /\ c # given'
      BY <3>1, <1>1, <1>3, <1>5, <2>1
    <3>3. c \in early /\ d \in early
      BY <1>2, <3>2
    <3> QED
      BY <2>1, <3>3 DEF DedicatedInv, EarlyInOrder
  <2> QED
    BY <2>1, <1>2 DEF EarlyInOrder
<1> QED
  BY <1>6, <1>7, <1>8, <1>9, <1>10 DEF DedicatedInv

\* A command that is executed at once: none of those put off.
LEMMA ExecutedKeeps ==
  ASSUME DedicatedInv, ~syncing, Give, DedicatedTypeOK',
         UNCHANGED <<queueVars, callback, booting>>
  PROVE  DedicatedInv'
<1>1. /\ PutOffCommands \in Seq(Int) /\ executed \in Seq(Int) /\ ToSet(PutOffCommands) \subseteq Int
      /\ ToSet(executed) \subseteq Int
  BY WaitingType DEF DedicatedInv
<1>2. given \in Int /\ given' = given + 1 /\ executed' = Append(executed, given')
      /\ UNCHANGED early
  BY DedicatedAssumption DEF Give, DedicatedInv, DedicatedTypeOK
<1>3. given' \in Int /\ initialized' = initialized /\ PutOffCommands' = PutOffCommands
  BY <1>2 DEF initialized, PutOffCommands, queueVars
<1>4. /\ \A c \in ToSet(PutOffCommands) : c < given'
      /\ \A c \in ToSet(executed) : c < given'
      /\ \A c \in early : c < given' /\ c \in Int
  <2>1. early \subseteq Int
    BY WaitingType DEF DedicatedInv, DedicatedTypeOK
  <2> QED
    BY <1>1, <1>2, <2>1 DEF DedicatedInv, NumbersGiven
<1>5. /\ Len(executed') = Len(executed) + 1 /\ executed'[Len(executed) + 1] = given'
      /\ \A k \in 1..Len(executed) : executed'[k] = executed[k]
      /\ ToSet(executed') = ToSet(executed) \cup {given'}
      /\ DOMAIN executed' = 1..Len(executed) + 1
      /\ DOMAIN executed = 1..Len(executed) /\ Len(executed) \in Nat
  <2>1. \A n \in Int :
          /\ Append(executed, n) \in Seq(Int) /\ Len(Append(executed, n)) = Len(executed) + 1
          /\ Append(executed, n)[Len(executed) + 1] = n
          /\ \A k \in 1..Len(executed) : Append(executed, n)[k] = executed[k]
          /\ ToSet(Append(executed, n)) = ToSet(executed) \cup {n}
    BY <1>1, AppendElements
  <2>2. /\ executed' \in Seq(Int) /\ Len(executed') = Len(executed) + 1
        /\ executed'[Len(executed) + 1] = given'
        /\ \A k \in 1..Len(executed) : executed'[k] = executed[k]
        /\ ToSet(executed') = ToSet(executed) \cup {given'}
    BY <1>2, <1>3, <2>1, Zenon
  <2>3. DOMAIN executed' = 1..Len(executed')
    BY <2>2
  <2> QED
    BY <1>1, <2>2, <2>3
<1>6. EarlyWaits'
  BY <1>2, <1>3 DEF DedicatedInv, EarlyWaits, queueVars
<1>7. EarlyDone'
  BY <1>2, <1>3, <1>5 DEF DedicatedInv, EarlyDone
<1>8. NumbersGiven'
  <2>1. \A c \in early' \cup ToSet(executed') \cup ToSet(PutOffCommands') :
          c = given' \/ (c \in Int /\ c < given')
    BY <1>1, <1>2, <1>3, <1>4, <1>5
  <2> QED
    BY <1>3, <2>1 DEF NumbersGiven
<1>9. Distinct(executed')
  <2>1. \A k \in 1..Len(executed) : executed[k] \in ToSet(executed)
    BY <1>1, ToSetMember
  <2>2. \A c \in ToSet(executed) : c # given'
    BY <1>1, <1>3, <1>4
  <2> QED
    BY <1>5, <2>1, <2>2 DEF DedicatedInv, Distinct
<1>10. ToSet(executed') \cap ToSet(PutOffCommands') = {}
  BY <1>1, <1>3, <1>4, <1>5 DEF DedicatedInv
<1>11. EarlyInOrder'
  <2>1. ASSUME NEW c \in early, NEW d \in early, NEW j \in DOMAIN executed',
               c < d, executed'[j] = d
        PROVE  \E i \in 1..j - 1 : executed'[i] = c
    <3>1. d # given'
      BY <1>3, <1>4
    <3>2. j \in DOMAIN executed /\ executed[j] = d
      BY <1>5, <2>1, <3>1
    <3>3. PICK i \in 1..j - 1 : executed[i] = c
      BY <2>1, <3>2 DEF DedicatedInv, EarlyInOrder
    <3>4. executed'[i] = c
      BY <1>5, <3>2, <3>3
    <3> QED
      BY <3>4
  <2> QED
    BY <2>1, <1>2 DEF EarlyInOrder
<1> QED
  BY <1>3, <1>6, <1>7, <1>8, <1>9, <1>10, <1>11 DEF DedicatedInv

\* The initialization executes what waits, behind what was executed before.
LEMMA InitializeKeeps ==
  ASSUME DedicatedInv, Initialize, DedicatedTypeOK'
  PROVE  DedicatedInv'
<1> USE DEF Initialize, FlushQueues
<1>1. /\ PutOffCommands \in Seq(Int) /\ executed \in Seq(Int)
      /\ startup_command_queue \in Seq(Command) /\ console_command_queue \in Seq(Command)
      /\ executed \in Seq(Command)
  BY WaitingType DEF DedicatedInv, DedicatedTypeOK
<1>2. executed' = executed \o PutOffCommands
  <2>1. \A q, s, c \in Seq(Command) : (q \o s) \o c = q \o (s \o c)
    BY ConcatAssociative
  <2> QED
    BY <1>1, <2>1, Zenon DEF PutOffCommands
<1>3. ToSet(executed') = ToSet(executed) \cup ToSet(PutOffCommands)
  BY <1>1, <1>2, ConcatElements
<1>4. PutOffCommands' = <<>> /\ ToSet(PutOffCommands') = {}
  <2>1. PutOffCommands' = <<>>
    BY ConcatEmptySeq DEF PutOffCommands
  <2> QED
    BY <2>1, NoElements
<1>5. ~initialized /\ initialized' /\ ~booting /\ ~booting'
  BY DEF initialized, DedicatedInv
<1>6. early = ToSet(PutOffCommands) /\ Rising(PutOffCommands)
  BY <1>5 DEF DedicatedInv, EarlyWaits
<1>7. /\ Distinct(executed')
      /\ \A c, d \in ToSet(PutOffCommands), j \in 1..Len(executed') :
           c < d /\ executed'[j] = d => \E i \in 1..j - 1 : executed'[i] = c
  <2>1. Distinct(executed) /\ ToSet(executed) \cap ToSet(PutOffCommands) = {}
    BY DEF DedicatedInv
  <2>2. /\ Distinct(executed \o PutOffCommands)
        /\ \A c, d \in ToSet(PutOffCommands), j \in 1..Len(executed \o PutOffCommands) :
             c < d /\ (executed \o PutOffCommands)[j] = d
               => \E i \in 1..j - 1 : (executed \o PutOffCommands)[i] = c
    BY <1>1, <1>6, <2>1, JoinRising
  <2> QED
    BY <1>2, <2>2, Zenon
<1>8. DOMAIN executed' = 1..Len(executed')
  BY DEF DedicatedTypeOK
<1>9. EarlyInOrder'
  BY <1>6, <1>7, <1>8 DEF EarlyInOrder
<1>10. EarlyWaits' /\ EarlyDone' /\ NumbersGiven'
  BY <1>3, <1>4, <1>5, <1>6 DEF EarlyWaits, EarlyDone, NumbersGiven, DedicatedInv
<1> QED
  BY <1>4, <1>5, <1>7, <1>9, <1>10 DEF DedicatedInv

LEMMA DedicatedTypeStep ==
  ASSUME DedicatedTypeOK, [DedicatedNext]_dedicatedVars
  PROVE  DedicatedTypeOK'
<1> USE DEF DedicatedTypeOK
<1>0. Give => given' \in Command /\ given' \in 0..MaxCommands
  BY DedicatedAssumption DEF Give, Command
<1>1. ASSUME Give
      PROVE  /\ given' \in 0..MaxCommands /\ early' \subseteq Command /\ executed' \in Seq(Command)
             /\ \A q \in Seq(Command) : PutOff(q) \in Seq(Command)
  <2>1. early' \subseteq Command
    BY <1>0, <1>1 DEF Give
  <2>2. executed' \in Seq(Command)
    <3>1. given' \in Command
      BY <1>0, <1>1
    <3>2. Append(executed, given') \in Seq(Command)
      BY <3>1, AppendElements
    <3>3. executed' = executed \/ executed' = Append(executed, given')
      BY <1>1 DEF Give
    <3> QED BY <3>2, <3>3, Zenon
  <2>3. \A q \in Seq(Command) : PutOff(q) \in Seq(Command)
    BY <1>0, <1>1, AppendElements DEF PutOff
  <2> QED
    BY <1>0, <1>1, <2>1, <2>2, <2>3
<1>2. CASE execute_startup_command
  BY <1>1, <1>2 DEF execute_startup_command, gameVars
<1>3. CASE FirstFrame
  BY <1>3 DEF FirstFrame, gameVars, queueVars
<1>4. CASE execute_console_command
  BY <1>0, <1>1, <1>4 DEF execute_console_command, gameVars
<1>5. CASE GameInitialized
  BY <1>5 DEF GameInitialized, gameVars, queueVars
<1>6. CASE Initialize
  <2>1. executed' \in Seq(Command)
    BY <1>6, ConcatElements DEF Initialize, FlushQueues
  <2> QED
    BY <1>6, <2>1 DEF Initialize, FlushQueues, gameVars
<1>7. CASE OnlineDataFlags
  BY <1>7 DEF OnlineDataFlags, queueVars
<1>8. CASE Database
  BY <1>8 DEF Database, queueVars
<1>9. CASE UNCHANGED dedicatedVars
  BY <1>9 DEF dedicatedVars, gameVars, queueVars
<1> QED
  BY <1>2, <1>3, <1>4, <1>5, <1>6, <1>7, <1>8, <1>9 DEF DedicatedNext

\* Steps that give and execute nothing.
LEMMA SameDedicated ==
  ASSUME DedicatedInv, DedicatedTypeOK', UNCHANGED <<queueVars, given, early, executed>>,
         initialized' = initialized,
         booting' => booting, booting' => callback' = "polling"
  PROVE  DedicatedInv'
<1>1. PutOffCommands' = PutOffCommands /\ UNCHANGED console_command_queue
  BY DEF PutOffCommands, queueVars
<1>2. EarlyWaits'
  BY <1>1 DEF DedicatedInv, EarlyWaits
<1>3. EarlyDone' /\ NumbersGiven' /\ Distinct(executed') /\ EarlyInOrder'
  BY <1>1 DEF DedicatedInv, EarlyDone, NumbersGiven, EarlyInOrder
<1> QED
  BY <1>1, <1>2, <1>3 DEF DedicatedInv

LEMMA DedicatedStep ==
  ASSUME DedicatedInv, [DedicatedNext]_dedicatedVars
  PROVE  DedicatedInv'
<1>1. DedicatedTypeOK /\ DedicatedTypeOK'
  BY DedicatedTypeStep DEF DedicatedInv
<1>2. /\ startup_command_queue \in Seq(Command) /\ console_command_queue \in Seq(Command)
      /\ PutOffCommands \in Seq(Command)
  BY <1>1, WaitingType DEF DedicatedTypeOK
<1>3. Give => given' \in Command
  BY <1>1, DedicatedAssumption DEF DedicatedTypeOK, Give, Command
<1>4. CASE execute_startup_command
  <2> USE <1>4 DEF execute_startup_command
  <2>1. CASE ~syncing
    BY <1>1, <2>1, ExecutedKeeps DEF PutOff, queueVars
  <2>2. CASE syncing
    <3>1. console_command_queue = <<>> /\ console_command_queue' = <<>>
      BY DEF DedicatedInv, EarlyWaits, initialized
    <3>2. startup_command_queue' = Append(startup_command_queue, given')
      BY <2>2 DEF PutOff
    <3>3. Append(startup_command_queue, given') \in Seq(Command)
      BY <1>2, <1>3, AppendElements
    <3>4. PutOffCommands = startup_command_queue /\ PutOffCommands' = startup_command_queue'
      BY <1>2, <3>1, <3>2, <3>3, ConcatEmptySeq DEF PutOffCommands
    <3> QED
      BY <1>1, <2>2, <3>1, <3>2, <3>4, PutOffKeeps
  <2> QED
    BY <2>1, <2>2
<1>5. CASE execute_console_command
  <2> USE <1>5 DEF execute_console_command
  <2>1. CASE ~syncing
    BY <1>1, <2>1, ExecutedKeeps DEF PutOff, queueVars
  <2>2. CASE syncing
    <3>1. /\ console_command_queue' = Append(console_command_queue, given')
          /\ UNCHANGED startup_command_queue
      BY <2>2 DEF PutOff
    <3>2. PutOffCommands' = Append(PutOffCommands, given')
      BY <1>2, <1>3, <3>1, ConcatAppend DEF PutOffCommands
    <3> QED
      BY <1>1, <2>2, <3>2, PutOffKeeps
  <2> QED
    BY <2>1, <2>2
<1>6. CASE Initialize
  BY <1>1, <1>6, InitializeKeeps
<1>7. CASE FirstFrame
  BY <1>1, <1>7, SameDedicated DEF FirstFrame, initialized
<1>8. CASE GameInitialized
  BY <1>1, <1>8, SameDedicated DEF GameInitialized, initialized
<1>9. CASE OnlineDataFlags
  BY <1>1, <1>9, SameDedicated DEF OnlineDataFlags, initialized, DedicatedInv
<1>10. CASE Database
  BY <1>1, <1>10, SameDedicated DEF Database, initialized, DedicatedInv
<1>11. CASE UNCHANGED dedicatedVars
  BY <1>1, <1>11, SameDedicated DEF dedicatedVars, initialized, DedicatedInv
<1> QED
  BY <1>4, <1>5, <1>6, <1>7, <1>8, <1>9, <1>10, <1>11 DEF DedicatedNext

\* What the player typed or wrote on the command line before the initialization
\* takes place once and in order, however many commands there are and however
\* the online data flags and the fastfiles come and go.
THEOREM EarlyCommands == DedicatedSpec => []EarlyOnceInOrder
<1>1. DedicatedInit => DedicatedInv
  BY DedicatedStarts
<1>2. DedicatedInv /\ [DedicatedNext]_dedicatedVars => DedicatedInv'
  BY DedicatedStep
<1>3. DedicatedInv => EarlyOnceInOrder
  <2> SUFFICES ASSUME DedicatedInv PROVE EarlyOnceInOrder
    OBVIOUS
  <2>1. DOMAIN executed = 1..Len(executed)
    BY DEF DedicatedInv, DedicatedTypeOK
  <2>2. ExecutedOnce
    BY <2>1, WaitingType DEF DedicatedInv, Distinct, ExecutedOnce
  <2> QED
    BY <2>2 DEF DedicatedInv, EarlyOnceInOrder
<1> QED
  BY <1>1, <1>2, <1>3, PTL DEF DedicatedSpec

-----------------------------------------------------------------------------
(* Steam: results reach their handlers in the order they were queued.      *)

SteamSpec == SteamInit /\ [][SteamNext]_steamVars

Handle == 1..MaxHandle

\* The type invariant of Steam (steam.cpp, callbacks).
SteamTypeOK ==
  /\ call_id_ \in 0..MaxHandle
  /\ results_ \in Seq(Handle)
  /\ result_handlers_ \subseteq Handle
  /\ calling \in [Caller -> [call : 0..MaxHandle, result : 0..MaxHandle, joins : BOOLEAN]]
  /\ pending \in [Caller -> SUBSET Handle]
  /\ running_ \in Caller \cup {"none"}
  /\ result_index \in Nat /\ (running_ = "none" <=> result_index = 0)
  /\ delivered \in Seq(Handle)
  /\ missed \subseteq Handle
  /\ maker \in [Handle -> Caller \cup {"none"}]
  /\ answers \in Nat /\ answered \in [Handle -> Nat]

\* The results that are still to be handed out.
Waiting == {i \in 1..Len(results_) : i >= result_index}
Queued(h) == \E i \in Waiting : results_[i] = h

\* A thread makes one call at a time: all of its calls but the one it is in have
\* their results, queued in the order of these calls.
CallsInOrder ==
  /\ \A h \in Handle : answered[h] <= answers
  /\ \A h \in Handle : h > call_id_ => answered[h] = 0 /\ maker[h] = "none"
  /\ \A t \in Caller : calling[t].call # 0 => maker[calling[t].call] = t /\ answered[calling[t].call] = 0
  /\ \A h \in Handle : maker[h] \in Caller =>
       /\ h # calling[maker[h]].call => answered[h] > 0
       /\ calling[maker[h]].call # 0 => h <= calling[maker[h]].call
  /\ \A h, g \in Handle : maker[h] = maker[g] /\ h < g /\ answered[g] > 0 => answered[h] < answered[g]

\* The results queued are in the order of their places.
ResultsRising ==
  /\ \A i, j \in 1..Len(results_) : i < j => answered[results_[i]] < answered[results_[j]]
  /\ \A i \in 1..Len(results_) : answered[results_[i]] > 0

\* Handlers have run in that order, for results before those waiting.
DeliveredRising ==
  /\ \A i, j \in 1..Len(delivered) : i < j => answered[delivered[i]] < answered[delivered[j]]
  /\ \A k \in 1..Len(delivered) : answered[delivered[k]] > 0
  /\ \A k \in 1..Len(delivered), i \in Waiting : answered[delivered[k]] < answered[results_[i]]

\* A handle goes to one caller, who registers one handler for it.
HandlesGiven ==
  /\ \A h \in result_handlers_ : answered[h] > 0
  /\ \A t \in Caller : \A h \in pending[t] : answered[h] > 0 /\ h \notin result_handlers_
  /\ \A t, u \in Caller : t # u => pending[t] \cap pending[u] = {}
  /\ \A t \in Caller : calling[t].result # 0 =>
       /\ maker[calling[t].result] = t
       /\ calling[t].result \notin result_handlers_
       /\ \A u \in Caller : calling[t].result \notin pending[u]

\* No one has the handle, nor will.
Ungiven(h) == h \notin result_handlers_ /\ \A t \in Caller : h \notin pending[t] /\ calling[t].result # h

\* What became of a call: its handler ran, or it went without, or it waits; one
\* that waits and goes without has no handler and gets none.
CallsSettled ==
  /\ \A h \in Handle : answered[h] > 0 => h \in ToSet(delivered) \/ h \in missed \/ Queued(h)
  /\ \A h \in missed : answered[h] > 0 /\ h \notin ToSet(delivered)
  /\ \A h \in missed : Queued(h) => Ungiven(h)

SteamInv ==
  CallsInOrder /\ (~overtaken => ResultsRising /\ DeliveredRising /\ HandlesGiven /\ CallsSettled)

\* The first section of a method, from whichever method it is.
Registers(t, gives, joins) == calling[t].call = 0 /\ register_call(t, gives, joins)

\* What the steps of the API come to.
SteamAction ==
  \/ \E t \in Caller : \E gives, joins \in BOOLEAN : Registers(t, gives, joins)
  \/ \E t \in Caller : return_call(t)
  \/ \E t \in Caller : \E h \in Handle : register_call_result(t, h) \/ unregister_call_result(t, h)
  \/ \E t \in Caller : \E list : ChangeCallbacks(t, list)
  \/ \E t \in Caller : RunCallbacks(t)
  \/ DeliverResult
  \/ EndCallbacks

LEMMA SteamActions == SteamNext => SteamAction /\ ~overtaken
<1> SUFFICES ASSUME SteamNext PROVE SteamAction
  BY DEF SteamNext
<1>0. NoCall.call = 0
  BY DEF NoCall
<1>1. ASSUME NEW t \in Caller,
             \/ CreateLobby(t) \/ JoinLobby(t) \/ GetAuthSessionTicket(t)
             \/ RequestEncryptedAppTicket(t) \/ LogOnAnonymous(t) \/ JoinCreated(t)
      PROVE  SteamAction
  <2>1. \E gives, joins \in BOOLEAN : Registers(t, gives, joins)
    BY <1>0, <1>1
       DEF CreateLobby, JoinLobby, GetAuthSessionTicket, RequestEncryptedAppTicket, LogOnAnonymous,
           JoinCreated, Registers
  <2> QED BY <2>1, Zenon DEF SteamAction
<1>2. ASSUME NEW t \in Caller, NEW h \in 1..MaxHandle, register_call_result(t, h) \/ unregister_call_result(t, h)
      PROVE  SteamAction
  BY <1>2, Zenon DEF SteamAction, Handle
<1>3. ASSUME NEW t \in Caller, NEW type \in CallType, register_callback(t, type) \/ unregister_callback(t, type)
      PROVE  SteamAction
  BY <1>3, Zenon DEF SteamAction, register_callback, unregister_callback
<1>4. ASSUME NEW t \in Caller, RunCallbacks(t) \/ return_call(t)
      PROVE  SteamAction
  BY <1>4, Zenon DEF SteamAction
<1> QED BY <1>1, <1>2, <1>3, <1>4, Zenon DEF SteamNext, SteamAction

LEMMA HandleNat == Handle \subseteq Nat /\ 0 \notin Handle
BY SteamAssumption DEF Handle

LEMMA SteamNumbers ==
  ASSUME SteamTypeOK
  PROVE  /\ Len(results_) \in Nat /\ Len(delivered) \in Nat /\ call_id_ \in Nat
         /\ \A k \in 1..Len(results_) : results_[k] \in Handle
         /\ \A k \in 1..Len(delivered) : delivered[k] \in Handle
         /\ \A h \in Handle : h \in Nat /\ answered[h] \in Nat
         /\ answers \in Nat
<1>1. results_ \in Seq(Handle) /\ delivered \in Seq(Handle)
  BY DEF SteamTypeOK
<1>2. call_id_ \in Nat
  BY SteamAssumption DEF SteamTypeOK
<1>3. \A k \in 1..Len(results_) : results_[k] \in Handle
  BY <1>1, ElementOfSeq
<1>4. \A k \in 1..Len(delivered) : delivered[k] \in Handle
  BY <1>1, ElementOfSeq
<1>5. \A h \in Handle : h \in Nat /\ answered[h] \in Nat
  BY HandleNat DEF SteamTypeOK
<1>6. answers \in Nat
  BY DEF SteamTypeOK
<1> QED BY <1>1, <1>2, <1>3, <1>4, <1>5, <1>6, LenProperties

LEMMA SteamInitial == SteamInit => SteamTypeOK /\ SteamInv
<1> SUFFICES ASSUME SteamInit PROVE SteamTypeOK /\ SteamInv
  OBVIOUS
<1>1. <<>> \in Seq(Handle) /\ Len(<<>>) = 0 /\ ToSet(<<>>) = {}
  BY DEF ToSet
<1>2. NoCall \in [call : 0..MaxHandle, result : 0..MaxHandle, joins : BOOLEAN]
      /\ NoCall.call = 0 /\ NoCall.result = 0
  BY SteamAssumption DEF NoCall
<1>3. calling = [t \in Caller |-> NoCall] /\ maker = [h \in Handle |-> "none"] /\ answered = [h \in Handle |-> 0]
  BY DEF SteamInit, Handle
<1>4. SteamTypeOK
  BY <1>1, <1>2, <1>3, SteamAssumption DEF SteamInit, SteamTypeOK
<1>5. CallsInOrder
  BY <1>2, <1>3, SteamAssumption DEF SteamInit, CallsInOrder
<1>6. ResultsRising /\ DeliveredRising /\ HandlesGiven /\ CallsSettled
  <2>1. /\ results_ = <<>> /\ delivered = <<>> /\ missed = {} /\ result_handlers_ = {}
        /\ \A t \in Caller : pending[t] = {} /\ calling[t].result = 0
        /\ \A h \in Handle : answered[h] = 0
    BY <1>2, <1>3 DEF SteamInit
  <2>2. ResultsRising /\ DeliveredRising
    BY <1>1, <2>1 DEF ResultsRising, DeliveredRising
  <2>3. HandlesGiven
    BY <2>1 DEF HandlesGiven
  <2>4. CallsSettled
    BY <1>1, <2>1 DEF CallsSettled
  <2> QED BY <2>2, <2>3, <2>4
<1> QED BY <1>4, <1>5, <1>6 DEF SteamInv

\* What register_call does to the thread's call.
LEMMA RegisterEffect ==
  ASSUME SteamTypeOK, NEW t \in Caller, NEW gives \in BOOLEAN, NEW joins \in BOOLEAN, Registers(t, gives, joins)
  PROVE  /\ call_id_ + 1 \in Handle /\ call_id_' = call_id_ + 1 /\ calling[t].call = 0
         /\ calling' \in [Caller -> [call : 0..MaxHandle, result : 0..MaxHandle, joins : BOOLEAN]]
         /\ calling'[t].call = call_id_ + 1
         /\ calling'[t].result \in {0, call_id_ + 1, calling[t].result}
         /\ \A u \in Caller : u # t => calling'[u] = calling[u]
         /\ maker' \in [Handle -> Caller \cup {"none"}]
         /\ maker'[call_id_ + 1] = t
         /\ \A h \in Handle : h # call_id_ + 1 => maker'[h] = maker[h]
         /\ UNCHANGED <<results_, result_handlers_, pending, running_, result_index, delivered, missed,
                        answers, answered, overtaken>>
<1> DEFINE n == call_id_ + 1
           c == [call |-> call_id_',
                 result |-> IF calling[t].joins THEN calling[t].result ELSE IF gives THEN call_id_' ELSE 0,
                 joins |-> joins]
<1>1. /\ call_id_' = n /\ call_id_ < MaxHandle /\ calling[t].call = 0
      /\ calling' = [calling EXCEPT ![t] = c] /\ maker' = [maker EXCEPT ![n] = t]
      /\ UNCHANGED <<results_, result_handlers_, pending, running_, result_index, delivered, missed,
                     answers, answered, overtaken>>
  BY DEF Registers, register_call
<1>2. n \in Handle /\ n \in 0..MaxHandle
  BY <1>1, SteamAssumption DEF SteamTypeOK, Handle
<1>3. calling[t].result \in 0..MaxHandle
  BY DEF SteamTypeOK
<1>4. /\ c \in [call : 0..MaxHandle, result : 0..MaxHandle, joins : BOOLEAN]
      /\ c.call = n /\ c.result \in {0, n, calling[t].result}
  BY <1>1, <1>2, <1>3, SteamAssumption
<1> HIDE DEF c, n
<1>5. /\ calling' \in [Caller -> [call : 0..MaxHandle, result : 0..MaxHandle, joins : BOOLEAN]]
      /\ calling'[t] = c /\ \A u \in Caller : u # t => calling'[u] = calling[u]
  BY <1>1, <1>4 DEF SteamTypeOK
<1>6. /\ maker' \in [Handle -> Caller \cup {"none"}]
      /\ maker'[n] = t /\ \A h \in Handle : h # n => maker'[h] = maker[h]
  BY <1>1, <1>2 DEF SteamTypeOK
<1>7. n = call_id_ + 1
  BY DEF n
<1> QED BY <1>1, <1>2, <1>4, <1>5, <1>6, <1>7

\* What return_call does: c is the call that gets its result.
LEMMA ReturnEffect ==
  ASSUME SteamTypeOK, NEW t \in Caller, return_call(t), NEW c, c = calling[t].call
  PROVE  /\ c \in Handle
         /\ results_' = Append(results_, c)
         /\ answers' = answers + 1
         /\ answered' \in [Handle -> Nat] /\ answered'[c] = answers + 1
         /\ \A h \in Handle : h # c => answered'[h] = answered[h]
         /\ calling' \in [Caller -> [call : 0..MaxHandle, result : 0..MaxHandle, joins : BOOLEAN]]
         /\ \A u \in Caller : u # t => calling'[u] = calling[u]
         /\ calling'[t].call = 0
         /\ \/ pending' = pending /\ calling'[t].result \in {0, calling[t].result}
            \/ /\ calling[t].result # 0 /\ calling'[t].result = 0
               /\ pending' = [pending EXCEPT ![t] = pending[t] \cup {calling[t].result}]
         /\ overtaken' = (overtaken \/ running_ # "none")
         /\ UNCHANGED <<call_id_, result_handlers_, running_, result_index, delivered, missed, maker>>
<1> DEFINE r == calling[t]
           q == IF r.joins THEN [r EXCEPT !.call = 0] ELSE NoCall
<1>1. r \in [call : 0..MaxHandle, result : 0..MaxHandle, joins : BOOLEAN]
  BY DEF SteamTypeOK
<1>2. /\ c # 0 /\ results_' = Append(results_, c) /\ answers' = answers + 1
      /\ answered' = [answered EXCEPT ![c] = answers + 1]
      /\ calling' = [calling EXCEPT ![t] = q]
      /\ pending' = IF r.joins \/ r.result = 0 THEN pending ELSE [pending EXCEPT ![t] = pending[t] \cup {r.result}]
      /\ overtaken' = (overtaken \/ running_ # "none")
      /\ UNCHANGED <<call_id_, result_handlers_, running_, result_index, delivered, missed, maker>>
  BY DEF return_call
<1>3. c \in Handle
  BY <1>1, <1>2 DEF Handle
<1>4. /\ q \in [call : 0..MaxHandle, result : 0..MaxHandle, joins : BOOLEAN]
      /\ q.call = 0 /\ q.result = IF r.joins THEN r.result ELSE 0
  BY <1>1, SteamAssumption DEF NoCall
<1> HIDE DEF q, r
<1>5. /\ calling' \in [Caller -> [call : 0..MaxHandle, result : 0..MaxHandle, joins : BOOLEAN]]
      /\ calling'[t] = q /\ \A u \in Caller : u # t => calling'[u] = calling[u]
  BY <1>2, <1>4 DEF SteamTypeOK
<1>6. /\ answered' \in [Handle -> Nat] /\ answered'[c] = answers + 1
      /\ \A h \in Handle : h # c => answered'[h] = answered[h]
  BY <1>2, <1>3 DEF SteamTypeOK
<1>7. \/ pending' = pending /\ q.result \in {0, r.result}
      \/ /\ r.result # 0 /\ q.result = 0
         /\ pending' = [pending EXCEPT ![t] = pending[t] \cup {r.result}]
  BY <1>2, <1>4
<1>8. r = calling[t]
  BY DEF r
<1> QED BY <1>2, <1>3, <1>4, <1>5, <1>6, <1>7, <1>8

LEMMA SteamStepTypes == SteamTypeOK /\ [SteamNext]_steamVars => SteamTypeOK'
<1> SUFFICES ASSUME SteamTypeOK, [SteamNext]_steamVars PROVE SteamTypeOK'
  OBVIOUS
<1>1. ASSUME NEW t \in Caller, NEW gives \in BOOLEAN, NEW joins \in BOOLEAN, Registers(t, gives, joins)
      PROVE  SteamTypeOK'
  <2>1. /\ call_id_ + 1 \in Handle /\ call_id_' = call_id_ + 1
        /\ calling' \in [Caller -> [call : 0..MaxHandle, result : 0..MaxHandle, joins : BOOLEAN]]
        /\ maker' \in [Handle -> Caller \cup {"none"}]
        /\ UNCHANGED <<results_, result_handlers_, pending, running_, result_index, delivered, missed,
                       answers, answered>>
    BY <1>1, RegisterEffect
  <2>2. call_id_' \in 0..MaxHandle
    BY <2>1, SteamAssumption DEF Handle
  <2> QED BY <2>1, <2>2 DEF SteamTypeOK
<1>2. ASSUME NEW t \in Caller, return_call(t)
      PROVE  SteamTypeOK'
  <2>1. PICK c : c = calling[t].call
    OBVIOUS
  <2>2. results_' \in Seq(Handle)
    <3>1. c \in Handle /\ results_' = Append(results_, c)
      BY <1>2, <2>1, ReturnEffect
    <3>2. results_ \in Seq(Handle)
      BY DEF SteamTypeOK
    <3> QED BY <3>1, <3>2, AppendElements
  <2>3. calling[t].result \in 0..MaxHandle
    BY DEF SteamTypeOK
  <2>4. pending' \in [Caller -> SUBSET Handle]
    <3>1. pending' = pending \/ (/\ calling[t].result # 0
                                 /\ pending' = [pending EXCEPT ![t] = pending[t] \cup {calling[t].result}])
      BY <1>2, <2>1, ReturnEffect
    <3>2. pending \in [Caller -> SUBSET Handle]
      BY DEF SteamTypeOK
    <3>3. calling[t].result # 0 => calling[t].result \in Handle
      BY <2>3, SteamAssumption DEF Handle
    <3> HIDE DEF Handle
    <3>4. CASE pending' = pending
      BY <3>2, <3>4
    <3>5. CASE pending' # pending
      <4>1. pending[t] \cup {calling[t].result} \in SUBSET Handle
        BY <3>1, <3>2, <3>3, <3>5
      <4> QED BY <3>1, <3>2, <3>5, <4>1
    <3> QED BY <3>4, <3>5
  <2>5. /\ answers' = answers + 1 /\ answered' \in [Handle -> Nat]
        /\ calling' \in [Caller -> [call : 0..MaxHandle, result : 0..MaxHandle, joins : BOOLEAN]]
        /\ UNCHANGED <<call_id_, result_handlers_, running_, result_index, delivered, missed, maker>>
    BY <1>2, <2>1, ReturnEffect
  <2> QED BY <2>2, <2>4, <2>5 DEF SteamTypeOK
<1>3. ASSUME NEW t \in Caller, NEW h \in Handle, register_call_result(t, h) \/ unregister_call_result(t, h)
      PROVE  SteamTypeOK'
  BY <1>3 DEF SteamTypeOK, register_call_result, unregister_call_result, callVars
<1>4. ASSUME NEW t \in Caller, NEW list, ChangeCallbacks(t, list)
      PROVE  SteamTypeOK'
  BY <1>4 DEF SteamTypeOK, ChangeCallbacks, callVars
<1>5. ASSUME NEW t \in Caller, RunCallbacks(t)
      PROVE  SteamTypeOK'
  BY <1>5, SteamAssumption DEF SteamTypeOK, RunCallbacks, callVars
<1>6. CASE DeliverResult
  <2>1. result_index \in 1..Len(results_)
    BY <1>6, LenProperties DEF SteamTypeOK, DeliverResult, Between
  <2>2. results_[result_index] \in Handle
    BY <2>1, ElementOfSeq DEF SteamTypeOK
  <2>3. Append(delivered, results_[result_index]) \in Seq(Handle)
    BY <2>2, AppendElements DEF SteamTypeOK
  <2>4. delivered' \in Seq(Handle) /\ missed' \subseteq Handle
    BY <1>6, <2>2, <2>3 DEF SteamTypeOK, DeliverResult
  <2>5. result_index' \in Nat /\ result_index' # 0 /\ running_' # "none"
    BY <1>6 DEF SteamTypeOK, DeliverResult, Between
  <2> QED BY <1>6, <2>4, <2>5 DEF SteamTypeOK, DeliverResult, callVars
<1>7. CASE EndCallbacks
  BY <1>7 DEF SteamTypeOK, EndCallbacks, callVars
<1>8. CASE UNCHANGED steamVars
  BY <1>8 DEF SteamTypeOK, steamVars
<1>9. SteamNext => SteamAction
  BY SteamActions
<1> QED BY <1>1, <1>2, <1>3, <1>4, <1>5, <1>6, <1>7, <1>8, <1>9, Zenon DEF SteamAction

\* A call begins: nothing is queued yet, and no one has its handle.
LEMMA RegisterSettles ==
  ASSUME SteamTypeOK, SteamInv, ~overtaken, NEW t \in Caller, NEW gives \in BOOLEAN, NEW joins \in BOOLEAN,
         Registers(t, gives, joins)
  PROVE  SteamInv'
<1> DEFINE n == call_id_ + 1
<1>1. /\ n \in Handle /\ call_id_' = n /\ calling[t].call = 0
      /\ calling'[t].call = n /\ calling'[t].result \in {0, n, calling[t].result}
      /\ \A u \in Caller : u # t => calling'[u] = calling[u]
      /\ maker'[n] = t /\ \A h \in Handle : h # n => maker'[h] = maker[h]
      /\ UNCHANGED <<results_, result_handlers_, pending, running_, result_index, delivered, missed,
                     answers, answered, overtaken>>
  BY RegisterEffect
<1>2. call_id_ \in Nat /\ n > call_id_ /\ \A h \in Handle : h \in Nat /\ answered[h] \in Nat
  BY SteamNumbers
<1> HIDE DEF n
<1>3. answered[n] = 0 /\ maker[n] = "none"
  BY <1>1, <1>2 DEF SteamInv, CallsInOrder
<1>4. \A h \in Handle : h > n => h > call_id_ /\ h # n
  BY <1>2 DEF n
<1>5. \A h \in Handle : maker[h] \in Caller => h < n /\ h # n
  <2> TAKE h \in Handle
  <2>1. h > call_id_ => maker[h] = "none"
    BY DEF SteamInv, CallsInOrder
  <2> QED BY <1>2, <2>1, SteamAssumption DEF n
<1>6. CallsInOrder'
  <2>1. \A h \in Handle : answered'[h] <= answers'
    BY <1>1 DEF SteamInv, CallsInOrder
  <2>2. \A h \in Handle : h > call_id_' => answered'[h] = 0 /\ maker'[h] = "none"
    BY <1>1, <1>4 DEF SteamInv, CallsInOrder
  <2>3. ASSUME NEW u \in Caller, calling'[u].call # 0
        PROVE  maker'[calling'[u].call] = u /\ answered'[calling'[u].call] = 0
    <3>1. CASE u = t
      BY <1>1, <1>3, <3>1
    <3>2. CASE u # t
      <4>1. maker[calling[u].call] = u /\ answered[calling[u].call] = 0 /\ calling'[u] = calling[u]
        BY <1>1, <2>3, <3>2 DEF SteamInv, CallsInOrder
      <4>2. calling[u].call \in Handle
        BY <2>3, <4>1, SteamAssumption DEF SteamTypeOK, Handle
      <4>3. calling[u].call # n
        BY <1>5, <4>1, <4>2
      <4> QED BY <1>1, <4>1, <4>2, <4>3
    <3> QED BY <3>1, <3>2
  <2>4. ASSUME NEW h \in Handle, maker'[h] \in Caller
        PROVE  /\ h # calling'[maker'[h]].call => answered'[h] > 0
               /\ calling'[maker'[h]].call # 0 => h <= calling'[maker'[h]].call
    <3>1. CASE h = n
      BY <1>1, <1>2, <3>1
    <3>2. CASE h # n
      <4>1. maker'[h] = maker[h] /\ h < n
        BY <1>1, <1>5, <2>4, <3>2
      <4>2. /\ h # calling[maker[h]].call => answered[h] > 0
            /\ calling[maker[h]].call # 0 => h <= calling[maker[h]].call
        BY <2>4, <4>1 DEF SteamInv, CallsInOrder
      <4>3. CASE maker[h] = t
        <5>1. h # 0 /\ h <= n
          BY <1>1, <1>2, <4>1, HandleNat
        <5> QED BY <1>1, <4>1, <4>2, <4>3, <5>1
      <4>4. CASE maker[h] # t
        BY <1>1, <2>4, <4>1, <4>2, <4>4
      <4> QED BY <4>3, <4>4
    <3> QED BY <3>1, <3>2
  <2>5. ASSUME NEW h \in Handle, NEW g \in Handle, maker'[h] = maker'[g], h < g, answered'[g] > 0
        PROVE  answered'[h] < answered'[g]
    <3>1. g # n /\ answered[g] > 0
      BY <1>1, <1>3, <2>5
    <3>2. CASE h = n
      BY <1>1, <1>2, <1>3, <3>1, <3>2
    <3>3. CASE h # n
      BY <1>1, <2>5, <3>1, <3>3 DEF SteamInv, CallsInOrder
    <3> QED BY <3>2, <3>3
  <2> QED BY <2>1, <2>2, <2>3, <2>4, <2>5, Zenon DEF CallsInOrder
<1>7. Waiting' = Waiting /\ \A h : Queued(h)' = Queued(h)
  BY <1>1 DEF Waiting, Queued
<1>8. ResultsRising' /\ DeliveredRising'
  BY <1>1, <1>7 DEF SteamInv, ResultsRising, DeliveredRising
<1>9. /\ n \notin result_handlers_ /\ n \notin missed
      /\ \A u \in Caller : n \notin pending[u]
  BY <1>2, <1>3 DEF SteamInv, HandlesGiven, CallsSettled
<1>10. HandlesGiven'
  <2>1. ASSUME NEW u \in Caller, calling'[u].result # 0
        PROVE  /\ maker'[calling'[u].result] = u
               /\ calling'[u].result \notin result_handlers_
               /\ \A v \in Caller : calling'[u].result \notin pending[v]
    <3>1. CASE calling'[u].result = n /\ u = t
      BY <1>1, <1>9, <3>1
    <3>2. CASE calling'[u].result = calling[u].result
      <4>1. /\ maker[calling[u].result] = u
            /\ calling[u].result \notin result_handlers_
            /\ \A v \in Caller : calling[u].result \notin pending[v]
        BY <2>1, <3>2 DEF SteamInv, HandlesGiven
      <4>2. calling[u].result \in Handle
        BY <2>1, <3>2, SteamAssumption DEF SteamTypeOK, Handle
      <4>3. calling[u].result # n
        BY <1>5, <4>1, <4>2
      <4> QED BY <1>1, <3>2, <4>1, <4>2, <4>3
    <3>3. calling'[u].result = calling[u].result \/ (calling'[u].result = n /\ u = t)
      BY <1>1, <2>1
    <3> QED BY <3>1, <3>2, <3>3
  <2>2. /\ \A h \in result_handlers_ : answered[h] > 0
        /\ \A u \in Caller : \A h \in pending[u] : answered[h] > 0 /\ h \notin result_handlers_
        /\ \A u, v \in Caller : u # v => pending[u] \cap pending[v] = {}
    BY DEF SteamInv, HandlesGiven
  <2> QED BY <1>1, <2>1, <2>2 DEF HandlesGiven
<1>11. CallsSettled'
  <2>1. ASSUME NEW h \in missed, Queued(h)
        PROVE  Ungiven(h)'
    <3>1. Ungiven(h) /\ h # n /\ h # 0
      BY <1>9, <2>1, HandleNat DEF SteamInv, CallsSettled, SteamTypeOK
    <3> QED BY <1>1, <3>1 DEF Ungiven
  <2>2. /\ \A h \in Handle : answered[h] > 0 => h \in ToSet(delivered) \/ h \in missed \/ Queued(h)
        /\ \A h \in missed : answered[h] > 0 /\ h \notin ToSet(delivered)
    BY DEF SteamInv, CallsSettled
  <2> QED BY <1>1, <1>7, <2>1, <2>2 DEF CallsSettled
<1> QED BY <1>6, <1>8, <1>10, <1>11 DEF SteamInv

\* A call gets its result outside of run_callbacks: behind all others.
LEMMA ReturnSettles ==
  ASSUME SteamTypeOK, SteamInv, ~overtaken, NEW t \in Caller, return_call(t)
  PROVE  SteamInv'
<1>0. PICK c : c = calling[t].call
  OBVIOUS
<1>1. /\ c \in Handle /\ results_' = Append(results_, c)
      /\ answers' = answers + 1 /\ answered'[c] = answers + 1
      /\ \A h \in Handle : h # c => answered'[h] = answered[h]
      /\ \A u \in Caller : u # t => calling'[u] = calling[u]
      /\ calling'[t].call = 0
      /\ overtaken' = (overtaken \/ running_ # "none")
      /\ UNCHANGED <<call_id_, result_handlers_, running_, result_index, delivered, missed, maker>>
  BY <1>0, ReturnEffect
<1>2. \/ pending' = pending /\ calling'[t].result \in {0, calling[t].result}
      \/ /\ calling[t].result # 0 /\ calling'[t].result = 0
         /\ pending' = [pending EXCEPT ![t] = pending[t] \cup {calling[t].result}]
  BY <1>0, ReturnEffect
<1>3. answers \in Nat /\ \A h \in Handle : h \in Nat /\ answered[h] \in Nat
  BY SteamNumbers
<1>4. maker[c] = t /\ answered[c] = 0 /\ \A h \in Handle : answered[h] <= answers
  BY <1>0, <1>1, HandleNat DEF SteamInv, CallsInOrder
<1>5. \A h \in Handle : answered[h] < answered'[c] /\ answered[h] <= answered'[h] /\ (answered[h] > 0 => h # c)
  BY <1>1, <1>3, <1>4
<1>6. CallsInOrder'
  <2>1. \A h \in Handle : answered'[h] <= answers'
    BY <1>1, <1>3, <1>4
  <2>2. c <= call_id_
    BY <1>1, <1>4, SteamNumbers, SteamAssumption DEF SteamInv, CallsInOrder
  <2>3. \A h \in Handle : h > call_id_' => answered'[h] = 0 /\ maker'[h] = "none"
    BY <1>1, <1>3, <2>2, SteamNumbers DEF SteamInv, CallsInOrder
  <2>4. ASSUME NEW u \in Caller, calling'[u].call # 0
        PROVE  maker'[calling'[u].call] = u /\ answered'[calling'[u].call] = 0
    <3>1. u # t /\ calling'[u] = calling[u]
      BY <1>1, <2>4
    <3>2. maker[calling[u].call] = u /\ answered[calling[u].call] = 0
      BY <2>4, <3>1 DEF SteamInv, CallsInOrder
    <3>3. calling[u].call \in Handle /\ calling[u].call # c
      BY <1>4, <2>4, <3>1, <3>2, SteamAssumption DEF SteamTypeOK, Handle
    <3> QED BY <1>1, <3>1, <3>2, <3>3
  <2>5. ASSUME NEW h \in Handle, maker'[h] \in Caller
        PROVE  /\ h # calling'[maker'[h]].call => answered'[h] > 0
               /\ calling'[maker'[h]].call # 0 => h <= calling'[maker'[h]].call
    <3>1. /\ h # calling[maker[h]].call => answered[h] > 0
          /\ calling[maker[h]].call # 0 => h <= calling[maker[h]].call
      BY <1>1, <2>5 DEF SteamInv, CallsInOrder
    <3>2. CASE maker[h] = t
      <4>1. h = c \/ answered[h] > 0
        BY <1>0, <3>1, <3>2
      <4>2. answered'[h] > 0
        BY <1>1, <1>3, <1>5, <4>1
      <4> QED BY <1>1, <3>2, <4>2
    <3>3. CASE maker[h] # t
      <4>1. calling'[maker[h]] = calling[maker[h]] /\ h # c
        BY <1>1, <1>4, <2>5, <3>3
      <4> QED BY <1>1, <3>1, <4>1
    <3> QED BY <3>2, <3>3
  <2>6. ASSUME NEW h \in Handle, NEW g \in Handle, maker'[h] = maker'[g], h < g, answered'[g] > 0
        PROVE  answered'[h] < answered'[g]
    <3>1. CASE g = c
      <4>1. h # c
        BY <1>3, <2>6, <3>1
      <4> QED BY <1>1, <1>5, <3>1, <4>1
    <3>2. CASE g # c /\ h = c
      <4>1. maker[g] = t /\ calling[t].call # 0
        BY <1>0, <1>1, <1>4, <2>6, <3>2, HandleNat
      <4>2. g <= c
        BY <1>0, <4>1 DEF SteamInv, CallsInOrder
      <4> QED BY <1>3, <2>6, <3>2, <4>2
    <3>3. CASE g # c /\ h # c
      BY <1>1, <2>6, <3>3 DEF SteamInv, CallsInOrder
    <3> QED BY <3>1, <3>2, <3>3
  <2> QED BY <2>1, <2>3, <2>4, <2>5, <2>6, Zenon DEF CallsInOrder
<1> SUFFICES ASSUME running_ = "none"
             PROVE  (ResultsRising /\ DeliveredRising /\ HandlesGiven /\ CallsSettled)'
  BY <1>1, <1>6 DEF SteamInv
<1>7. /\ Len(results_') = Len(results_) + 1 /\ results_'[Len(results_) + 1] = c
      /\ \A k \in 1..Len(results_) : results_'[k] = results_[k]
  BY <1>1, AppendElements DEF SteamTypeOK
<1>8. /\ Len(results_) \in Nat /\ Len(delivered) \in Nat
      /\ \A k \in 1..Len(results_) : results_[k] \in Handle
      /\ \A k \in 1..Len(delivered) : delivered[k] \in Handle
  BY SteamNumbers
<1>9. Waiting' = 1..Len(results_) + 1 /\ Waiting = 1..Len(results_)
  BY <1>1, <1>7, <1>8 DEF Waiting, SteamTypeOK
<1>10. \A k \in 1..Len(results_) : results_[k] # c /\ answered'[results_[k]] = answered[results_[k]]
  BY <1>1, <1>5, <1>8 DEF SteamInv, ResultsRising
<1>11. \A k \in 1..Len(delivered) : delivered[k] # c /\ answered'[delivered[k]] = answered[delivered[k]]
  BY <1>1, <1>5, <1>8 DEF SteamInv, DeliveredRising
<1>12. \A k \in 1..Len(results_) + 1 : k \in 1..Len(results_) \/ (k = Len(results_) + 1 /\ results_'[k] = c)
  BY <1>7, <1>8
<1>13. ResultsRising'
  <2>1. \A k \in 1..Len(results_) + 1 : answered'[results_'[k]] > 0
    BY <1>1, <1>3, <1>7, <1>10, <1>12 DEF SteamInv, ResultsRising
  <2>2. ASSUME NEW i \in 1..Len(results_) + 1, NEW j \in 1..Len(results_) + 1, i < j
        PROVE  answered'[results_'[i]] < answered'[results_'[j]]
    <3>1. i \in 1..Len(results_)
      BY <1>8, <2>2
    <3>2. answered'[results_'[i]] = answered[results_[i]] /\ results_[i] \in Handle
      BY <1>7, <1>8, <1>10, <3>1
    <3>3. CASE j \in 1..Len(results_)
      BY <1>7, <1>10, <2>2, <3>1, <3>2, <3>3 DEF SteamInv, ResultsRising
    <3>4. CASE results_'[j] = c
      BY <1>5, <3>2, <3>4
    <3> QED BY <1>12, <3>3, <3>4
  <2> QED BY <1>7, <2>1, <2>2 DEF ResultsRising
<1>14. DeliveredRising'
  <2>1. \A k \in 1..Len(delivered), i \in Waiting' : answered'[delivered[k]] < answered'[results_'[i]]
    <3> TAKE k \in 1..Len(delivered), i \in Waiting'
    <3>1. CASE i \in 1..Len(results_)
      BY <1>7, <1>9, <1>10, <1>11, <3>1 DEF SteamInv, DeliveredRising
    <3>2. CASE results_'[i] = c
      BY <1>5, <1>8, <1>11, <3>2
    <3> QED BY <1>9, <1>12, <3>1, <3>2
  <2>2. /\ \A i, j \in 1..Len(delivered) : i < j => answered'[delivered[i]] < answered'[delivered[j]]
        /\ \A k \in 1..Len(delivered) : answered'[delivered[k]] > 0
    BY <1>11 DEF SteamInv, DeliveredRising
  <2> QED BY <1>1, <2>1, <2>2 DEF DeliveredRising
<1>15. HandlesGiven'
  <2>1. ASSUME calling[t].result # 0
        PROVE  /\ calling[t].result \in Handle /\ maker[calling[t].result] = t
               /\ calling[t].result \notin result_handlers_
               /\ \A u \in Caller : calling[t].result \notin pending[u]
               /\ answered'[calling[t].result] > 0
    <3>1. calling[t].result \in Handle
      BY <2>1, SteamAssumption DEF SteamTypeOK, Handle
    <3>2. /\ maker[calling[t].result] = t
          /\ calling[t].result \notin result_handlers_
          /\ \A u \in Caller : calling[t].result \notin pending[u]
      BY <2>1 DEF SteamInv, HandlesGiven
    <3>3. calling[t].result = c \/ answered[calling[t].result] > 0
      BY <1>0, <3>1, <3>2 DEF SteamInv, CallsInOrder
    <3>4. answered'[calling[t].result] > 0
      BY <1>1, <1>3, <3>1, <3>3
    <3> QED BY <3>1, <3>2, <3>4
  <2>2. \A u \in Caller : /\ pending'[u] \subseteq pending[u] \cup {calling[t].result}
                          /\ u # t => pending'[u] = pending[u]
                          /\ calling[t].result = 0 => pending'[u] = pending[u]
    BY <1>2 DEF SteamTypeOK
  <2>3. \A h \in Handle : answered[h] > 0 => answered'[h] > 0
    BY <1>1, <1>3
  <2>4. \A h \in result_handlers_ : answered'[h] > 0
    BY <2>3 DEF SteamInv, HandlesGiven, SteamTypeOK
  <2>5. ASSUME NEW u \in Caller, NEW h \in pending'[u]
        PROVE  answered'[h] > 0 /\ h \notin result_handlers_
    <3>1. CASE h \in pending[u]
      <4>1. h \in Handle /\ answered[h] > 0 /\ h \notin result_handlers_
        BY <3>1 DEF SteamInv, HandlesGiven, SteamTypeOK
      <4> QED BY <2>3, <4>1
    <3>2. CASE h \notin pending[u]
      <4>1. h = calling[t].result /\ calling[t].result # 0
        BY <2>2, <2>5, <3>2
      <4> QED BY <2>1, <4>1
    <3> QED BY <3>1, <3>2
  <2>6. ASSUME NEW u \in Caller, NEW v \in Caller, u # v
        PROVE  pending'[u] \cap pending'[v] = {}
    <3>1. pending[u] \cap pending[v] = {}
      BY <2>6 DEF SteamInv, HandlesGiven
    <3>2. CASE calling[t].result = 0
      BY <2>2, <3>1, <3>2
    <3>3. CASE calling[t].result # 0
      <4>1. calling[t].result \notin pending[u] /\ calling[t].result \notin pending[v]
        BY <2>1, <3>3
      <4> QED BY <2>2, <2>6, <3>1, <4>1
    <3> QED BY <3>2, <3>3
  <2>7. ASSUME NEW u \in Caller, calling'[u].result # 0
        PROVE  /\ maker[calling'[u].result] = u
               /\ calling'[u].result \notin result_handlers_
               /\ \A v \in Caller : calling'[u].result \notin pending'[v]
    <3>1. calling'[u].result = calling[u].result
      BY <1>1, <1>2, <2>7
    <3>2. /\ maker[calling[u].result] = u
          /\ calling[u].result \notin result_handlers_
          /\ \A v \in Caller : calling[u].result \notin pending[v]
      BY <2>7, <3>1 DEF SteamInv, HandlesGiven
    <3>3. CASE u = t
      <4>1. pending' = pending
        BY <1>2, <2>7, <3>3
      <4> QED BY <3>1, <3>2, <4>1
    <3>4. CASE u # t
      <4>1. calling[t].result # 0 => calling[u].result # calling[t].result
        BY <2>1, <3>2, <3>4
      <4>2. calling[u].result # 0
        BY <2>7, <3>1
      <4> QED BY <2>2, <3>1, <3>2, <4>1, <4>2
    <3> QED BY <3>3, <3>4
  <2> QED BY <1>1, <2>4, <2>5, <2>6, <2>7 DEF HandlesGiven
<1>16. CallsSettled'
  <2>1. \A h : Queued(h)' <=> Queued(h) \/ h = c
    <3> TAKE h
    <3>1. Queued(h) => Queued(h)'
      BY <1>7, <1>8, <1>9 DEF Queued
    <3>2. Queued(c)'
      BY <1>7, <1>8, <1>9 DEF Queued
    <3>3. Queued(h)' => Queued(h) \/ h = c
      BY <1>7, <1>9, <1>12 DEF Queued
    <3> QED BY <3>1, <3>2, <3>3
  <2>2. c \notin missed /\ c \notin ToSet(delivered)
    <3>1. c \notin missed
      BY <1>4 DEF SteamInv, CallsSettled
    <3>2. c \notin ToSet(delivered)
      BY <1>11, ToSetMember DEF SteamTypeOK
    <3> QED BY <3>1, <3>2
  <2>3. \A h \in Handle : answered'[h] > 0 => h \in ToSet(delivered) \/ h \in missed \/ Queued(h)'
    BY <1>1, <2>1 DEF SteamInv, CallsSettled
  <2>4. \A h \in missed : answered'[h] > 0 /\ h \notin ToSet(delivered)
    BY <1>1, <2>2 DEF SteamInv, CallsSettled, SteamTypeOK
  <2>5. ASSUME NEW h \in missed, Queued(h)'
        PROVE  Ungiven(h)'
    <3>1. Ungiven(h) /\ h # 0
      BY <2>1, <2>2, <2>5, HandleNat DEF SteamInv, CallsSettled, SteamTypeOK
    <3>2. \A u \in Caller : calling'[u].result # h
      <4> TAKE u \in Caller
      <4>1. calling[u].result # h
        BY <3>1, Zenon DEF Ungiven
      <4>2. CASE u = t
        BY <1>2, <3>1, <4>1, <4>2
      <4>3. CASE u # t
        BY <1>1, <4>1, <4>3
      <4> QED BY <4>2, <4>3
    <3>3. \A u \in Caller : h \notin pending'[u]
      <4>1. \A u \in Caller : h \notin pending[u]
        BY <3>1, Zenon DEF Ungiven
      <4>2. calling[t].result # h
        BY <3>1, Zenon DEF Ungiven
      <4>3. \A u \in Caller : pending'[u] \subseteq pending[u] \cup {calling[t].result}
        BY <1>2 DEF SteamTypeOK
      <4> QED BY <4>1, <4>2, <4>3
    <3> QED BY <1>1, <3>1, <3>2, <3>3 DEF Ungiven
  <2> QED BY <1>1, <2>3, <2>4, <2>5 DEF CallsSettled
<1> QED BY <1>13, <1>14, <1>15, <1>16

\* The steps that make no call leave the order of the calls as it is.
LEMMA OrderStays ==
  ASSUME SteamInv, UNCHANGED <<call_id_, calling, maker, answers, answered>>
  PROVE  CallsInOrder'
BY Zenon DEF SteamInv, CallsInOrder

\* The caller registers a handler for a handle it was given, or gives it up.
LEMMA HandlerSettles ==
  ASSUME SteamTypeOK, SteamInv, ~overtaken, NEW t \in Caller, NEW h \in Handle,
         register_call_result(t, h) \/ unregister_call_result(t, h)
  PROVE  SteamInv'
<1>1. UNCHANGED <<call_id_, results_, running_, result_index, delivered, overtaken,
                  calling, maker, answers, answered>>
  BY DEF register_call_result, unregister_call_result, callVars
<1>2. Waiting' = Waiting /\ \A c : Queued(c)' = Queued(c)
  BY <1>1 DEF Waiting, Queued
<1>3. ResultsRising' /\ DeliveredRising' /\ CallsInOrder'
  BY <1>1, <1>2, OrderStays DEF SteamInv, ResultsRising, DeliveredRising
<1>4. CASE register_call_result(t, h)
  <2>1. /\ h \in pending[t] /\ result_handlers_' = result_handlers_ \cup {h}
        /\ pending' = [pending EXCEPT ![t] = pending[t] \ {h}] /\ missed' = missed
    BY <1>4 DEF register_call_result
  <2>2. \A u \in Caller : pending'[u] = IF u = t THEN pending[u] \ {h} ELSE pending[u]
    BY <2>1 DEF SteamTypeOK
  <2>3. HandlesGiven'
    BY <1>1, <2>1, <2>2 DEF SteamInv, HandlesGiven
  <2>4. \A c : Ungiven(c) => Ungiven(c)'
    BY <1>1, <2>1, <2>2 DEF Ungiven
  <2>5. CallsSettled'
    BY <1>1, <1>2, <2>1, <2>4 DEF SteamInv, CallsSettled
  <2> QED BY <1>3, <2>3, <2>5 DEF SteamInv
<1>5. CASE unregister_call_result(t, h)
  <2>1. /\ h \in result_handlers_ /\ result_handlers_' = result_handlers_ \ {h} /\ pending' = pending
        /\ missed' = missed \cup {c \in {h} : Queued(c)}
    <3>1. DOMAIN results_ = 1..Len(results_)
      BY DEF SteamTypeOK
    <3> QED BY <1>5, <3>1 DEF unregister_call_result, Queued, Waiting
  <2>2. HandlesGiven'
    BY <1>1, <2>1 DEF SteamInv, HandlesGiven
  <2>3. Queued(h) => h \notin ToSet(delivered)
    <3> SUFFICES ASSUME NEW i \in Waiting, results_[i] = h, NEW k \in 1..Len(delivered), delivered[k] = h
                 PROVE  FALSE
      BY ToSetMember DEF Queued, SteamTypeOK
    <3>1. answered[delivered[k]] < answered[results_[i]]
      BY DEF SteamInv, DeliveredRising
    <3> QED BY <3>1, SteamNumbers
  <2>4. answered[h] > 0 /\ \A u \in Caller : h \notin pending[u] /\ calling[u].result # h
    BY <2>1, HandleNat DEF SteamInv, HandlesGiven
  <2>5. Ungiven(h)' /\ \A c : Ungiven(c) => Ungiven(c)'
    BY <1>1, <2>1, <2>4 DEF Ungiven
  <2>6. CallsSettled'
    BY <1>1, <1>2, <2>1, <2>3, <2>4, <2>5 DEF SteamInv, CallsSettled
  <2> QED BY <1>3, <2>2, <2>6 DEF SteamInv
<1> QED BY <1>4, <1>5

\* run_callbacks hands out the next result: the latest handed out so far.
LEMMA DeliverSettles ==
  ASSUME SteamTypeOK, SteamInv, ~overtaken, DeliverResult
  PROVE  SteamInv'
<1> DEFINE k == result_index
           h == results_[k]
<1>1. /\ UNCHANGED <<call_id_, results_, result_handlers_, pending, running_, overtaken,
                     calling, maker, answers, answered>>
      /\ result_index' = k + 1
  BY DEF DeliverResult, callVars
<1>2. k \in 1..Len(results_) /\ k \in Waiting /\ k \in Nat
  BY SteamNumbers DEF DeliverResult, Between, SteamTypeOK, Waiting
<1>3. h \in Handle /\ Queued(h) /\ answered[h] > 0 /\ answered[h] \in Nat
  BY <1>2, SteamNumbers DEF Queued, SteamInv, ResultsRising
<1>4. \A i : i \in Waiting' <=> i \in Waiting /\ i # k
  BY <1>1, <1>2, SteamNumbers DEF Waiting
<1> HIDE DEF k, h
<1>5. \A i \in Waiting : i # k => answered[h] < answered[results_[i]] /\ answered[results_[i]] \in Nat
  <2> TAKE i \in Waiting
  <2>1. i \in 1..Len(results_) /\ (i # k => k < i)
    BY <1>2 DEF Waiting, k
  <2> QED BY <2>1, <1>2, SteamNumbers DEF SteamInv, ResultsRising, h
<1>6. \A c : Queued(c)' => Queued(c) /\ c # h
  BY <1>1, <1>3, <1>4, <1>5 DEF Queued
<1>7. \A c : Queued(c) => Queued(c)' \/ c = h
  BY <1>1, <1>4 DEF Queued, h
<1>8. \A j \in 1..Len(delivered) : answered[delivered[j]] < answered[h] /\ delivered[j] # h
  <2>1. \A j \in 1..Len(delivered) : answered[delivered[j]] < answered[h]
    BY <1>2 DEF SteamInv, DeliveredRising, h
  <2> QED BY <2>1, <1>3, SteamNumbers
<1>9. h \notin ToSet(delivered)
  BY <1>8, ToSetMember DEF SteamTypeOK
<1>10. ResultsRising' /\ HandlesGiven' /\ CallsInOrder' /\ \A c : Ungiven(c)' = Ungiven(c)
  BY <1>1, OrderStays DEF SteamInv, ResultsRising, HandlesGiven, Ungiven
<1>11. CASE h \in result_handlers_
  <2>1. delivered' = Append(delivered, h) /\ missed' = missed
    BY <1>11 DEF DeliverResult, h, k
  <2>2. /\ Len(delivered') = Len(delivered) + 1 /\ delivered'[Len(delivered) + 1] = h
        /\ \A j \in 1..Len(delivered) : delivered'[j] = delivered[j]
        /\ ToSet(delivered') = ToSet(delivered) \cup {h}
    BY <2>1, <1>3, AppendElements DEF SteamTypeOK
  <2>3. \A j \in 1..Len(delivered') : j \in 1..Len(delivered) \/ (j = Len(delivered) + 1 /\ delivered'[j] = h)
    BY <2>2, SteamNumbers
  <2>4. ASSUME NEW i \in 1..Len(delivered'), NEW j \in 1..Len(delivered'), i < j
        PROVE  answered[delivered'[i]] < answered[delivered'[j]]
    <3>1. i \in 1..Len(delivered)
      BY <2>2, <2>4, SteamNumbers
    <3> QED BY <2>2, <2>3, <2>4, <3>1, <1>8 DEF SteamInv, DeliveredRising
  <2>5. \A j \in 1..Len(delivered') : answered[delivered'[j]] > 0
    BY <2>2, <2>3, <1>3 DEF SteamInv, DeliveredRising
  <2>6. \A j \in 1..Len(delivered'), i \in Waiting' : answered[delivered'[j]] < answered[results_[i]]
    BY <2>2, <2>3, <1>4, <1>5 DEF SteamInv, DeliveredRising
  <2>7. DeliveredRising'
    BY <1>1, <2>4, <2>5, <2>6 DEF DeliveredRising
  <2>8. h \notin missed
    BY <1>3, <1>11 DEF SteamInv, CallsSettled, Ungiven
  <2>9. CallsSettled'
    BY <1>1, <1>6, <1>7, <1>10, <2>1, <2>2, <2>8 DEF SteamInv, CallsSettled
  <2> QED BY <1>10, <2>7, <2>9 DEF SteamInv
<1>12. CASE h \notin result_handlers_
  <2>1. missed' = missed \cup {h} /\ delivered' = delivered
    BY <1>12 DEF DeliverResult, h, k
  <2>2. DeliveredRising'
    BY <1>1, <1>4, <2>1 DEF SteamInv, DeliveredRising
  <2>3. CallsSettled'
    BY <1>1, <1>3, <1>6, <1>7, <1>9, <1>10, <2>1 DEF SteamInv, CallsSettled
  <2> QED BY <1>10, <2>2, <2>3 DEF SteamInv
<1> QED BY <1>11, <1>12

LEMMA SteamStep == SteamTypeOK /\ SteamInv /\ [SteamNext]_steamVars => SteamInv'
<1> SUFFICES ASSUME SteamTypeOK, SteamInv, [SteamNext]_steamVars PROVE SteamInv'
  OBVIOUS
<1>1. ASSUME UNCHANGED <<call_id_, results_, result_handlers_, pending, delivered, missed,
                         calling, maker, answers, answered>>,
             overtaken' \/ (~overtaken /\ Waiting' = Waiting) \/ UNCHANGED <<overtaken, result_index>>
      PROVE  SteamInv'
  <2>1. CallsInOrder'
    BY <1>1, OrderStays
  <2>2. overtaken' \/ (Waiting' = Waiting /\ ~overtaken) \/ (Waiting' = Waiting /\ overtaken' = overtaken)
    BY <1>1 DEF Waiting
  <2>3. Waiting' = Waiting => \A c : Queued(c)' = Queued(c)
    BY <1>1 DEF Queued
  <2>4. \A c : Ungiven(c)' = Ungiven(c)
    BY <1>1 DEF Ungiven
  <2>5. CASE overtaken'
    BY <2>1, <2>5 DEF SteamInv
  <2>6. CASE ~overtaken /\ Waiting' = Waiting
    BY <1>1, <2>1, <2>3, <2>4, <2>6
       DEF SteamInv, ResultsRising, DeliveredRising, HandlesGiven, CallsSettled
  <2> QED BY <2>1, <2>2, <2>5, <2>6
<1>2. ASSUME ~overtaken, NEW t \in Caller, NEW list, ChangeCallbacks(t, list)
      PROVE  SteamInv'
  <2>1. Waiting' = Waiting
    BY <1>2 DEF ChangeCallbacks, Waiting
  <2> QED BY <1>1, <1>2, <2>1 DEF ChangeCallbacks, callVars
<1>3. ASSUME ~overtaken, NEW t \in Caller, RunCallbacks(t)
      PROVE  SteamInv'
  <2>1. running_ = "none" /\ result_index' = 1 /\ results_' = results_
    BY <1>3 DEF RunCallbacks
  <2>2. Waiting' = Waiting
    BY <2>1 DEF Waiting, SteamTypeOK
  <2> QED BY <1>1, <1>3, <2>2 DEF RunCallbacks, callVars
<1>4. ASSUME ~overtaken, EndCallbacks
      PROVE  SteamInv'
  <2>1. /\ UNCHANGED <<call_id_, result_handlers_, pending, delivered, missed, overtaken,
                       calling, maker, answers, answered>>
        /\ results_' = <<>> /\ result_index > Len(results_)
    BY <1>4 DEF EndCallbacks, callVars
  <2>2. Waiting = {} /\ Waiting' = {}
    BY <2>1, SteamNumbers DEF Waiting, SteamTypeOK
  <2>3. \A c : ~Queued(c) /\ ~Queued(c)'
    BY <2>2 DEF Queued
  <2>4. ResultsRising' /\ CallsInOrder'
    BY <2>1, OrderStays DEF ResultsRising
  <2>5. DeliveredRising' /\ HandlesGiven' /\ CallsSettled'
    BY <1>4, <2>1, <2>2, <2>3 DEF SteamInv, DeliveredRising, HandlesGiven, CallsSettled
  <2> QED BY <2>4, <2>5 DEF SteamInv
<1>5. CASE UNCHANGED steamVars
  BY <1>1, <1>5 DEF steamVars
<1> QED
  BY <1>2, <1>3, <1>4, <1>5, SteamActions, RegisterSettles, ReturnSettles, HandlerSettles, DeliverSettles
     DEF SteamAction

\* However calls, registrations and runs of any threads interleave, as long as
\* no handler makes a call itself: handlers run once each, in the order in which
\* the results were queued, those of one thread's calls in the order of the
\* calls, and no answer is lost (steam.cpp, callbacks).
THEOREM SteamAnswers == SteamSpec => []AnsweredInOrder
<1>1. SteamTypeOK /\ SteamInv => AnsweredInOrder
  <2> SUFFICES ASSUME SteamTypeOK, SteamInv, ~overtaken
               PROVE  AnsweredInOrder
    BY DEF AnsweredInOrder
  <2>1. ASSUME NEW i \in 1..Len(delivered), NEW j \in 1..Len(delivered), i < j
        PROVE  /\ answered[delivered[i]] < answered[delivered[j]]
               /\ maker[delivered[i]] = maker[delivered[j]] => delivered[i] < delivered[j]
    <3>1. answered[delivered[i]] < answered[delivered[j]] /\ answered[delivered[i]] > 0
      BY <2>1 DEF SteamInv, DeliveredRising
    <3>2. /\ delivered[i] \in Handle /\ delivered[j] \in Handle
          /\ delivered[i] \in Nat /\ delivered[j] \in Nat
          /\ answered[delivered[i]] \in Nat /\ answered[delivered[j]] \in Nat
      BY SteamNumbers
    <3>3. maker[delivered[i]] = maker[delivered[j]] /\ delivered[j] < delivered[i] =>
            answered[delivered[j]] < answered[delivered[i]]
      BY <3>1, <3>2 DEF SteamInv, CallsInOrder
    <3> QED BY <3>1, <3>2, <3>3
  <2>2. ToSet(delivered) \cap missed = {}
    BY DEF SteamInv, CallsSettled
  <2>3. ASSUME NEW h \in result_handlers_ \ (missed \cup ToSet(delivered))
        PROVE  \E i \in DOMAIN results_ : results_[i] = h /\ (running_ # "none" => i >= result_index)
    <3>1. h \in Handle /\ answered[h] > 0
      BY DEF SteamInv, HandlesGiven, SteamTypeOK
    <3>2. PICK i \in Waiting : results_[i] = h
      BY <2>3, <3>1 DEF SteamInv, CallsSettled, Queued
    <3> QED BY <3>2 DEF Waiting, SteamTypeOK
  <2> QED BY <2>1, <2>2, <2>3 DEF AnsweredInOrder
<1> QED BY <1>1, SteamInitial, SteamStepTypes, SteamStep, PTL DEF SteamSpec
-----------------------------------------------------------------------------
(* Console: messages appear once and in order.                             *)

ConsoleSpec == ConsoleInit /\ [][ConsoleNext]_consoleVars

Message == Thread \X Nat
Piece == 0..MaxWrites

\* The type invariant of Console (console.cpp, rcon.cpp).
ConsoleTypeOK ==
  /\ messages \in Seq(Message) /\ logged \in Seq(Message)
  /\ message_queue_copy \in Seq(Message) /\ sent \in Seq(Message)
  /\ printed \in [Thread -> Nat]
  /\ printing \in [Thread -> Message \cup {<<>>}]
  /\ stdout \in Seq(Piece) /\ pipe \in Seq(Piece)
  /\ printed["reader"] \in Piece

\* The pieces that are still to be read were written after those read.
PiecesRise ==
  /\ \A x \in ToSet(pipe) \cup ToSet(stdout) : x # WakeUp => x > printed["reader"]
  /\ \A x \in ToSet(pipe), y \in ToSet(stdout) : WakeUp \notin {x, y} => x < y
  /\ \A i, j \in 1..Len(stdout) :
       i < j /\ WakeUp \notin {stdout[i], stdout[j]} => stdout[i] < stdout[j]

\* A message on its way is the last one of its thread; the reader has one only
\* where it dispatches it.
Dispatching ==
  /\ \A t \in Thread : printing[t] # <<>> =>
       /\ printing[t][1] = t
       /\ printing[t][2] # WakeUp => printing[t][2] = printed[t]
       /\ t \in Printer => printing[t][2] # WakeUp
  /\ reader = "dispatch" <=> printing["reader"] # <<>>

Arrived(t) == Numbers(t, Shown) \cup Numbers(t, sent)
OnItsWay(t) == IF printing[t] = <<>> \/ printing[t][2] = WakeUp THEN {} ELSE {printed[t]}

\* What has arrived was printed, and is not still on its way.
ArrivedOnce ==
  /\ \A t \in Thread : Arrived(t) \subseteq (1..printed[t]) \ OnItsWay(t)
  /\ destroyer # "done" => \A t \in Printer : Arrived(t) = (1..printed[t]) \ OnItsWay(t)
  /\ \A t \in Thread : Numbers(t, Shown) \cap Numbers(t, sent) = {}

CopyInLog == console_thread # "log" => message_queue_copy = <<>>

MessagesInv ==
  /\ PiecesRise /\ Dispatching /\ ArrivedOnce /\ CopyInLog
  /\ InOrder(Shown) /\ InOrder(sent)

LEMMA NumbersMember ==
  ASSUME NEW s \in Seq(Message), NEW t, NEW n
  PROVE  n \in Numbers(t, s) <=> \E k \in 1..Len(s) : s[k][1] = t /\ s[k][2] = n /\ n # WakeUp
<1>1. n \in Numbers(t, s) <=> \E m \in ToSet(s) : m[1] = t /\ m[2] = n /\ n # WakeUp
  BY DEF Numbers
<1>2. \A m : m \in ToSet(s) <=> \E k \in 1..Len(s) : s[k] = m
  BY ToSetMember
<1> QED BY <1>1, <1>2

LEMMA NumbersAppend ==
  ASSUME NEW s \in Seq(Message), NEW m \in Message, NEW t
  PROVE  Numbers(t, Append(s, m)) =
           Numbers(t, s) \cup (IF m[1] = t /\ m[2] # WakeUp THEN {m[2]} ELSE {})
<1>1. ToSet(Append(s, m)) = ToSet(s) \cup {m}
  BY AppendElements
<1> QED BY <1>1 DEF Numbers

LEMMA AppendInOrder ==
  ASSUME NEW s \in Seq(Message), NEW m \in Message, InOrder(s),
         m[2] # WakeUp => \A n \in Numbers(m[1], s) : n < m[2]
  PROVE  InOrder(Append(s, m))
<1> DEFINE grown == Append(s, m)
<1>1. /\ Len(grown) = Len(s) + 1 /\ grown[Len(s) + 1] = m /\ Len(s) \in Nat
      /\ \A k \in 1..Len(s) : grown[k] = s[k]
  BY AppendElements, LenProperties
<1> HIDE DEF grown
<1>2. SUFFICES ASSUME NEW i \in 1..Len(grown), NEW j \in 1..Len(grown), i < j, grown[i][1] = grown[j][1],
                      WakeUp \notin {grown[i][2], grown[j][2]}
               PROVE  grown[i][2] < grown[j][2]
  BY DEF InOrder, grown
<1>3. i \in 1..Len(s) /\ (j \in 1..Len(s) \/ j = Len(s) + 1)
  BY <1>1, <1>2
<1>4. CASE j \in 1..Len(s)
  BY <1>1, <1>2, <1>3, <1>4 DEF InOrder
<1>5. CASE j = Len(s) + 1
  <2>1. s[i][1] = m[1] /\ s[i][2] # WakeUp /\ m[2] # WakeUp
    BY <1>1, <1>2, <1>3, <1>5
  <2>2. s[i][2] \in Numbers(m[1], s)
    BY <2>1, <1>3, NumbersMember
  <2> QED BY <2>1, <2>2, <1>1, <1>3, <1>5
<1> QED BY <1>3, <1>4, <1>5

LEMMA PrefixInOrder ==
  ASSUME NEW u \in Seq(Message), NEW v \in Seq(Message), InOrder(u \o v)
  PROVE  InOrder(u) /\ \A t : Numbers(t, u) \subseteq Numbers(t, u \o v)
<1>1. /\ Len(u \o v) = Len(u) + Len(v) /\ Len(u) \in Nat /\ Len(v) \in Nat
      /\ \A k \in 1..Len(u) : (u \o v)[k] = u[k]
      /\ ToSet(u \o v) = ToSet(u) \cup ToSet(v)
  BY ConcatElements, LenProperties
<1>2. \A k \in 1..Len(u) : k \in 1..Len(u \o v)
  BY <1>1
<1>3. InOrder(u)
  BY <1>1, <1>2 DEF InOrder
<1>4. \A t : Numbers(t, u) \subseteq Numbers(t, u \o v)
  BY <1>1 DEF Numbers
<1> QED BY <1>3, <1>4

\* The three places messages are in are one sequence, which appending at the
\* end extends, and in which a message moves on without changing its place.
LEMMA ShownParts ==
  ASSUME NEW l \in Seq(Message), NEW c \in Seq(Message), NEW q \in Seq(Message)
  PROVE  /\ l \o (c \o q) \in Seq(Message)
         /\ l \o (c \o q) = (l \o c) \o q
         /\ \A m \in Message : l \o (c \o Append(q, m)) = Append(l \o (c \o q), m)
         /\ c # <<>> => Append(l, Head(c)) \o (Tail(c) \o q) = l \o (c \o q)
         /\ l \o (<<>> \o q) = l \o (q \o <<>>)
<1>1. c \o q \in Seq(Message) /\ l \o (c \o q) \in Seq(Message) /\ l \o (c \o q) = (l \o c) \o q
  <2>1. c \o q \in Seq(Message) /\ l \o (c \o q) \in Seq(Message)
    BY ConcatProperties
  <2>2. \A y \in Seq(Message) : l \o (c \o y) = (l \o c) \o y
    BY ConcatAssociative, SMTT(60)
  <2> QED BY <2>1, <2>2
<1>2. ASSUME NEW m \in Message
      PROVE  l \o (c \o Append(q, m)) = Append(l \o (c \o q), m)
  <2>1. <<m>> \in Seq(Message) /\ Append(q, m) = q \o <<m>> /\ Append(l \o (c \o q), m) = (l \o (c \o q)) \o <<m>>
    BY <1>1, AppendIsConcat
  <2>2. \A y \in Seq(Message) : c \o (q \o y) = (c \o q) \o y
    BY ConcatAssociative, SMTT(60)
  <2>3. \A x, y \in Seq(Message) : l \o (x \o y) = (l \o x) \o y
    BY ConcatAssociative, SMTT(60)
  <2>4. c \o (q \o <<m>>) = (c \o q) \o <<m>>
    BY <2>1, <2>2, Zenon
  <2>5. l \o ((c \o q) \o <<m>>) = (l \o (c \o q)) \o <<m>>
    BY <1>1, <2>1, <2>3, Zenon
  <2> QED BY <2>1, <2>4, <2>5, Zenon
<1>3. ASSUME NEW h \in Seq(Message), NEW t \in Seq(Message), h \o t = c
      PROVE  (l \o h) \o (t \o q) = l \o (c \o q)
  <2>1. \A y \in Seq(Message) : l \o (h \o y) = (l \o h) \o y
    BY ConcatAssociative, SMTT(60)
  <2>2. t \o q \in Seq(Message)
    BY ConcatProperties
  <2>3. h \o (t \o q) = (h \o t) \o q
    BY ConcatAssociative, SMTT(60)
  <2> QED BY <1>3, <2>1, <2>2, <2>3
<1>4. ASSUME c # <<>>
      PROVE  Append(l, Head(c)) \o (Tail(c) \o q) = l \o (c \o q)
  <2>1. Head(c) \in Message /\ Tail(c) \in Seq(Message) /\ <<Head(c)>> \in Seq(Message)
    BY <1>4, HeadTailProperties
  <2>2. <<Head(c)>> \o Tail(c) = c
    BY <1>4, HeadFirst
  <2>3. Append(l, Head(c)) = l \o <<Head(c)>>
    BY <2>1, AppendIsConcat
  <2> QED BY <2>1, <2>2, <2>3, <1>3
<1>5. <<>> \o q = q /\ q \o <<>> = q
  BY ConcatEmptySeq
<1> QED BY <1>1, <1>2, <1>4, <1>5

LEMMA PipeMax ==
  ASSUME ConsoleTypeOK, pipe # <<>>
  PROVE  /\ Max(ToSet(pipe)) \in Piece /\ Max(ToSet(pipe)) \in ToSet(pipe)
         /\ \A x \in ToSet(pipe) : x \in Piece /\ x <= Max(ToSet(pipe))
<1>1. ToSet(pipe) \subseteq 0..MaxWrites
  BY ToSetType DEF ConsoleTypeOK, Piece
<1>2. ToSet(pipe) # {}
  <2>1. Head(pipe) = pipe[1] /\ 1 \in 1..Len(pipe)
    BY TailElements DEF ConsoleTypeOK
  <2>2. pipe[1] \in ToSet(pipe)
    BY <2>1, ToSetMember DEF ConsoleTypeOK
  <2> QED BY <2>2
<1>3. MaxWrites \in Nat
  BY ConsoleAssumption
<1>4. Max(ToSet(pipe)) \in ToSet(pipe) /\ \A x \in ToSet(pipe) : x <= Max(ToSet(pipe))
  BY <1>1, <1>2, <1>3, MaxOfBounded
<1> QED BY <1>1, <1>4 DEF Piece

LEMMA WrittenMax ==
  ASSUME ConsoleTypeOK
  PROVE  /\ Written \in Piece /\ printed["reader"] <= Written
         /\ \A x \in ToSet(stdout) \cup ToSet(pipe) : x \in Piece /\ x <= Written
<1> DEFINE S == ToSet(stdout) \cup ToSet(pipe) \cup {printed["reader"]}
<1>1. ToSet(stdout) \subseteq 0..MaxWrites /\ ToSet(pipe) \subseteq 0..MaxWrites
  BY ToSetType DEF ConsoleTypeOK, Piece
<1>2. S \subseteq 0..MaxWrites /\ S # {}
  BY <1>1 DEF ConsoleTypeOK, Piece
<1>3. MaxWrites \in Nat
  BY ConsoleAssumption
<1> HIDE DEF S
<1>4. Max(S) \in S /\ \A y \in S : y <= Max(S)
  BY <1>2, <1>3, MaxOfBounded
<1>5. Written = Max(S)
  BY DEF Written, S
<1> QED BY <1>2, <1>4, <1>5 DEF S, Piece

LEMMA ConsoleInitial == ConsoleInit => ConsoleTypeOK /\ MessagesInv
<1> SUFFICES ASSUME ConsoleInit PROVE ConsoleTypeOK /\ MessagesInv
  OBVIOUS
<1>1. ConsoleTypeOK
  BY ConsoleAssumption DEF ConsoleInit, ConsoleTypeOK, Thread, Piece
<1>2. ToSet(<<>>) = {}
  BY DEF ToSet
<1>3. Shown = <<>> /\ sent = <<>>
  BY ConcatEmptySeq DEF ConsoleInit, Shown
<1>4. \A t : Arrived(t) = {} /\ Numbers(t, Shown) = {}
  BY <1>2, <1>3 DEF Arrived, Numbers
<1>5. PiecesRise
  BY <1>2 DEF ConsoleInit, PiecesRise
<1>6. Dispatching /\ CopyInLog
  BY ConsoleAssumption DEF ConsoleInit, Dispatching, CopyInLog, Thread
<1>7. InOrder(<<>>)
  BY DEF InOrder
<1>8. \A t \in Thread : 1..printed[t] = {} /\ OnItsWay(t) = {}
  BY DEF ConsoleInit, OnItsWay, Thread
<1>9. ArrivedOnce
  BY <1>4, <1>8 DEF ArrivedOnce, Thread
<1> QED BY <1>1, <1>3, <1>5, <1>6, <1>7, <1>9 DEF MessagesInv

LEMMA Unmoved ==
  ASSUME MessagesInv, Shown' = Shown,
         UNCHANGED <<sent, printing, printed>>, destroyer' = "done" \/ destroyer # "done"
  PROVE  ArrivedOnce' /\ InOrder(Shown)' /\ InOrder(sent)'
<1>1. \A t : Arrived(t)' = Arrived(t) /\ OnItsWay(t)' = OnItsWay(t)
  BY DEF Arrived, OnItsWay
<1>2. \A t : Numbers(t, Shown)' = Numbers(t, Shown) /\ Numbers(t, sent)' = Numbers(t, sent)
  OBVIOUS
<1>3. InOrder(Shown)' /\ InOrder(sent)'
  BY DEF MessagesInv
<1>4. ArrivedOnce'
  BY <1>1, <1>2 DEF MessagesInv, ArrivedOnce
<1> QED BY <1>3, <1>4

LEMMA ConsoleStepTypes == ConsoleTypeOK /\ [ConsoleNext]_consoleVars => ConsoleTypeOK'
<1> SUFFICES ASSUME ConsoleTypeOK, [ConsoleNext]_consoleVars PROVE ConsoleTypeOK'
  OBVIOUS
<1> USE DEF ConsoleTypeOK
<1>1. ASSUME NEW t \in Printer, PrintMessage(t)
      PROVE  ConsoleTypeOK'
  <2>1. t \in Thread /\ t # "reader" /\ printed[t] + 1 \in Nat /\ <<t, printed[t] + 1>> \in Message
    BY ConsoleAssumption DEF Thread, Message
  <2>2. printed' \in [Thread -> Nat] /\ printed'["reader"] = printed["reader"]
    BY <1>1, <2>1 DEF PrintMessage, Thread
  <2>3. printing' \in [Thread -> Message \cup {<<>>}]
    BY <1>1, <2>1 DEF PrintMessage
  <2> QED BY <1>1, <2>2, <2>3 DEF PrintMessage, stdoutVars
<1>2. ASSUME NEW t \in Thread, Redirect(t) \/ Enqueue(t), UNCHANGED <<stdout, pipe, message_queue_copy>>
      PROVE  ConsoleTypeOK'
  <2>1. printing[t] \in Message /\ printing' = [printing EXCEPT ![t] = <<>>] /\ printed' = printed
    BY <1>2 DEF Redirect, Enqueue
  <2>2. printing' \in [Thread -> Message \cup {<<>>}]
    BY <2>1
  <2>3. messages' \in Seq(Message) /\ logged' \in Seq(Message) /\ sent' \in Seq(Message)
    <3>1. CASE Redirect(t)
      BY <2>1, <3>1, AppendProperties DEF Redirect
    <3>2. CASE Enqueue(t)
      BY <2>1, <3>2, AppendProperties DEF Enqueue
    <3> QED BY <1>2, <3>1, <3>2
  <2> QED BY <1>2, <2>1, <2>2, <2>3
<1>3. CASE Write
  <2>1. Written + 1 \in Piece
    BY <1>3, WrittenMax, ConsoleAssumption DEF Write, Piece
  <2>2. stdout' \in Seq(Piece)
    BY <1>3, <2>1, AppendProperties DEF Write
  <2> QED BY <1>3, <2>2 DEF Write, messageVars
<1>4. ASSUME FlushPiece, UNCHANGED <<messageVars, message_queue_copy>>
      PROVE  ConsoleTypeOK'
  <2>1. Head(stdout) \in Piece /\ Tail(stdout) \in Seq(Piece)
    BY <1>4, HeadTailProperties DEF FlushPiece
  <2>2. pipe' \in Seq(Piece) /\ stdout' \in Seq(Piece)
    BY <1>4, <2>1, AppendProperties DEF FlushPiece
  <2> QED BY <1>4, <2>2 DEF messageVars
<1>5. ASSUME ReaderReads, UNCHANGED <<stdout, message_queue_copy>>
      PROVE  ConsoleTypeOK'
  <2> DEFINE n == Max(ToSet(pipe))
  <2>1. n \in Piece /\ n \in Nat /\ "reader" \in Thread
    BY <1>5, PipeMax, ConsoleAssumption DEF ReaderReads, Piece, Thread
  <2>2. /\ printing' = [printing EXCEPT !["reader"] = <<"reader", n>>]
        /\ printed' = [printed EXCEPT !["reader"] = IF n = 0 THEN @ ELSE n]
        /\ pipe' = <<>> /\ UNCHANGED <<messages, logged, sent>>
    BY <1>5 DEF ReaderReads
  <2> HIDE DEF n
  <2>3. printing' \in [Thread -> Message \cup {<<>>}]
    BY <2>1, <2>2 DEF Message
  <2>4. printed' \in [Thread -> Nat] /\ printed'["reader"] \in Piece
    <3>1. CASE n = 0
      <4>1. printed' = [printed EXCEPT !["reader"] = printed["reader"]]
        BY <2>2, <3>1
      <4> QED BY <2>1, <4>1
    <3>2. CASE n # 0
      <4>1. printed' = [printed EXCEPT !["reader"] = n]
        BY <2>2, <3>2
      <4> QED BY <2>1, <4>1
    <3> QED BY <3>1, <3>2
  <2> QED BY <1>5, <2>2, <2>3, <2>4
<1>6. ASSUME ConsoleLoops
      PROVE  ConsoleTypeOK'
  <2>1. UNCHANGED <<logged, sent, printing, printed, stdout, pipe>>
    BY <1>6 DEF ConsoleLoops, stdoutVars
  <2>2. messages' \in Seq(Message) /\ message_queue_copy' \in Seq(Message)
    <3>1. \/ messages' = messages /\ message_queue_copy' = message_queue_copy
          \/ messages' = <<>> /\ message_queue_copy' = messages
      BY <1>6, Zenon DEF ConsoleLoops, TakeMessages
    <3>2. <<>> \in Seq(Message)
      OBVIOUS
    <3>3. CASE messages' = messages /\ message_queue_copy' = message_queue_copy
      BY <3>3
    <3>4. CASE messages' = <<>> /\ message_queue_copy' = messages
      BY <3>2, <3>4
    <3> QED BY <3>1, <3>3, <3>4
  <2> QED BY <2>1, <2>2
<1>7. ASSUME ConsoleLogs
      PROVE  ConsoleTypeOK'
  <2>1. Head(message_queue_copy) \in Message /\ Tail(message_queue_copy) \in Seq(Message)
    BY <1>7, HeadTailProperties DEF ConsoleLogs
  <2>2. logged' \in Seq(Message) /\ message_queue_copy' \in Seq(Message)
    BY <1>7, <2>1, AppendProperties DEF ConsoleLogs
  <2> QED BY <1>7, <2>2 DEF ConsoleLogs, stdoutVars
<1>8. ASSUME Wake, UNCHANGED <<logged, sent, printing, printed, message_queue_copy>>
      PROVE  ConsoleTypeOK'
  <2>1. WakeUp \in Piece
    BY ConsoleAssumption DEF WakeUp, Piece
  <2>2. pipe' \in Seq(Piece) /\ stdout' \in Seq(Piece)
    BY <1>8, <2>1, AppendProperties DEF Wake
  <2> QED BY <1>8, <2>2 DEF Wake
<1>9. ASSUME Join, UNCHANGED <<logged, sent, printing, printed, message_queue_copy>>
      PROVE  ConsoleTypeOK'
  BY <1>9 DEF Join, stdoutVars
<1>10. ASSUME UNCHANGED <<messageVars, stdoutVars, message_queue_copy>>
       PROVE  ConsoleTypeOK'
  BY <1>10 DEF messageVars, stdoutVars
<1>11. CASE UNCHANGED consoleVars
  BY <1>10, <1>11 DEF consoleVars
<1>12. CASE runner
  <2>1. "reader" \in Thread
    BY DEF Thread
  <2>2. CASE ReaderLoops
    BY <1>10, <1>12, <2>2 DEF runner, ReaderLoops, messageVars, stdoutVars
  <2>3. CASE ReaderReads
    BY <1>5, <1>12, <2>3 DEF runner
  <2>4. CASE ReaderPrints
    BY <1>2, <1>12, <2>1, <2>4 DEF runner, ReaderPrints
  <2> QED BY <1>12, <2>2, <2>3, <2>4 DEF runner
<1>13. CASE console_thread_
  <2>1. CASE ConsoleFlushes
    BY <1>4, <1>10, <2>1 DEF ConsoleFlushes
  <2> QED BY <1>6, <1>7, <1>13, <2>1 DEF console_thread_
<1>14. CASE ConsolePreDestroy
  BY <1>4, <1>8, <1>9, <1>10, <1>14 DEF ConsolePreDestroy, Terminate, FlushAll, messageVars, stdoutVars
<1>15. ASSUME NEW t \in Printer, dispatch_message(t)
       PROVE  ConsoleTypeOK'
  BY <1>2, <1>15 DEF dispatch_message, stdoutVars, Thread
<1>16. CASE setup_redirect \/ clear_redirect \/ ConsoleQuits \/ ConsolePostStart \/ initialize
  BY <1>10, <1>16 DEF setup_redirect, clear_redirect, ConsoleQuits, ConsolePostStart, initialize
<1> QED BY <1>1, <1>3, <1>11, <1>12, <1>13, <1>14, <1>15, <1>16 DEF ConsoleNext

\* A message that is on its way arrives, in the window's queue or at the sender
\* of the request.
LEMMA MessageArrives ==
  ASSUME ConsoleTypeOK, MessagesInv, NEW t \in Thread, printing[t] # <<>>,
         printing' = [printing EXCEPT ![t] = <<>>], UNCHANGED <<printed, destroyer>>,
         \/ Shown' = Append(Shown, printing[t]) /\ sent' = sent
         \/ sent' = Append(sent, printing[t]) /\ Shown' = Shown
  PROVE  ArrivedOnce' /\ InOrder(Shown)' /\ InOrder(sent)'
<1> DEFINE m == printing[t]
           new(u) == IF u = t /\ m[2] # WakeUp THEN {printed[t]} ELSE {}
<1>1. /\ m \in Message /\ m[1] = t /\ m[2] \in Nat
      /\ m[2] # WakeUp => m[2] = printed[t] /\ printed[t] \in Nat /\ printed[t] # 0
  BY DEF ConsoleTypeOK, Message, MessagesInv, Dispatching, WakeUp
<1>2. Shown \in Seq(Message) /\ sent \in Seq(Message)
  BY ShownParts DEF ConsoleTypeOK, Shown
<1>3. \A u : Numbers(u, Append(Shown, m)) = Numbers(u, Shown) \cup new(u)
  BY <1>1, <1>2, NumbersAppend
<1>4. \A u : Numbers(u, Append(sent, m)) = Numbers(u, sent) \cup new(u)
  BY <1>1, <1>2, NumbersAppend
<1>5. \A u \in Thread : OnItsWay(u) = OnItsWay(u)' \cup new(u)
  <2>1. \A u \in Thread : printing'[u] = IF u = t THEN <<>> ELSE printing[u]
    BY DEF ConsoleTypeOK
  <2>2. OnItsWay(t)' = {} /\ OnItsWay(t) = new(t)
    BY <2>1 DEF OnItsWay
  <2>3. ASSUME NEW u \in Thread, u # t
        PROVE  OnItsWay(u)' = OnItsWay(u) /\ new(u) = {}
    BY <2>1, <2>3 DEF OnItsWay
  <2> QED BY <2>2, <2>3
<1>6. \A u \in Thread : new(u) \cap OnItsWay(u)' = {} /\ new(u) \subseteq 1..printed[u]
  <2>1. printing'[t] = <<>>
    BY DEF ConsoleTypeOK
  <2>2. OnItsWay(t)' = {}
    BY <2>1 DEF OnItsWay
  <2> QED BY <1>1, <2>2
<1>7. \A u \in Thread : Arrived(u) \cap new(u) = {}
  BY <1>5 DEF MessagesInv, ArrivedOnce
<1>8. m[2] # WakeUp => \A n \in Arrived(t) : n < m[2]
  <2>1. m[2] # WakeUp => \A n \in Arrived(t) : n \in 1..printed[t] /\ n # printed[t]
    BY <1>7 DEF MessagesInv, ArrivedOnce
  <2> QED BY <2>1, <1>1
<1>9. Numbers(t, Shown) \subseteq Arrived(t) /\ Numbers(t, sent) \subseteq Arrived(t)
  BY DEF Arrived
<1>10. InOrder(Append(Shown, m)) /\ InOrder(Append(sent, m))
  BY <1>1, <1>2, <1>8, <1>9, AppendInOrder DEF MessagesInv
<1>11. InOrder(Shown)' /\ InOrder(sent)'
  BY <1>10 DEF MessagesInv
<1> HIDE DEF m, new
<1>12. ASSUME NEW u \in Thread
       PROVE  /\ Arrived(u)' = Arrived(u) \cup new(u)
              /\ Numbers(u, Shown)' \cap Numbers(u, sent)' = {}
  <2>1. Numbers(u, Shown) \cap Numbers(u, sent) = {}
    BY DEF MessagesInv, ArrivedOnce
  <2>2. CASE Shown' = Append(Shown, m) /\ sent' = sent
    <3>1. Numbers(u, Shown)' = Numbers(u, Shown) \cup new(u) /\ Numbers(u, sent)' = Numbers(u, sent)
      BY <1>3, <2>2
    <3> QED BY <1>7, <2>1, <3>1 DEF Arrived
  <2>3. CASE sent' = Append(sent, m) /\ Shown' = Shown
    <3>1. Numbers(u, sent)' = Numbers(u, sent) \cup new(u) /\ Numbers(u, Shown)' = Numbers(u, Shown)
      BY <1>4, <2>3
    <3> QED BY <1>7, <2>1, <3>1 DEF Arrived
  <2> QED BY <2>2, <2>3 DEF m
<1>13. \A u \in Thread : Arrived(u)' \subseteq (1..printed[u]) \ OnItsWay(u)'
  BY <1>5, <1>6, <1>12 DEF MessagesInv, ArrivedOnce
<1>14. destroyer # "done" => \A u \in Printer : Arrived(u)' = (1..printed[u]) \ OnItsWay(u)'
  BY <1>5, <1>6, <1>12 DEF MessagesInv, ArrivedOnce, Thread
<1> QED BY <1>11, <1>12, <1>13, <1>14 DEF ArrivedOnce

LEMMA PrintKeeps ==
  ASSUME ConsoleTypeOK, MessagesInv, NEW t \in Printer, PrintMessage(t)
  PROVE  MessagesInv'
<1>1. /\ UNCHANGED <<messages, logged, sent, stdout, pipe, reader, console_thread,
                      message_queue_copy, destroyer>>
      /\ printing[t] = <<>>
      /\ printed' = [printed EXCEPT ![t] = printed[t] + 1]
      /\ printing' = [printing EXCEPT ![t] = <<t, printed[t] + 1>>]
  BY DEF PrintMessage, stdoutVars
<1>2. t \in Thread /\ t # "reader" /\ printed[t] \in Nat
  BY ConsoleAssumption DEF Thread, ConsoleTypeOK
<1>3. \A u \in Thread : /\ printed'[u] = IF u = t THEN printed[t] + 1 ELSE printed[u]
                        /\ printing'[u] = IF u = t THEN <<t, printed[t] + 1>> ELSE printing[u]
  BY <1>1 DEF ConsoleTypeOK
<1>4. printed'["reader"] = printed["reader"] /\ printing'["reader"] = printing["reader"]
  BY <1>2, <1>3 DEF Thread
<1>5. PiecesRise' /\ CopyInLog'
  BY <1>1, <1>4 DEF MessagesInv, PiecesRise, CopyInLog
<1>6. Dispatching'
  <2>1. <<t, printed[t] + 1>>[1] = t /\ <<t, printed[t] + 1>>[2] = printed[t] + 1
        /\ printed[t] + 1 # WakeUp
    BY <1>2 DEF WakeUp
  <2>2. ASSUME NEW u \in Thread, printing'[u] # <<>>
        PROVE  /\ printing'[u][1] = u
               /\ printing'[u][2] # WakeUp => printing'[u][2] = printed'[u]
               /\ u \in Printer => printing'[u][2] # WakeUp
    <3>1. CASE u = t
      BY <1>3, <2>1, <3>1
    <3>2. CASE u # t
      BY <1>3, <2>2, <3>2 DEF MessagesInv, Dispatching
    <3> QED BY <3>1, <3>2
  <2> QED BY <1>1, <1>4, <2>2 DEF MessagesInv, Dispatching
<1>7. Shown' = Shown
  BY <1>1 DEF Shown
<1>8. InOrder(Shown)' /\ InOrder(sent)'
  BY <1>1, <1>7 DEF MessagesInv
<1>9. ASSUME NEW u \in Thread
      PROVE  /\ Arrived(u)' = Arrived(u) /\ Numbers(u, Shown)' \cap Numbers(u, sent)' = {}
             /\ (1..printed'[u]) \ OnItsWay(u)' = (1..printed[u]) \ OnItsWay(u)
  <2>1. Numbers(u, Shown)' = Numbers(u, Shown) /\ Numbers(u, sent)' = Numbers(u, sent)
    BY <1>1, <1>7
  <2>2. CASE u = t
    <3>1. OnItsWay(u) = {}
      BY <1>1, <2>2 DEF OnItsWay
    <3>2. printing'[u] = <<t, printed[t] + 1>> /\ printed'[u] = printed[t] + 1
      BY <1>3, <2>2
    <3>3. OnItsWay(u)' = {printed[t] + 1}
      BY <3>2, <1>2 DEF OnItsWay, WakeUp
    <3>4. (1..printed[t] + 1) \ {printed[t] + 1} = 1..printed[t]
      BY <1>2
    <3> QED BY <2>1, <2>2, <3>1, <3>2, <3>3, <3>4 DEF Arrived, MessagesInv, ArrivedOnce
  <2>3. CASE u # t
    <3>1. OnItsWay(u)' = OnItsWay(u) /\ printed'[u] = printed[u]
      BY <1>3, <2>3 DEF OnItsWay
    <3> QED BY <2>1, <3>1 DEF Arrived, MessagesInv, ArrivedOnce
  <2> QED BY <2>2, <2>3
<1>10. ArrivedOnce'
  BY <1>1, <1>9 DEF MessagesInv, ArrivedOnce, Thread
<1> QED BY <1>5, <1>6, <1>8, <1>10 DEF MessagesInv

LEMMA DispatchKeeps ==
  ASSUME ConsoleTypeOK, MessagesInv, NEW t \in Thread, Redirect(t) \/ Enqueue(t),
         IF t = "reader" THEN reader' # "dispatch" ELSE reader' = reader,
         UNCHANGED <<stdout, pipe, console_thread, message_queue_copy, destroyer>>
  PROVE  MessagesInv'
<1> DEFINE m == printing[t]
<1>1. /\ m # <<>> /\ m \in Message
      /\ printing' = [printing EXCEPT ![t] = <<>>] /\ printed' = printed /\ logged' = logged
  BY DEF Redirect, Enqueue, ConsoleTypeOK
<1>2. \/ Shown' = Append(Shown, m) /\ sent' = sent
      \/ sent' = Append(sent, m) /\ Shown' = Shown
  <2>1. CASE Redirect(t)
    BY <2>1 DEF Redirect, Shown
  <2>2. CASE Enqueue(t)
    <3>1. messages' = Append(messages, m) /\ sent' = sent
      BY <2>2 DEF Enqueue
    <3>2. logged \o (message_queue_copy \o Append(messages, m)) = Append(logged \o (message_queue_copy \o messages), m)
      <4>1. \A x \in Message : logged \o (message_queue_copy \o Append(messages, x))
                                = Append(logged \o (message_queue_copy \o messages), x)
        BY ShownParts DEF ConsoleTypeOK
      <4> QED BY <1>1, <4>1
    <3> QED BY <1>1, <3>1, <3>2 DEF Shown
  <2> QED BY <2>1, <2>2
<1>3. ArrivedOnce' /\ InOrder(Shown)' /\ InOrder(sent)'
  BY <1>1, <1>2, MessageArrives
<1>4. PiecesRise' /\ CopyInLog'
  BY <1>1 DEF MessagesInv, PiecesRise, CopyInLog
<1>5. \A u \in Thread : printing'[u] = IF u = t THEN <<>> ELSE printing[u]
  BY <1>1 DEF ConsoleTypeOK
<1>6. Dispatching'
  <2>1. \A u \in Thread : printing'[u] # <<>> => printing[u] # <<>> /\ printing'[u] = printing[u]
    BY <1>5
  <2>2. reader' = "dispatch" <=> printing'["reader"] # <<>>
    BY <1>5 DEF MessagesInv, Dispatching, Thread
  <2> QED BY <1>1, <2>1, <2>2 DEF MessagesInv, Dispatching
<1> QED BY <1>3, <1>4, <1>6 DEF MessagesInv

LEMMA ReadKeeps ==
  ASSUME ConsoleTypeOK, MessagesInv, ReaderReads,
         UNCHANGED <<stdout, console_thread, message_queue_copy, destroyer>>
  PROVE  MessagesInv'
<1> DEFINE n == Max(ToSet(pipe))
           r == printed["reader"]
<1>1. /\ n \in Piece /\ n \in Nat /\ n \in ToSet(pipe) /\ "reader" \in Thread
      /\ \A x \in ToSet(pipe) : x <= n
  BY PipeMax, ConsoleAssumption DEF ReaderReads, Piece, Thread
<1>2. /\ printing' = [printing EXCEPT !["reader"] = <<"reader", n>>]
      /\ printed' = [printed EXCEPT !["reader"] = IF n = 0 THEN @ ELSE n]
      /\ pipe' = <<>> /\ reader = "read" /\ reader' = "dispatch"
      /\ UNCHANGED <<messages, logged, sent>>
  BY DEF ReaderReads
<1>3. r \in Nat /\ (n # 0 => n > r)
  BY <1>1 DEF MessagesInv, PiecesRise, WakeUp, ConsoleTypeOK
<1>4. \A y \in ToSet(stdout) : y # WakeUp => y > r /\ (n # 0 => n < y)
  BY <1>1 DEF MessagesInv, PiecesRise, WakeUp
<1> HIDE DEF n, r
<1>5. /\ printed'["reader"] = IF n = 0 THEN r ELSE n
      /\ printing'["reader"] = <<"reader", n>>
      /\ \A u \in Printer : u # "reader" /\ u \in Thread /\ printed'[u] = printed[u] /\ printing'[u] = printing[u]
  <2>1. \A u \in Printer : u # "reader" /\ u \in Thread
    BY ConsoleAssumption DEF Thread
  <2>2. printed'["reader"] = IF n = 0 THEN printed["reader"] ELSE n
    BY <1>1, <1>2 DEF ConsoleTypeOK
  <2> QED BY <1>1, <1>2, <2>1, <2>2 DEF ConsoleTypeOK, r
<1>6. PiecesRise'
  <2>1. ToSet(pipe') = {}
    BY <1>2 DEF ToSet
  <2>2. \A y \in ToSet(stdout) : y # WakeUp => y > printed'["reader"]
    BY <1>4, <1>5
  <2> QED BY <2>1, <2>2 DEF PiecesRise, MessagesInv
<1>7. Shown' = Shown /\ CopyInLog'
  BY <1>2 DEF Shown, MessagesInv, CopyInLog
<1>8. InOrder(Shown)' /\ InOrder(sent)'
  BY <1>2, <1>7 DEF MessagesInv
<1>9. \A u : Numbers(u, Shown)' = Numbers(u, Shown) /\ Numbers(u, sent)' = Numbers(u, sent)
             /\ Arrived(u)' = Arrived(u)
  BY <1>2, <1>7 DEF Arrived
<1>10. \A u \in Printer : OnItsWay(u)' = OnItsWay(u)
  BY <1>5 DEF OnItsWay
<1>11. Arrived("reader") \subseteq (1..printed'["reader"]) \ OnItsWay("reader")'
  <2>1. printing["reader"] = <<>>
    BY <1>2 DEF MessagesInv, Dispatching
  <2>2. Arrived("reader") \subseteq 1..r
    BY <1>1, <2>1 DEF MessagesInv, ArrivedOnce, OnItsWay, r
  <2>3. <<"reader", n>>[2] = n
    OBVIOUS
  <2>4. OnItsWay("reader")' = IF n = 0 THEN {} ELSE {n}
    BY <1>5, <2>3 DEF OnItsWay, WakeUp
  <2>5. 1..r \subseteq 1..printed'["reader"]
    BY <1>1, <1>3, <1>5
  <2>6. n # 0 => n \notin 1..r
    BY <1>1, <1>3
  <2> QED BY <2>2, <2>4, <2>5, <2>6
<1>12. ArrivedOnce'
  BY <1>2, <1>5, <1>9, <1>10, <1>11 DEF MessagesInv, ArrivedOnce, Thread
<1>13. Dispatching'
  <2>1. \A u \in Thread : u = "reader" \/ u \in Printer
    BY DEF Thread
  <2>2. <<"reader", n>>[1] = "reader" /\ <<"reader", n>>[2] = n /\ <<"reader", n>> # <<>>
    OBVIOUS
  <2>3. ASSUME NEW u \in Thread, printing'[u] # <<>>
        PROVE  /\ printing'[u][1] = u
               /\ printing'[u][2] # WakeUp => printing'[u][2] = printed'[u]
               /\ u \in Printer => printing'[u][2] # WakeUp
    <3>1. CASE u \in Printer
      BY <1>5, <2>3, <3>1 DEF MessagesInv, Dispatching
    <3>2. CASE u = "reader"
      <4>1. u \notin Printer
        BY <3>2, ConsoleAssumption
      <4> QED BY <1>5, <2>2, <3>2, <4>1 DEF WakeUp
    <3> QED BY <2>1, <3>1, <3>2
  <2> QED BY <1>2, <1>5, <2>2, <2>3 DEF Dispatching
<1> QED BY <1>6, <1>7, <1>8, <1>12, <1>13 DEF MessagesInv

\* Pieces are written in the order of their numbers; the wake-up is none of them.
LEMMA WrittenRises ==
  ASSUME ConsoleTypeOK, MessagesInv, NEW x \in Piece, stdout' = Append(stdout, x),
         x # WakeUp =>
           x > printed["reader"] /\ \A y \in ToSet(stdout) \cup ToSet(pipe) : y < x,
         UNCHANGED <<pipe, printed>>
  PROVE  PiecesRise'
<1>1. /\ ToSet(stdout') = ToSet(stdout) \cup {x}
      /\ Len(stdout') = Len(stdout) + 1 /\ stdout'[Len(stdout) + 1] = x
      /\ \A k \in 1..Len(stdout) : stdout'[k] = stdout[k] /\ stdout[k] \in ToSet(stdout)
      /\ Len(stdout) \in Nat
  BY AppendElements, ToSetMember, LenProperties DEF ConsoleTypeOK
<1>2. ASSUME NEW i \in 1..Len(stdout'), NEW j \in 1..Len(stdout'), i < j,
             WakeUp \notin {stdout'[i], stdout'[j]}
      PROVE  stdout'[i] < stdout'[j]
  <2>1. i \in 1..Len(stdout) /\ (j \in 1..Len(stdout) \/ j = Len(stdout) + 1)
    BY <1>1, <1>2
  <2> QED BY <1>1, <1>2, <2>1 DEF MessagesInv, PiecesRise
<1>3. \A y \in ToSet(pipe) \cup ToSet(stdout') : y # WakeUp => y > printed["reader"]
  BY <1>1 DEF MessagesInv, PiecesRise
<1>4. \A y \in ToSet(pipe), z \in ToSet(stdout') : WakeUp \notin {y, z} => y < z
  BY <1>1 DEF MessagesInv, PiecesRise
<1> QED BY <1>2, <1>3, <1>4 DEF PiecesRise

LEMMA WriteKeeps ==
  ASSUME ConsoleTypeOK, MessagesInv, Write
  PROVE  MessagesInv'
<1>1. /\ stdout' = Append(stdout, Written + 1)
      /\ UNCHANGED <<messages, logged, sent, printing, printed, pipe, reader, console_thread,
                     message_queue_copy, destroyer>>
  BY DEF Write, messageVars
<1>2. /\ Written + 1 \in Piece /\ Written + 1 > printed["reader"]
      /\ \A x \in ToSet(stdout) \cup ToSet(pipe) : x < Written + 1
  BY WrittenMax, ConsoleAssumption DEF Write, Piece, ConsoleTypeOK
<1>4. PiecesRise'
  BY <1>1, <1>2, WrittenRises
<1>5. Shown' = Shown /\ CopyInLog'
  BY <1>1 DEF Shown, MessagesInv, CopyInLog
<1>6. ArrivedOnce' /\ InOrder(Shown)' /\ InOrder(sent)'
  BY <1>1, <1>5, Unmoved
<1> QED BY <1>1, <1>4, <1>5, <1>6 DEF MessagesInv, Dispatching

\* Flushing moves the first piece on.
LEMMA FlushRises ==
  ASSUME ConsoleTypeOK, PiecesRise, FlushPiece, printed' = printed
  PROVE  PiecesRise'
<1>1. /\ stdout # <<>> /\ stdout' = Tail(stdout) /\ pipe' = Append(pipe, Head(stdout))
      /\ Head(stdout) \in Piece /\ Tail(stdout) \in Seq(Piece)
  BY HeadTailProperties DEF ConsoleTypeOK, FlushPiece
<1>2. /\ Head(stdout) = stdout[1] /\ Len(stdout) \in Nat /\ Len(stdout) > 0
      /\ Len(stdout') = Len(stdout) - 1
      /\ \A k \in 1..Len(stdout') : stdout'[k] = stdout[k + 1]
  BY <1>1, HeadTailProperties, LenProperties, EmptySeq DEF ConsoleTypeOK
<1>3. ToSet(pipe') = ToSet(pipe) \cup {stdout[1]}
  BY <1>1, <1>2, AppendElements DEF ConsoleTypeOK
<1>4. ASSUME NEW y \in ToSet(stdout')
      PROVE  y \in ToSet(stdout) /\ (WakeUp \notin {stdout[1], y} => stdout[1] < y)
  <2>1. PICK k \in 1..Len(stdout') : stdout'[k] = y
    BY <1>1, ToSetMember
  <2>2. 1 \in 1..Len(stdout) /\ k + 1 \in 1..Len(stdout) /\ 1 < k + 1 /\ stdout[k + 1] = y
    BY <1>2, <2>1
  <2>3. y \in ToSet(stdout)
    BY <2>2, ToSetMember DEF ConsoleTypeOK
  <2> QED BY <2>2, <2>3 DEF PiecesRise
<1>5. stdout[1] \in ToSet(stdout)
  BY <1>2, ToSetMember DEF ConsoleTypeOK
<1>6. ASSUME NEW i \in 1..Len(stdout'), NEW j \in 1..Len(stdout'), i < j,
             WakeUp \notin {stdout'[i], stdout'[j]}
      PROVE  stdout'[i] < stdout'[j]
  <2>1. i + 1 \in 1..Len(stdout) /\ j + 1 \in 1..Len(stdout) /\ i + 1 < j + 1
    BY <1>2, <1>6
  <2> QED BY <1>2, <1>6, <2>1 DEF PiecesRise
<1>7. \A x \in ToSet(pipe') \cup ToSet(stdout') : x # WakeUp => x > printed["reader"]
  BY <1>3, <1>4, <1>5 DEF PiecesRise
<1>8. \A x \in ToSet(pipe'), y \in ToSet(stdout') : WakeUp \notin {x, y} => x < y
  BY <1>3, <1>4 DEF PiecesRise
<1> QED BY <1>6, <1>7, <1>8 DEF PiecesRise

LEMMA ConsoleThreadKeeps ==
  ASSUME ConsoleTypeOK, MessagesInv, console_thread_
  PROVE  MessagesInv'
<1>1. UNCHANGED <<sent, printing, printed, reader, destroyer>>
  BY DEF console_thread_, ConsoleLoops, ConsoleLogs, ConsoleFlushes, messageVars
<1>2. Dispatching'
  BY <1>1 DEF MessagesInv, Dispatching
<1>3. CASE ConsoleLoops
  <2>1. UNCHANGED <<logged, stdout, pipe>> /\ console_thread = "loop"
    BY <1>3 DEF ConsoleLoops, stdoutVars
  <2>2. message_queue_copy = <<>>
    BY <2>1 DEF MessagesInv, CopyInLog
  <2>3. \/ messages' = messages /\ message_queue_copy' = message_queue_copy
        \/ messages' = <<>> /\ message_queue_copy' = messages /\ console_thread' = "log"
    BY <1>3, Zenon DEF ConsoleLoops, TakeMessages
  <2>4. logged \o (<<>> \o messages) = logged \o (messages \o <<>>)
    BY ShownParts DEF ConsoleTypeOK
  <2>5. Shown' = Shown
    BY <2>1, <2>2, <2>3, <2>4 DEF Shown
  <2>6. CopyInLog' /\ PiecesRise'
    BY <1>1, <2>1, <2>2, <2>3 DEF MessagesInv, CopyInLog, PiecesRise
  <2> QED BY <1>1, <1>2, <2>5, <2>6, Unmoved DEF MessagesInv
<1>4. CASE ConsoleLogs
  <2>1. /\ UNCHANGED <<messages, stdout, pipe, console_thread>> /\ console_thread = "log"
        /\ message_queue_copy # <<>>
        /\ logged' = Append(logged, Head(message_queue_copy))
        /\ message_queue_copy' = Tail(message_queue_copy)
    BY <1>4 DEF ConsoleLogs, stdoutVars
  <2>2. Shown' = Shown
    BY <2>1, ShownParts DEF ConsoleTypeOK, Shown
  <2>3. CopyInLog' /\ PiecesRise'
    BY <1>1, <2>1 DEF MessagesInv, CopyInLog, PiecesRise
  <2> QED BY <1>1, <1>2, <2>2, <2>3, Unmoved DEF MessagesInv
<1>5. CASE ConsoleFlushes
  <2>1. /\ UNCHANGED <<messages, logged, message_queue_copy>>
        /\ console_thread' = "log" => console_thread = "log"
        /\ console_thread = "log" => message_queue_copy = <<>>
    BY <1>5 DEF ConsoleFlushes, messageVars
  <2>2. Shown' = Shown /\ CopyInLog'
    BY <2>1 DEF Shown, MessagesInv, CopyInLog
  <2>3. PiecesRise'
    <3>1. CASE FlushPiece
      BY <1>1, <3>1, FlushRises DEF MessagesInv
    <3>2. CASE UNCHANGED <<stdout, pipe>>
      BY <1>1, <3>2 DEF MessagesInv, PiecesRise
    <3> QED BY <1>5, <3>1, <3>2 DEF ConsoleFlushes, stdoutVars
  <2> QED BY <1>1, <1>2, <2>2, <2>3, Unmoved DEF MessagesInv
<1> QED BY <1>3, <1>4, <1>5 DEF console_thread_

LEMMA DestroyKeeps ==
  ASSUME ConsoleTypeOK, MessagesInv, ConsolePreDestroy
  PROVE  MessagesInv'
<1>1. UNCHANGED <<logged, sent, printing, printed, reader, console_thread, message_queue_copy>>
  BY DEF ConsolePreDestroy
<1>2. Dispatching' /\ CopyInLog'
  BY <1>1 DEF MessagesInv, Dispatching, CopyInLog
<1>3. CASE Terminate
  <2>1. UNCHANGED <<messages, stdout, pipe>> /\ destroyer # "done"
    BY <1>3 DEF Terminate, stdoutVars
  <2>2. Shown' = Shown /\ PiecesRise'
    BY <1>1, <2>1 DEF Shown, MessagesInv, PiecesRise
  <2> QED BY <1>1, <1>2, <2>1, <2>2, Unmoved DEF MessagesInv
<1>4. CASE Wake
  <2>1. /\ messages' = messages /\ pipe' = pipe /\ stdout' = Append(stdout, WakeUp)
        /\ destroyer # "done" /\ WakeUp \in Piece
    BY <1>4, ConsoleAssumption DEF Wake, WakeUp, Piece
  <2>2. Shown' = Shown
    BY <1>1, <2>1 DEF Shown
  <2>3. PiecesRise'
    BY <1>1, <2>1, WrittenRises
  <2> QED BY <1>1, <1>2, <2>1, <2>2, <2>3, Unmoved DEF MessagesInv
<1>6. CASE FlushAll
  <2>1. messages' = messages /\ destroyer # "done"
    BY <1>6 DEF FlushAll
  <2>2. Shown' = Shown
    BY <1>1, <2>1 DEF Shown
  <2>3. PiecesRise'
    <3>1. CASE FlushPiece
      BY <1>1, <3>1, FlushRises DEF MessagesInv
    <3>2. CASE UNCHANGED <<stdout, pipe>>
      BY <1>1, <3>2 DEF MessagesInv, PiecesRise
    <3> QED BY <1>6, <3>1, <3>2 DEF FlushAll, stdoutVars
  <2> QED BY <1>1, <1>2, <2>1, <2>2, <2>3, Unmoved DEF MessagesInv
<1>5. CASE Join
  <2>1. messages' = <<>> /\ destroyer' = "done" /\ UNCHANGED <<stdout, pipe>>
    BY <1>5 DEF Join, stdoutVars
  <2>2. PiecesRise'
    BY <1>1, <2>1 DEF MessagesInv, PiecesRise
  <2>3. PICK u \in Seq(Message) : u = logged \o message_queue_copy
    BY ConcatProperties DEF ConsoleTypeOK
  <2>4. Shown = u \o messages
    BY <2>3, ShownParts DEF ConsoleTypeOK, Shown
  <2>5. Shown' = u
    BY <1>1, <2>1, <2>3, ConcatEmptySeq DEF ConsoleTypeOK, Shown
  <2>6. InOrder(u) /\ \A t : Numbers(t, u) \subseteq Numbers(t, Shown)
    BY <2>4, PrefixInOrder DEF ConsoleTypeOK, MessagesInv
  <2>7. InOrder(Shown)' /\ InOrder(sent)'
    BY <1>1, <2>5, <2>6 DEF MessagesInv
  <2>8. \A t : /\ Arrived(t)' \subseteq Arrived(t) /\ OnItsWay(t)' = OnItsWay(t)
               /\ Numbers(t, Shown)' \cap Numbers(t, sent)' \subseteq Numbers(t, Shown) \cap Numbers(t, sent)
    BY <1>1, <2>5, <2>6 DEF Arrived, OnItsWay
  <2>9. ArrivedOnce'
    BY <1>1, <2>1, <2>8 DEF MessagesInv, ArrivedOnce
  <2> QED BY <1>2, <2>2, <2>7, <2>9 DEF MessagesInv
<1> QED BY <1>3, <1>4, <1>5, <1>6 DEF ConsolePreDestroy

LEMMA MessagesStep == ConsoleTypeOK /\ MessagesInv /\ [ConsoleNext]_consoleVars => MessagesInv'
<1> SUFFICES ASSUME ConsoleTypeOK, MessagesInv, [ConsoleNext]_consoleVars PROVE MessagesInv'
  OBVIOUS
\* The threads start, end and read the flag: no message moves.
<1>1. ASSUME UNCHANGED <<messages, logged, sent, printing, printed, stdout, pipe, message_queue_copy, destroyer>>,
             reader' = reader \/ "dispatch" \notin {reader, reader'},
             console_thread' = console_thread \/ console_thread # "log"
      PROVE  MessagesInv'
  <2>1. Shown' = Shown /\ PiecesRise' /\ CopyInLog' /\ Dispatching'
    BY <1>1 DEF MessagesInv, Shown, PiecesRise, CopyInLog, Dispatching
  <2> QED BY <1>1, <2>1, Unmoved DEF MessagesInv
<1>2. ASSUME NEW t \in Printer, dispatch_message(t), reader' = reader
      PROVE  MessagesInv'
  <2>1. t \in Thread /\ t # "reader"
    BY ConsoleAssumption DEF Thread
  <2> QED BY <1>2, <2>1, DispatchKeeps DEF dispatch_message, stdoutVars
<1>3. CASE runner
  <2>1. UNCHANGED <<stdout, console_thread, message_queue_copy, destroyer>>
    BY <1>3 DEF runner
  <2>2. CASE ReaderLoops
    <3>1. reader = "loop" /\ reader' \in {"ended", "read"} /\ UNCHANGED <<messages, logged, sent, printing, printed, pipe>>
      BY <2>2, Zenon DEF ReaderLoops, messageVars
    <3> QED BY <1>1, <2>1, <3>1
  <2>3. CASE ReaderReads
    BY <2>1, <2>3, ReadKeeps
  <2>4. CASE ReaderPrints
    <3>1. "reader" \in Thread
      BY DEF Thread
    <3> QED BY <2>1, <2>4, <3>1, DispatchKeeps DEF ReaderPrints
  <2> QED BY <1>3, <2>2, <2>3, <2>4 DEF runner
<1>4. CASE setup_redirect \/ clear_redirect
  BY <1>1, <1>4 DEF setup_redirect, clear_redirect, messageVars, stdoutVars
<1>5. CASE ConsoleQuits \/ ConsolePostStart \/ initialize
  BY <1>1, <1>5 DEF ConsoleQuits, ConsolePostStart, initialize, messageVars, stdoutVars
<1>6. CASE UNCHANGED consoleVars
  BY <1>1, <1>6 DEF consoleVars, messageVars, stdoutVars
<1> QED
  BY <1>2, <1>3, <1>4, <1>5, <1>6, PrintKeeps, WriteKeeps, ConsoleThreadKeeps, DestroyKeeps
     DEF ConsoleNext

\* For every number of threads, of messages and of pieces, however threads
\* print, requests come and the window keeps up: each message is in the window
\* or on its way there, or was sent to the sender of a request, once, and those
\* of a thread in its order (dispatch_message, log_messages, message_redirect).
THEOREM ConsoleMessages == ConsoleSpec => []MessagesInOrder
<1>1. ConsoleTypeOK /\ MessagesInv => MessagesInOrder
  <2> SUFFICES ASSUME ConsoleTypeOK, MessagesInv PROVE MessagesInOrder
    OBVIOUS
  <2>1. ASSUME destroyer # "done", NEW t \in Printer
        PROVE  Numbers(t, Shown) \cup Numbers(t, sent)
                 = (1..printed[t]) \ (IF printing[t] = <<>> THEN {} ELSE {printed[t]})
    <3>1. t \in Thread
      BY DEF Thread
    <3>2. OnItsWay(t) = IF printing[t] = <<>> THEN {} ELSE {printed[t]}
      BY <3>1 DEF MessagesInv, Dispatching, OnItsWay
    <3> QED BY <2>1, <3>2 DEF MessagesInv, ArrivedOnce, Arrived
  <2> QED BY <2>1 DEF MessagesInv, ArrivedOnce, MessagesInOrder
<1> QED BY <1>1, ConsoleInitial, ConsoleStepTypes, MessagesStep, PTL DEF ConsoleSpec
-----------------------------------------------------------------------------
(* GameConsole: the line edited and the line executed.                     *)

GcSpec == GcInit /\ [][GcNext]_gcVars

\* What a line and a frame are made of, whatever their values.
ALine(b, c, f, m) == [buffer |-> b, cursor |-> c, fixed_input |-> f, matches |-> m]
IsLine(l) == \E b, c, f, m : l = ALine(b, c, f, m)
AFrame(step, i) == [at |-> step, input |-> i]
IsFrame(f) == \E step, i : f = AFrame(step, i)

\* The line after clear.
LEMMA EmptyLineIs == IsLine(EmptyLine) /\ EmptyLine.fixed_input = <<>> /\ EmptyLine.buffer = <<>>
<1>1. EmptyLine = ALine(<<>>, 0, <<>>, {})
  BY DEF EmptyLine, ALine
<1> QED BY <1>1, Zenon DEF IsLine, EmptyLine

\* A line with another text executes what it did.
LEMMA WithTextIs ==
  ASSUME NEW l, IsLine(l), NEW text, NEW n
  PROVE  /\ IsLine(WithText(l, text, n))
         /\ WithText(l, text, n).buffer = text
         /\ WithText(l, text, n).cursor = n
         /\ WithText(l, text, n).fixed_input = l.fixed_input
         /\ WithText(l, text, n).matches = l.matches
<1>1. PICK b, c, f, m : l = ALine(b, c, f, m)
  BY DEF IsLine
<1>2. WithText(l, text, n) = ALine(text, n, f, m)
  <2>1. WithText(l, text, n) = [[l EXCEPT !.buffer = text] EXCEPT !.cursor = n]
    BY <1>1 DEF ALine, WithText
  <2>2. [l EXCEPT !.buffer = text] = ALine(text, c, f, m)
    BY <1>1 DEF ALine
  <2>3. [ALine(text, c, f, m) EXCEPT !.cursor = n] = ALine(text, n, f, m)
    BY DEF ALine
  <2> QED BY <2>1, <2>2, <2>3, Zenon
<1>3. /\ ALine(text, n, f, m).buffer = text /\ ALine(text, n, f, m).cursor = n
      /\ ALine(text, n, f, m).fixed_input = f /\ l.fixed_input = f
      /\ ALine(text, n, f, m).matches = m /\ l.matches = m
  BY <1>1 DEF ALine
<1> QED BY <1>2, <1>3, Zenon DEF IsLine

\* A cleared line with a text on it executes nothing yet.
LEMMA ClearedText ==
  ASSUME NEW text, NEW n
  PROVE  IsLine(WithText(EmptyLine, text, n)) /\ WithText(EmptyLine, text, n).fixed_input = <<>>
<1>1. IsLine(EmptyLine) /\ EmptyLine.fixed_input = <<>>
  BY EmptyLineIs
<1>2. PICK l : l = EmptyLine
  OBVIOUS
<1>3. IsLine(l) /\ l.fixed_input = <<>>
  BY <1>1, <1>2
<1>4. IsLine(WithText(l, text, n)) /\ WithText(l, text, n).fixed_input = l.fixed_input
  BY <1>3, WithTextIs
<1> QED BY <1>2, <1>3, <1>4

\* A search leaves what it searched for in fixed_input.
LEMMA SearchedIs ==
  ASSUME NEW l, IsLine(l), NEW input
  PROVE  /\ IsLine(Searched(l, input))
         /\ Searched(l, input).buffer = l.buffer /\ Searched(l, input).cursor = l.cursor
         /\ Searched(l, input).fixed_input = input
         /\ Searched(l, input).matches = Matches(input)
<1> DEFINE n == Matches(input)
<1>1. PICK b, c, f, m : l = ALine(b, c, f, m)
  BY DEF IsLine
<1>2. Searched(l, input) = ALine(b, c, input, n)
  <2>1. Searched(l, input) = [l EXCEPT !.matches = n, !.fixed_input = input]
    BY Zenon DEF Searched
  <2> HIDE DEF n
  <2>2. [l EXCEPT !.matches = n, !.fixed_input = input] = [[l EXCEPT !.matches = n] EXCEPT !.fixed_input = input]
    BY <1>1 DEF ALine
  <2>3. [l EXCEPT !.matches = n] = ALine(b, c, f, n)
    BY <1>1 DEF ALine
  <2>4. [ALine(b, c, f, n) EXCEPT !.fixed_input = input] = ALine(b, c, input, n)
    BY DEF ALine
  <2> QED BY <2>1, <2>2, <2>3, <2>4, Zenon
<1> HIDE DEF n
<1>3. /\ ALine(b, c, input, n).buffer = b /\ l.buffer = b /\ ALine(b, c, input, n).cursor = c /\ l.cursor = c
      /\ ALine(b, c, input, n).fixed_input = input /\ ALine(b, c, input, n).matches = n
  BY <1>1 DEF ALine
<1>4. n = Matches(input)
  BY DEF n
<1> QED BY <1>2, <1>3, <1>4, Zenon DEF IsLine

\* A frame that has read the line and not searched yet has its text, as long as
\* the renderer has seen the line; one that has searched left it in fixed_input.
FrameInv ==
  /\ IsLine(line) /\ IsFrame(frame)
  /\ frame.at = "read" /\ fresh => frame.input = Unprefixed(line.buffer)
  /\ frame.at = "drawn" /\ ~disturbed => line.fixed_input = frame.input

\* What a frame has read last is what ENTER executes.
SeenInv == line.fixed_input = seen

\* The inductive invariant.
LineInv == FrameInv /\ ExecutesTheLine /\ SeenInv

\* No frame.
LEMMA IdleIs == IsFrame(Idle) /\ Idle.at = "idle" /\ Idle.at # "read" /\ Idle.at # "drawn"
<1>1. Idle = AFrame("idle", <<>>)
  BY DEF Idle, AFrame
<1>2. Idle.at = "idle" /\ Idle.at # "read" /\ Idle.at # "drawn"
  BY DEF Idle
<1> QED BY <1>1, <1>2, Zenon DEF IsFrame

\* The line is empty at first.
LEMMA LineInitial == GcInit => LineInv
<1> SUFFICES ASSUME GcInit PROVE LineInv
  OBVIOUS
<1>1. line = EmptyLine /\ frame = Idle /\ ~fresh /\ seen = <<>>
  BY Zenon DEF GcInit
<1>2. FrameInv /\ SeenInv
  BY <1>1, EmptyLineIs, IdleIs, Zenon DEF FrameInv, SeenInv
<1>3. ExecutesTheLine
  BY <1>1, EmptyLineIs, Zenon DEF ExecutesTheLine
<1> QED BY <1>2, <1>3, Zenon DEF LineInv

\* Editing that does not clear the line keeps what is executed.
LEMMA ExecutedKept ==
  ASSUME LineInv, NEW new, IsLine(new), new.fixed_input = line.fixed_input, Edit(new, FALSE)
  PROVE  LineInv'
<1>1. /\ line' = new /\ frame' = frame /\ seen' = IF FALSE THEN <<>> ELSE seen
      /\ disturbed' = (disturbed \/ (frame # Idle /\ FALSE))
      /\ fresh' = (fresh /\ ~FALSE /\ new.buffer = line.buffer)
  BY Zenon DEF Edit
<1>2. fresh' => fresh /\ line'.buffer = line.buffer
  BY <1>1, Zenon
<1>3. line'.fixed_input = line.fixed_input /\ IsLine(line')
  BY <1>1, Zenon
<1>4. frame' = frame /\ seen' = seen /\ (disturbed' <=> disturbed)
  BY <1>1, Zenon
<1>5. FrameInv'
  <2>1. frame.at = "read" /\ fresh => frame.input = Unprefixed(line.buffer)
    BY Zenon DEF LineInv, FrameInv
  <2>2. frame.at = "drawn" /\ ~disturbed => line.fixed_input = frame.input
    BY Zenon DEF LineInv, FrameInv
  <2>3. IsFrame(frame)
    BY Zenon DEF LineInv, FrameInv
  <2>4. frame'.at = "read" /\ fresh' => frame'.input = Unprefixed(line'.buffer)
    BY <1>2, <1>4, <2>1, Zenon
  <2>5. frame'.at = "drawn" /\ ~disturbed' => line'.fixed_input = frame'.input
    BY <1>3, <1>4, <2>2, Zenon
  <2>6. IsFrame(frame')
    BY <1>4, <2>3, Zenon
  <2> QED BY <1>3, <2>4, <2>5, <2>6, Zenon DEF FrameInv
<1>6. ExecutesTheLine'
  <2>1. fresh => line.fixed_input = IF line.buffer = <<>> THEN seen ELSE Unprefixed(line.buffer)
    BY Zenon DEF LineInv, ExecutesTheLine
  <2>2. ~disturbed /\ seen = <<>> => line.fixed_input = <<>>
    BY Zenon DEF LineInv, ExecutesTheLine
  <2>3. fresh' => line'.fixed_input = IF line'.buffer = <<>> THEN seen' ELSE Unprefixed(line'.buffer)
    BY <1>2, <1>3, <1>4, <2>1, Zenon
  <2>4. ~disturbed' /\ seen' = <<>> => line'.fixed_input = <<>>
    BY <1>3, <1>4, <2>2, Zenon
  <2> QED BY <2>3, <2>4, Zenon DEF ExecutesTheLine
<1>7. SeenInv'
  BY <1>3, <1>4, Zenon DEF LineInv, SeenInv
<1> QED BY <1>5, <1>6, <1>7, Zenon DEF LineInv

\* Another text on the line.
LEMMA EditKeeps ==
  ASSUME LineInv, NEW b, NEW c, Edit(WithText(line, b, c), FALSE)
  PROVE  LineInv'
<1>1. IsLine(line)
  BY DEF LineInv, FrameInv
<1> QED BY <1>1, WithTextIs, ExecutedKept, Zenon

\* A key that does nothing to the line.
LEMMA SameKeeps ==
  ASSUME LineInv, Edit(line, FALSE)
  PROVE  LineInv'
<1>1. IsLine(line)
  BY DEF LineInv, FrameInv
<1> QED BY <1>1, ExecutedKept, Zenon

\* A cleared line executes nothing, whoever cleared it.
LEMMA ClearKeeps ==
  ASSUME LineInv, IsLine(line'), line'.fixed_input = <<>>, seen' = <<>>,
         fresh' = FALSE, frame' = frame, disturbed' = (disturbed \/ frame # Idle)
  PROVE  LineInv'
<1>1. frame' = Idle \/ disturbed'
  BY Zenon
<1>2. Idle.at = "idle"
  BY DEF Idle
<1>3. FrameInv'
  <2>1. CASE frame' = Idle
    BY <1>2, <2>1 DEF LineInv, FrameInv
  <2>2. CASE disturbed'
    BY <2>2, Zenon DEF LineInv, FrameInv
  <2> QED BY <1>1, <2>1, <2>2
<1>4. ExecutesTheLine' /\ SeenInv'
  BY Zenon DEF ExecutesTheLine, SeenInv
<1> QED BY <1>3, <1>4, Zenon DEF LineInv

\* Editing that clears the line.
LEMMA EditClears ==
  ASSUME LineInv, NEW new, Edit(new, TRUE), IsLine(new), new.fixed_input = <<>>
  PROVE  LineInv'
<1>1. line' = new /\ frame' = frame
  BY DEF Edit
<1>2. ~fresh' /\ fresh' = FALSE /\ seen' = <<>>
  BY Zenon DEF Edit
<1>3. disturbed' = (disturbed \/ frame # Idle)
  BY Zenon DEF Edit
<1> QED BY <1>1, <1>2, <1>3, ClearKeeps, Zenon

\* One step per key and per step of a frame.
LEMMA LineStep == LineInv /\ [GcNext]_gcVars => LineInv'
<1> SUFFICES ASSUME LineInv, [GcNext]_gcVars PROVE LineInv'
  OBVIOUS
<1>1. ASSUME NEW c, console_char_event(c)
      PROVE  LineInv'
  <2>1. Edit(Typed(line, c), FALSE)
    BY <1>1, Zenon DEF console_char_event
  <2>2. CASE line.cursor = InputSize - 1
    BY <2>1, <2>2, SameKeeps, Zenon DEF Typed
  <2>3. CASE line.cursor # InputSize - 1
    BY <2>1, <2>3, EditKeeps, Zenon DEF Typed
  <2> QED BY <2>2, <2>3
<1>2. CASE BackspaceKey
  <2>1. CASE line.cursor = 0
    <3>1. Edit(line, FALSE)
      BY <1>2, <2>1, Zenon DEF BackspaceKey, EditOnly, Backspace
    <3> QED BY <3>1, SameKeeps
  <2>2. CASE line.cursor # 0
    BY <1>2, <2>2, EditKeeps, Zenon DEF BackspaceKey, EditOnly, Backspace
  <2> QED BY <2>1, <2>2
<1>3. CASE CompleteKey
  <2>1. PICK b, c : Completed(line, choice.text) = WithText(EmptyLine, b, c)
    BY Zenon DEF Completed
  <2>2. IsLine(WithText(EmptyLine, b, c)) /\ WithText(EmptyLine, b, c).fixed_input = <<>>
    BY ClearedText
  <2> QED BY <1>3, <2>1, <2>2, EditClears, Zenon DEF CompleteKey, EditOnly
<1>4. ASSUME NEW right \in BOOLEAN, CursorKey(right)
      PROVE  LineInv'
  BY <1>4, EditKeeps, Zenon DEF CursorKey, EditOnly
<1>5. CASE toggle_console
  BY <1>5, EmptyLineIs, EditClears, Zenon DEF toggle_console, EditOnly
<1>6. ASSUME NEW i, Edit(Recalled(i), TRUE)
      PROVE  LineInv'
  <2>1. IsLine(Recalled(i)) /\ Recalled(i).fixed_input = <<>>
    <3>1. CASE i = -1
      BY <3>1, EmptyLineIs, Zenon DEF Recalled
    <3>2. CASE i # -1
      <4>1. PICK b, c : Recalled(i) = WithText(EmptyLine, b, c)
        BY <3>2, Zenon DEF Recalled
      <4>2. IsLine(WithText(EmptyLine, b, c)) /\ WithText(EmptyLine, b, c).fixed_input = <<>>
        BY ClearedText
      <4> QED BY <4>1, <4>2, Zenon
    <3> QED BY <3>1, <3>2
  <2> QED BY <1>6, <2>1, EditClears, Zenon
<1>7. CASE UpKey \/ DownKey
  BY <1>6, <1>7, Zenon DEF UpKey, DownKey
<1>8. CASE ClearConsole
  BY <1>8, EmptyLineIs, ClearKeeps, Zenon DEF ClearConsole
<1>9. CASE EnterKey
  BY <1>9, EmptyLineIs, ClearKeeps, Zenon DEF EnterKey
<1>10. CASE draw_console
  <2>1. line' = line /\ fresh' = (fresh \/ line.buffer = <<>>) /\ seen' = seen /\ disturbed' = disturbed
    BY <1>10, Zenon DEF draw_console
  <2>2. FrameInv'
    <3>1. CASE frame' = Idle
      BY <2>1, <3>1 DEF LineInv, FrameInv, Idle, IsFrame, AFrame
    <3>2. CASE frame' = [at |-> "read", input |-> Unprefixed(line.buffer)]
      <4>1. frame'.at = "read" /\ frame'.input = Unprefixed(line.buffer) /\ IsFrame(frame')
        BY <3>2 DEF IsFrame, AFrame
      <4> QED BY <2>1, <4>1 DEF LineInv, FrameInv
    <3> QED BY <1>10, <3>1, <3>2, Zenon DEF draw_console
  <2>3. ExecutesTheLine' /\ SeenInv'
    BY <2>1, Zenon DEF LineInv, ExecutesTheLine, SeenInv
  <2> QED BY <2>2, <2>3, Zenon DEF LineInv
<1>11. CASE Search /\ ~disturbed
  <2>1. /\ frame.at = "read" /\ frame' = [frame EXCEPT !.at = "drawn"] /\ seen' = frame.input
        /\ fresh' = fresh /\ disturbed' = disturbed
    BY <1>11, Zenon DEF Search
  <2>2. frame'.at = "drawn" /\ frame'.input = frame.input /\ IsFrame(frame')
    BY <2>1 DEF LineInv, FrameInv, IsFrame, AFrame
  <2>3. IsLine(line') /\ line'.buffer = line.buffer /\ line'.fixed_input = frame.input
    <3>1. CASE frame.input = line.fixed_input
      <4>1. line' = line
        BY <1>11, <3>1, Zenon DEF Search
      <4> QED BY <3>1, <4>1, Zenon DEF LineInv, FrameInv
    <3>2. CASE frame.input # line.fixed_input
      <4>1. line' = Searched(line, frame.input)
        BY <1>11, <3>2, Zenon DEF Search
      <4>2. IsLine(line)
        BY DEF LineInv, FrameInv
      <4> QED BY <4>1, <4>2, SearchedIs, Zenon
    <3> QED BY <3>1, <3>2
  <2>4. FrameInv'
    BY <2>2, <2>3 DEF FrameInv
  <2>5. ExecutesTheLine' /\ SeenInv'
    BY <2>1, <2>3, Zenon DEF LineInv, FrameInv, ExecutesTheLine, SeenInv
  <2> QED BY <2>4, <2>5, Zenon DEF LineInv
<1>12. CASE DrawHints /\ ~disturbed
  <2>1. /\ frame.at = "drawn" /\ frame' = Idle /\ fresh' = (frame.input = Unprefixed(line.buffer))
        /\ line' = line /\ seen' = seen /\ disturbed' = disturbed
    BY <1>12, Zenon DEF DrawHints
  <2>2. FrameInv'
    BY <2>1 DEF LineInv, FrameInv, Idle, IsFrame, AFrame
  <2>3. line.fixed_input = frame.input
    BY <1>12, <2>1, Zenon DEF LineInv, FrameInv
  <2>4. ExecutesTheLine' /\ SeenInv'
    BY <2>1, <2>3, Zenon DEF LineInv, ExecutesTheLine, SeenInv
  <2> QED BY <2>2, <2>4, Zenon DEF LineInv
<1>13. CASE UNCHANGED gcVars
  BY <1>13, Zenon DEF gcVars, LineInv, FrameInv, ExecutesTheLine, SeenInv
<1> QED
  BY <1>1, <1>2, <1>3, <1>4, <1>5, <1>7, <1>8, <1>9, <1>10, <1>11, <1>12, <1>13, Zenon DEF GcNext

\* Whatever the keys and names are, and however typing, clearing and drawing
\* interleave: once the renderer has seen the line as it is, ENTER executes it,
\* or, of a line erased to nothing, the last text a frame has read from it, and
\* nothing if no frame has read any, while no line was cleared in the middle of a
\* frame (game_console.cpp: draw_input and console_key_event).
THEOREM LineExecuted == GcSpec => []ExecutesTheLine
<1>1. LineInv => ExecutesTheLine
  BY DEF LineInv
<1> QED BY <1>1, LineInitial, LineStep, PTL DEF GcSpec
-----------------------------------------------------------------------------
(* ConsoleOutput: the window stays within reach of the newest line.        *)

\* The types of the output (game_console.cpp, con).
OutputTypeOK ==
  /\ output \in Seq(Nat)
  /\ scroll \in [offset : Nat, visible : Nat]
  /\ clearing \in BOOLEAN /\ resized \in BOOLEAN /\ torn \in BOOLEAN

\* At most OutputSize lines, in the order of their prints.
LinesInOrder ==
  /\ Len(output) <= OutputSize
  /\ \A i \in 1..Len(output) - 1 : output[i + 1] = output[i] + 1

\* The first line shown is at the front until the window is full, then at most
\* one past the last place that fills it; a clear goes on from the front.
WindowFollows ==
  ~resized /\ ~torn =>
    /\ Len(output) < scroll.visible => scroll.offset = 0
    /\ Len(output) >= scroll.visible => scroll.offset <= Len(output) - scroll.visible + 1
    /\ clearing => scroll.offset = 0

OutputInv == OutputTypeOK /\ LinesInOrder /\ WindowFollows

\* What a record of the window is made of.
LEMMA WindowIs ==
  ASSUME NEW s \in [offset : Nat, visible : Nat], NEW n \in Nat
  PROVE  /\ s.offset \in Nat /\ s.visible \in Nat
         /\ [s EXCEPT !.offset = n] \in [offset : Nat, visible : Nat]
         /\ [s EXCEPT !.offset = n].offset = n /\ [s EXCEPT !.offset = n].visible = s.visible
         /\ [s EXCEPT !.visible = n] \in [offset : Nat, visible : Nat]
         /\ [s EXCEPT !.visible = n].offset = s.offset /\ [s EXCEPT !.visible = n].visible = n
OBVIOUS

\* At first nothing is shown of no line.
LEMMA OutputInitial == OutputInit => OutputInv
<1> SUFFICES ASSUME OutputInit PROVE OutputInv
  OBVIOUS
<1>1. output = <<>> /\ Len(output) = 0 /\ output \in Seq(Nat)
  BY DEF OutputInit
<1>2. scroll \in [offset : Nat, visible : Nat] /\ scroll.offset = 0 /\ scroll.visible = 0
  BY DEF OutputInit
<1>3. OutputTypeOK
  BY <1>1, <1>2 DEF OutputInit, OutputTypeOK
<1>4. LinesInOrder
  BY <1>1, ConsoleOutputAssumption DEF LinesInOrder
<1>5. WindowFollows
  BY <1>1, <1>2 DEF WindowFollows
<1> QED BY <1>3, <1>4, <1>5 DEF OutputInv

\* A line printed: it is the newest, the oldest goes, and the window follows.
LEMMA PrintFollows ==
  ASSUME OutputInv, print_internal
  PROVE  OutputInv'
<1> DEFINE last == IF output = <<>> THEN 0 ELSE output[Len(output)]
           grown == Append(output, last + 1)
<1>1. Len(output) \in Nat /\ (output = <<>> <=> Len(output) = 0) /\ OutputSize \in Nat
  BY EmptySeq, LenProperties, ConsoleOutputAssumption DEF OutputInv, OutputTypeOK
<1>2. last \in Nat /\ last + 1 \in Nat
  <2>1. CASE output = <<>>
    BY <2>1
  <2>2. CASE output # <<>>
    <3>1. Len(output) \in 1..Len(output)
      BY <1>1, <2>2
    <3> QED BY <2>2, <3>1, ElementOfSeq DEF OutputInv, OutputTypeOK
  <2> QED BY <2>1, <2>2
<1>3. /\ grown \in Seq(Nat) /\ Len(grown) = Len(output) + 1 /\ grown[Len(output) + 1] = last + 1
      /\ \A k \in 1..Len(output) : grown[k] = output[k]
  BY <1>2, AppendElements DEF OutputInv, OutputTypeOK
<1>4. \A i \in 1..Len(grown) - 1 : grown[i + 1] = grown[i] + 1
  <2> SUFFICES ASSUME NEW i \in 1..Len(output) PROVE grown[i + 1] = grown[i] + 1
    BY <1>1, <1>3
  <2>1. CASE i = Len(output)
    BY <1>1, <1>3, <2>1
  <2>2. CASE i # Len(output)
    <3>1. i \in 1..Len(output) - 1 /\ i + 1 \in 1..Len(output)
      BY <1>1, <2>2
    <3> QED BY <1>3, <3>1 DEF OutputInv, LinesInOrder
  <2> QED BY <2>1, <2>2
<1>5. /\ output' = IF Len(grown) > OutputSize THEN Tail(grown) ELSE grown
      /\ scroll' = IF scroll.visible > 0 /\ scroll.offset = Len(output) - scroll.visible
                   THEN [scroll EXCEPT !.offset = @ + 1] ELSE scroll
      /\ torn' = (torn \/ clearing) /\ clearing' = clearing /\ resized' = resized
  BY DEF print_internal
<1> HIDE DEF last, grown
<1>6. /\ output' \in Seq(Nat) /\ LinesInOrder'
      /\ Len(output') = IF Len(output) = OutputSize THEN OutputSize ELSE Len(output) + 1
  <2>1. CASE Len(grown) > OutputSize
    <3>1. output' = Tail(grown) /\ grown # <<>> /\ Len(output) = OutputSize
      BY <1>1, <1>3, <1>5, <2>1 DEF OutputInv, LinesInOrder
    <3>2. /\ output' \in Seq(Nat) /\ Len(output') = Len(grown) - 1
          /\ \A k \in 1..Len(grown) - 1 : output'[k] = grown[k + 1]
      BY <1>3, <3>1, TailElements
    <3>3. \A i \in 1..Len(output') - 1 : i + 1 \in 1..Len(grown) - 1 /\ i \in 1..Len(grown) - 1
      BY <1>1, <1>3, <3>2
    <3> QED BY <1>1, <1>3, <1>4, <3>1, <3>2, <3>3 DEF LinesInOrder
  <2>2. CASE ~(Len(grown) > OutputSize)
    BY <1>1, <1>3, <1>4, <1>5, <2>2 DEF LinesInOrder
  <2> QED BY <2>1, <2>2
<1>7. /\ scroll.offset \in Nat /\ scroll.visible \in Nat
      /\ scroll' \in [offset : Nat, visible : Nat] /\ scroll'.visible = scroll.visible
      /\ scroll'.offset = IF scroll.visible > 0 /\ scroll.offset = Len(output) - scroll.visible
                          THEN scroll.offset + 1 ELSE scroll.offset
  BY <1>5, WindowIs DEF OutputInv, OutputTypeOK
<1>8. WindowFollows'
  <2> SUFFICES ASSUME ~resized', ~torn'
               PROVE  /\ Len(output') < scroll'.visible => scroll'.offset = 0
                      /\ Len(output') >= scroll'.visible => scroll'.offset <= Len(output') - scroll'.visible + 1
                      /\ clearing' => scroll'.offset = 0
    BY DEF WindowFollows
  <2>1. ~resized /\ ~torn /\ ~clearing /\ ~clearing'
    BY <1>5 DEF OutputInv, OutputTypeOK
  <2>2. /\ Len(output) < scroll.visible => scroll.offset = 0
        /\ Len(output) >= scroll.visible => scroll.offset <= Len(output) - scroll.visible + 1
    BY <2>1 DEF OutputInv, WindowFollows
  <2>3. Len(output) <= OutputSize
    BY DEF OutputInv, LinesInOrder
  <2>4. CASE Len(output) = OutputSize
    BY <1>1, <1>6, <1>7, <2>1, <2>2, <2>4
  <2>5. CASE Len(output) # OutputSize
    BY <1>1, <1>6, <1>7, <2>1, <2>2, <2>3, <2>5
  <2> QED BY <2>4, <2>5
<1> QED BY <1>5, <1>6, <1>7, <1>8 DEF OutputInv, OutputTypeOK

\* One step per operation.
LEMMA OutputStep == OutputInv /\ [OutputNext]_outputVars => OutputInv'
<1> SUFFICES ASSUME OutputInv, [OutputNext]_outputVars PROVE OutputInv'
  OBVIOUS
<1>1. Len(output) \in Nat /\ OutputSize \in Nat /\ scroll.offset \in Nat /\ scroll.visible \in Nat
  BY LenProperties, WindowIs, ConsoleOutputAssumption DEF OutputInv, OutputTypeOK
<1>2. CASE print_internal
  BY <1>2, PrintFollows
<1>3. ASSUME NEW down \in BOOLEAN, ScrollKey(down)
      PROVE  OutputInv'
  <2>1. UNCHANGED <<output, clearing, resized, torn>> /\ scroll' = Scrolled(down) /\ ~clearing
    BY <1>3 DEF ScrollKey
  <2>2. CASE scroll' = scroll
    BY <2>1, <2>2 DEF OutputInv, OutputTypeOK, LinesInOrder, WindowFollows
  <2>3. CASE ~down /\ Len(output) > scroll.visible /\ scroll.offset > 0
    <3>1. scroll' = [scroll EXCEPT !.offset = scroll.offset - 1]
      BY <2>1, <2>3 DEF Scrolled
    <3>2. scroll' \in [offset : Nat, visible : Nat] /\ scroll'.offset = scroll.offset - 1 /\ scroll'.visible = scroll.visible
      BY <1>1, <2>3, <3>1, WindowIs DEF OutputInv, OutputTypeOK
    <3>3. OutputTypeOK' /\ LinesInOrder'
      BY <2>1, <3>2, Zenon DEF OutputInv, OutputTypeOK, LinesInOrder
    <3>4. WindowFollows'
      BY <1>1, <2>1, <2>3, <3>2 DEF OutputInv, WindowFollows
    <3> QED BY <3>3, <3>4 DEF OutputInv
  <2>4. CASE down /\ Len(output) > scroll.visible /\ scroll.offset < Len(output) - scroll.visible
    <3>1. scroll' = [scroll EXCEPT !.offset = scroll.offset + 1]
      BY <2>1, <2>4 DEF Scrolled
    <3>2. scroll' \in [offset : Nat, visible : Nat] /\ scroll'.offset = scroll.offset + 1 /\ scroll'.visible = scroll.visible
      BY <1>1, <3>1, WindowIs DEF OutputInv, OutputTypeOK
    <3>3. OutputTypeOK' /\ LinesInOrder'
      BY <2>1, <3>2, Zenon DEF OutputInv, OutputTypeOK, LinesInOrder
    <3>4. WindowFollows'
      <4>1. ~resized /\ ~torn => scroll.offset <= Len(output) - scroll.visible + 1
        BY <1>1, <2>4 DEF OutputInv, WindowFollows
      <4>2. ~(Len(output) < scroll.visible) /\ scroll.offset + 1 <= Len(output) - scroll.visible + 1
        BY <1>1, <2>4
      <4>3. Len(output') = Len(output) /\ scroll'.offset = scroll.offset + 1 /\ scroll'.visible = scroll.visible
            /\ ~clearing'
        BY <2>1, <3>2
      <4> HIDE <2>1, <3>2
      <4> QED BY <4>2, <4>3, Zenon DEF WindowFollows
    <3> QED BY <3>3, <3>4 DEF OutputInv
  <2> QED BY <2>1, <2>2, <2>3, <2>4 DEF Scrolled
<1>4. CASE ClearOffset
  <2>1. scroll' = [scroll EXCEPT !.offset = 0] /\ clearing' = TRUE /\ UNCHANGED <<output, resized, torn>>
    BY <1>4 DEF ClearOffset
  <2>2. scroll' \in [offset : Nat, visible : Nat] /\ scroll'.offset = 0 /\ scroll'.visible = scroll.visible
    BY <2>1, WindowIs DEF OutputInv, OutputTypeOK
  <2>3. OutputTypeOK' /\ LinesInOrder'
    BY <2>1, <2>2, Zenon DEF OutputInv, OutputTypeOK, LinesInOrder
  <2>4. WindowFollows'
    BY <1>1, <2>1, <2>2 DEF OutputInv, WindowFollows
  <2> QED BY <2>3, <2>4 DEF OutputInv
<1>5. CASE ClearLines
  <2>1. output' = <<>> /\ Len(output') = 0 /\ output' \in Seq(Nat) /\ clearing /\ clearing' = FALSE
        /\ UNCHANGED <<scroll, resized, torn>>
    BY <1>5 DEF ClearLines
  <2>2. ~resized /\ ~torn => scroll.offset = 0
    BY <2>1 DEF OutputInv, WindowFollows
  <2>3. OutputTypeOK'
    BY <2>1 DEF OutputInv, OutputTypeOK
  <2>4. LinesInOrder'
    BY <1>1, <2>1 DEF LinesInOrder
  <2>5. WindowFollows'
    BY <1>1, <2>1, <2>2 DEF WindowFollows
  <2> QED BY <2>3, <2>4, <2>5 DEF OutputInv
<1>6. ASSUME NEW visible \in Visible, check_resize(visible)
      PROVE  OutputInv'
  <2>1. /\ scroll' = [scroll EXCEPT !.visible = visible] /\ UNCHANGED <<output, clearing, torn>>
        /\ resized' = (resized \/ (visible # scroll.visible /\ scroll # [offset |-> 0, visible |-> 0]))
    BY <1>6 DEF check_resize
  <2>2. visible \in Nat
    BY ConsoleOutputAssumption
  <2>3. scroll' \in [offset : Nat, visible : Nat] /\ scroll'.offset = scroll.offset /\ scroll'.visible = visible
    BY <2>1, <2>2, WindowIs DEF OutputInv, OutputTypeOK
  <2>4. ~resized' => ~resized /\ (visible = scroll.visible \/ scroll = [offset |-> 0, visible |-> 0])
    BY <2>1, Zenon
  <2>5. scroll = [offset |-> 0, visible |-> 0] => scroll.offset = 0
    OBVIOUS
  <2>6. OutputTypeOK'
    BY <2>1, <2>3 DEF OutputInv, OutputTypeOK
  <2>7. LinesInOrder'
    BY <2>1, Zenon DEF OutputInv, LinesInOrder
  <2>8. WindowFollows'
    BY <1>1, <2>1, <2>2, <2>3, <2>4, <2>5 DEF OutputInv, WindowFollows
  <2> QED BY <2>6, <2>7, <2>8 DEF OutputInv
<1>7. CASE UNCHANGED outputVars
  BY <1>7 DEF outputVars, OutputInv, OutputTypeOK, LinesInOrder, WindowFollows
<1> QED BY <1>2, <1>3, <1>4, <1>5, <1>6, <1>7 DEF OutputNext

\* A window that is not past the newest line by more than one shows a line.
LEMMA WindowShows == OutputInv => OutputInReach
<1> SUFFICES ASSUME OutputInv PROVE OutputInReach
  OBVIOUS
<1>1. Len(output) \in Nat /\ scroll.offset \in Nat /\ scroll.visible \in Nat
  BY LenProperties, WindowIs DEF OutputInv, OutputTypeOK
<1>2. ASSUME ~resized, ~torn, Len(output) > scroll.visible
      PROVE  /\ scroll.offset <= Len(output) - scroll.visible + 1
             /\ scroll.visible > 1 => draw_output_text # {}
  <2>1. scroll.offset <= Len(output) - scroll.visible + 1
    BY <1>1, <1>2 DEF OutputInv, WindowFollows
  <2>2. scroll.visible > 1 => scroll.offset + 1 \in draw_output_text
    BY <1>1, <2>1 DEF draw_output_text
  <2> QED BY <2>1, <2>2
<1> QED BY <1>2 DEF OutputInv, LinesInOrder, OutputInReach
-----------------------------------------------------------------------------
(* GameConsole: the cursor, the line and the line recalled are there.      *)

Text == Seq(Letter \cup {Slash, Space})

\* A text with room for its end in the buffer.
Short == {text \in Text : Len(text) < InputSize}

\* A text with room for a slash in front and a space behind it.
Offered == {text \in Text : Len(text) + 1 <= InputSize - 2}

\* The types of what is edited, recalled and drawn (game_console.cpp).
EditTypeOK ==
  /\ IsLine(line) /\ line.buffer \in Short /\ line.cursor \in 0..Len(line.buffer)
  /\ line.matches \subseteq DOMAIN Names
  /\ choice \in [text : Offered, may : BOOLEAN]
  /\ history \in Seq(Short) /\ history_index \in Int

\* The line recalled is one of the history, or none.
RecallInBounds == history_index \in -1..Len(history) - 1 /\ Len(history) <= HistorySize

\* The cursor, the line and the line recalled are where they should be.
Within == EditTypeOK /\ RecallInBounds

\* The inductive invariant: behind an overrun nothing is said, nor done.
EditInv == overrun \/ Within

\* What a line has when another text is put on it.
LineWith(l, text, n) ==
  IsLine(l) /\ l.buffer = text /\ l.cursor = n /\ l.matches \subseteq DOMAIN Names

LEMMA EmptyLineParts == LineWith(EmptyLine, <<>>, 0)
<1>1. EmptyLine.cursor = 0 /\ EmptyLine.matches = {}
  BY DEF EmptyLine
<1> QED BY <1>1, EmptyLineIs, Zenon DEF LineWith

LEMMA WithTextParts ==
  ASSUME NEW l, IsLine(l), l.matches \subseteq DOMAIN Names, NEW text, NEW n
  PROVE  LineWith(WithText(l, text, n), text, n)
<1>1. /\ IsLine(WithText(l, text, n)) /\ WithText(l, text, n).buffer = text
      /\ WithText(l, text, n).cursor = n /\ WithText(l, text, n).matches = l.matches
  BY WithTextIs
<1>2. WithText(l, text, n).matches \subseteq DOMAIN Names
  BY <1>1
<1> QED BY <1>1, <1>2, Zenon DEF LineWith

\* Nothing is a text, and short enough.
LEMMA EmptyShort == <<>> \in Short /\ Len(<<>>) = 0 /\ <<>> \in Text /\ <<>> \in Offered
<1>1. <<>> \in Text /\ Len(<<>>) = 0
  BY DEF Text
<1> QED BY <1>1, GameConsoleAssumption DEF Short, Offered

\* A character typed into a text.
LEMMA InsertElements ==
  ASSUME NEW S, NEW s \in Seq(S), NEW n \in 0..Len(s), NEW c \in S
  PROVE  InsertAt(s, n + 1, c) \in Seq(S) /\ Len(InsertAt(s, n + 1, c)) = Len(s) + 1
<1> DEFINE u == SubSeq(s, 1, n)
           v == SubSeq(s, n + 1, Len(s))
<1>1. u \in Seq(S) /\ v \in Seq(S) /\ u \o v = s
  BY SubSeqCut
<1>2. Len(u) \in Nat /\ Len(v) \in Nat /\ Len(s) = Len(u) + Len(v)
  BY <1>1, LenProperties, ConcatProperties
<1>3. <<c>> \in Seq(S) /\ Len(<<c>>) = 1
  OBVIOUS
<1>4. u \o <<c>> \in Seq(S) /\ Len(u \o <<c>>) = Len(u) + 1
  BY <1>1, <1>3, ConcatProperties
<1>5. (u \o <<c>>) \o v \in Seq(S) /\ Len((u \o <<c>>) \o v) = (Len(u) + 1) + Len(v)
  <2>1. PICK w \in Seq(S) : w = u \o <<c>>
    BY <1>4
  <2>2. w \o v \in Seq(S) /\ Len(w \o v) = Len(w) + Len(v)
    BY <1>1, ConcatProperties
  <2> HIDE DEF u, v
  <2> QED BY <1>4, <2>1, <2>2
<1>6. InsertAt(s, n + 1, c) = (u \o <<c>>) \o v
  <2>1. InsertAt(s, n + 1, c) = SubSeq(s, 1, (n + 1) - 1) \o <<c>> \o v
    BY Zenon DEF InsertAt
  <2>2. (n + 1) - 1 = n
    OBVIOUS
  <2> QED BY <2>1, <2>2, Zenon
<1> HIDE DEF u, v
<1>7. (Len(u) + 1) + Len(v) = Len(s) + 1
  BY <1>2
<1> QED BY <1>5, <1>6, <1>7, Zenon

LEMMA TypedText ==
  \A s \in Text : \A n \in 0..Len(s) : \A c \in Letter \cup {Slash, Space} :
    InsertAt(s, n + 1, c) \in Text /\ Len(InsertAt(s, n + 1, c)) = Len(s) + 1
BY InsertElements DEF Text

\* The names are texts.
LEMMA NamesAreTexts == \A i \in DOMAIN Names : Names[i] \in Offered
<1>1. Letter \subseteq Letter \cup {Slash, Space}
  OBVIOUS
<1>2. Seq(Letter) \subseteq Text
  BY <1>1, SeqMonotonic DEF Text
<1>3. Names \in Seq(Seq(Letter))
  BY GameConsoleAssumption
<1>4. \A i \in DOMAIN Names : Names[i] \in Seq(Letter)
  BY <1>3
<1> QED BY <1>2, <1>4, GameConsoleAssumption DEF Offered

\* The first of the names that match is a name.
LEMMA FirstMatch ==
  ASSUME NEW m, m \subseteq DOMAIN Names, m # {}
  PROVE  Names[Min(m)] \in Offered
<1>1. Names \in Seq(Seq(Letter))
  BY GameConsoleAssumption
<1>2. m \subseteq Nat
  BY <1>1
<1>3. \E x \in m : \A y \in m : x =< y
  BY <1>2, LeastNatural
<1>4. Min(m) \in m
  BY <1>3, Zenon DEF Min
<1> QED BY <1>4, NamesAreTexts

LEMMA MatchesAreNames == \A input : Matches(input) \subseteq DOMAIN Names
<1>1. \A input, exact : find_matches(input, exact) \subseteq DOMAIN Names
  BY DEF find_matches
<1> QED BY <1>1, Zenon DEF Matches

\* The console is empty at first.
LEMMA EditInitial == GcInit => EditInv
<1> SUFFICES ASSUME GcInit PROVE Within
  BY DEF EditInv
<1>1. line = EmptyLine /\ choice = NoChoice /\ history = <<>> /\ history_index = -1
  BY Zenon DEF GcInit
<1>2. line.buffer \in Short /\ line.cursor \in 0..Len(line.buffer)
  BY <1>1, EmptyLineParts, EmptyShort DEF LineWith
<1>3. NoChoice \in [text : Offered, may : BOOLEAN]
  BY EmptyShort DEF NoChoice
<1>4. history \in Seq(Short) /\ Len(history) = 0
  BY <1>1
<1>5. RecallInBounds
  BY <1>1, <1>4, GameConsoleAssumption DEF RecallInBounds
<1>6. IsLine(line) /\ line.matches \subseteq DOMAIN Names
  BY <1>1, EmptyLineParts, Zenon DEF LineWith
<1> QED BY <1>1, <1>2, <1>3, <1>4, <1>5, <1>6 DEF Within, EditTypeOK

\* A line edited whose text was within the buffer and whose cursor is on it.
LEMMA EditedInBounds ==
  ASSUME Within, NEW new, NEW cleared, Edit(new, cleared),
         NEW text \in Short, NEW n \in 0..Len(text), LineWith(new, text, n)
  PROVE  /\ IsLine(line') /\ line'.buffer \in Short /\ line'.cursor \in 0..Len(line'.buffer)
         /\ line'.matches \subseteq DOMAIN Names
         /\ choice' \in [text : Offered, may : BOOLEAN]
<1>1. line' = new /\ choice' = choice
  BY Zenon DEF Edit
<1>2. IsLine(new) /\ new.buffer = text /\ new.cursor = n /\ new.matches \subseteq DOMAIN Names
  BY Zenon DEF LineWith
<1> QED BY <1>1, <1>2, Zenon DEF Within, EditTypeOK

LEMMA TypedInBounds ==
  ASSUME Within, NEW new, NEW cleared, Edit(new, cleared), UNCHANGED <<history, history_index>>,
         NEW text \in Short, NEW n \in 0..Len(text), LineWith(new, text, n)
  PROVE  Within'
<1>1. /\ IsLine(line') /\ line'.buffer \in Short /\ line'.cursor \in 0..Len(line'.buffer)
      /\ line'.matches \subseteq DOMAIN Names
      /\ choice' \in [text : Offered, may : BOOLEAN]
  BY EditedInBounds
<1> QED BY <1>1, Zenon DEF Within, EditTypeOK, RecallInBounds

LEMMA EditOnlyInBounds ==
  ASSUME Within, NEW new, NEW cleared, EditOnly(new, cleared),
         NEW text \in Short, NEW n \in 0..Len(text), LineWith(new, text, n)
  PROVE  Within'
<1>1. Edit(new, cleared) /\ history' = history /\ history_index' = history_index
  BY Zenon DEF EditOnly
<1> QED BY <1>1, TypedInBounds

\* A line recalled is one of the history, with the cursor behind it.
LEMMA RecalledInBounds ==
  ASSUME Within, NEW i \in -1..Len(history) - 1, Edit(Recalled(i), TRUE),
         history_index' = i, history' = history
  PROVE  Within'
<1>1. \E text \in Short : \E n \in 0..Len(text) : LineWith(Recalled(i), text, n)
  <2>1. CASE i = -1
    <3>1. Recalled(i) = EmptyLine
      BY <2>1, Zenon DEF Recalled
    <3> QED BY <3>1, EmptyLineParts, EmptyShort
  <2>2. CASE i # -1
    <3>1. Len(history) \in Nat /\ history \in Seq(Short)
      BY LenProperties DEF Within, EditTypeOK
    <3>2. i + 1 \in 1..Len(history)
      BY <2>2, <3>1
    <3>3. history[i + 1] \in Short
      BY <3>1, <3>2, ElementOfSeq
    <3>4. PICK text \in Short : text = history[i + 1]
      BY <3>3
    <3>5. Len(text) \in 0..Len(text)
      BY LenProperties DEF Text, Short
    <3>6. Recalled(i) = WithText(EmptyLine, text, Len(text))
      BY <2>2, <3>4, Zenon DEF Recalled
    <3>7. LineWith(WithText(EmptyLine, text, Len(text)), text, Len(text))
      BY EmptyLineParts, WithTextParts, Zenon DEF LineWith
    <3> QED BY <3>5, <3>6, <3>7
  <2> QED BY <2>1, <2>2
<1>2. /\ IsLine(line') /\ line'.buffer \in Short /\ line'.cursor \in 0..Len(line'.buffer)
      /\ line'.matches \subseteq DOMAIN Names
      /\ choice' \in [text : Offered, may : BOOLEAN]
  BY <1>1, EditedInBounds
<1>3. i \in Int
  OBVIOUS
<1> QED BY <1>2, <1>3, Zenon DEF Within, EditTypeOK, RecallInBounds

\* ENTER: the line is remembered in front, and the oldest goes.
LEMMA EnteredInBounds ==
  ASSUME Within, NEW text \in Short
  PROVE  Entered(text) \in Seq(Short) /\ Len(Entered(text)) <= HistorySize
<1> DEFINE others == IF history_index # -1 /\ history[history_index + 1] = text
                     THEN RemoveAt(history, history_index + 1) ELSE history
           all == <<text>> \o others
<1>1. history \in Seq(Short) /\ Len(history) \in Nat /\ HistorySize \in Nat /\ Len(history) <= HistorySize
  BY LenProperties, GameConsoleAssumption DEF Within, EditTypeOK, RecallInBounds
<1>2. others \in Seq(Short) /\ Len(others) \in Nat /\ Len(others) <= HistorySize
  <2>1. CASE history_index # -1 /\ history[history_index + 1] = text
    <3>1. history_index + 1 \in 1..Len(history)
      BY <1>1, <2>1 DEF Within, RecallInBounds
    <3>2. RemoveAt(history, history_index + 1) \in Seq(Short)
          /\ Len(RemoveAt(history, history_index + 1)) = Len(history) - 1
      BY <1>1, <3>1, RemoveElements
    <3>3. others = RemoveAt(history, history_index + 1)
      BY <2>1
    <3> HIDE DEF others
    <3> QED BY <1>1, <3>1, <3>2, <3>3
  <2>2. CASE ~(history_index # -1 /\ history[history_index + 1] = text)
    BY <1>1, <2>2
  <2> QED BY <2>1, <2>2
<1> HIDE DEF others
<1>3. <<text>> \in Seq(Short) /\ Len(<<text>>) = 1
  OBVIOUS
<1>4. all \in Seq(Short) /\ Len(all) = 1 + Len(others)
  BY <1>2, <1>3, ConcatProperties
<1>5. Entered(text) = IF Len(all) > HistorySize THEN RemoveAt(all, HistorySize + 1) ELSE all
  BY Zenon DEF Entered, others
<1> HIDE DEF all
<1>6. CASE Len(all) > HistorySize
  <2>1. HistorySize + 1 \in 1..Len(all) /\ Len(all) = HistorySize + 1
    BY <1>1, <1>2, <1>4, <1>6
  <2>2. RemoveAt(all, HistorySize + 1) \in Seq(Short) /\ Len(RemoveAt(all, HistorySize + 1)) = Len(all) - 1
    BY <1>4, <2>1, RemoveElements
  <2> QED BY <1>1, <1>5, <1>6, <2>1, <2>2
<1>7. CASE ~(Len(all) > HistorySize)
  BY <1>1, <1>2, <1>4, <1>5, <1>7
<1> QED BY <1>6, <1>7

\* A cleared line is in bounds, with whatever is remembered.
LEMMA ClearedInBounds ==
  ASSUME Within, line' = EmptyLine, choice' = choice, history_index' = -1,
         history' \in Seq(Short), Len(history') <= HistorySize
  PROVE  Within'
<1>1. Len(history') \in Nat /\ -1 \in Int
  BY LenProperties
<1>2. history_index' \in -1..Len(history') - 1
  BY <1>1
<1>3. 0 \in 0..Len(<<>>)
  BY EmptyShort
<1> QED BY <1>1, <1>2, <1>3, EmptyLineParts, EmptyShort, Zenon
        DEF Within, EditTypeOK, RecallInBounds, LineWith

\* One step per key and per step of a frame.
LEMMA EditStep == EditInv /\ [GcNext]_gcVars => EditInv'
<1> SUFFICES ASSUME Within, ~overrun, [GcNext]_gcVars PROVE EditInv'
  <2>1. CASE overrun
    <3> SUFFICES ASSUME [GcNext]_gcVars PROVE overrun'
      BY DEF EditInv
    <3> QED BY <2>1, Zenon DEF GcNext, gcVars
  <2> QED BY <2>1 DEF EditInv
<1> DEFINE buffer == line.buffer
           cursor == line.cursor
<1>0. /\ IsLine(line) /\ line.matches \subseteq DOMAIN Names
      /\ buffer \in Text /\ Len(buffer) \in Nat /\ cursor \in 0..Len(buffer)
      /\ LineWith(line, buffer, cursor) /\ buffer \in Short /\ Len(buffer) < InputSize /\ InputSize \in Nat
  BY LenProperties, GameConsoleAssumption DEF Within, EditTypeOK, Short, Text, LineWith
<1>e. EditInv' <=> overrun' \/ Within'
  BY DEF EditInv
<1>1. ASSUME NEW c \in Typeable, console_char_event(c)
      PROVE  EditInv'
  <2>1. Edit(Typed(line, c), FALSE) /\ overrun' = Overruns(line) /\ UNCHANGED <<history, history_index>>
    BY <1>1, Zenon DEF console_char_event
  <2>2. CASE line.cursor = InputSize - 1
    <3>1. Typed(line, c) = line
      BY <2>2, Zenon DEF Typed
    <3> QED BY <1>0, <1>e, <2>1, <3>1, TypedInBounds
  <2>3. CASE line.cursor # InputSize - 1 /\ Len(line.buffer) = InputSize - 1
    BY <1>e, <2>1, <2>3, Zenon DEF Overruns
  <2>4. CASE line.cursor # InputSize - 1 /\ Len(line.buffer) # InputSize - 1
    <3>1. Typed(line, c) = WithText(line, InsertAt(buffer, cursor + 1, c), cursor + 1)
      BY <2>4, Zenon DEF Typed
    <3>2. c \in Letter \cup {Slash, Space}
      BY <1>1, GameConsoleAssumption DEF Typeable
    <3>3. InsertAt(buffer, cursor + 1, c) \in Text /\ Len(InsertAt(buffer, cursor + 1, c)) = Len(buffer) + 1
      BY <1>0, <3>2, TypedText
    <3>4. cursor + 1 \in 0..Len(InsertAt(buffer, cursor + 1, c))
      BY <1>0, <3>3
    <3>5. LineWith(Typed(line, c), InsertAt(buffer, cursor + 1, c), cursor + 1)
      BY <1>0, <3>1, WithTextParts
    <3>6. InsertAt(buffer, cursor + 1, c) \in Short
      BY <1>0, <2>4, <3>3 DEF Short
    <3> QED BY <1>e, <2>1, <3>4, <3>5, <3>6, TypedInBounds
  <2> QED BY <2>2, <2>3, <2>4
<1>2. CASE BackspaceKey
  <2>1. EditOnly(Backspace(line), FALSE)
    BY <1>2, Zenon DEF BackspaceKey
  <2>2. CASE line.cursor = 0
    <3>1. Backspace(line) = line
      BY <2>2, Zenon DEF Backspace
    <3> QED BY <1>e, <1>0, <2>1, <3>1, EditOnlyInBounds
  <2>3. CASE line.cursor # 0
    <3>1. Backspace(line) = WithText(line, RemoveAt(buffer, cursor), cursor - 1)
      BY <2>3, Zenon DEF Backspace
    <3>2. cursor \in 1..Len(buffer)
      BY <1>0, <2>3
    <3>3. RemoveAt(buffer, cursor) \in Text /\ Len(RemoveAt(buffer, cursor)) = Len(buffer) - 1
      BY <1>0, <3>2, RemoveElements DEF Text
    <3>4. cursor - 1 \in 0..Len(RemoveAt(buffer, cursor))
      BY <1>0, <3>2, <3>3
    <3>5. LineWith(Backspace(line), RemoveAt(buffer, cursor), cursor - 1)
      BY <1>0, <3>1, WithTextParts
    <3>6. RemoveAt(buffer, cursor) \in Short
      BY <1>0, <3>3 DEF Short
    <3> QED BY <1>e, <2>1, <3>4, <3>5, <3>6, EditOnlyInBounds
  <2> QED BY <2>2, <2>3
<1>3. CASE CompleteKey
  <2>1. EditOnly(Completed(line, choice.text), TRUE)
    BY <1>3, Zenon DEF CompleteKey
  <2>2. choice.text \in Text /\ Len(choice.text) + 1 <= InputSize - 2 /\ Slash \in Letter \cup {Slash, Space} /\ Space \in Letter \cup {Slash, Space}
    BY DEF Within, EditTypeOK, Offered
  <2>3. PICK prefix \in {<<>>, <<Slash>>} : LET whole == prefix \o choice.text
                                   spaced == IF Len(whole) # InputSize - 2 THEN Append(whole, Space) ELSE whole
                               IN Completed(line, choice.text) = WithText(EmptyLine, spaced, Len(spaced))
    BY Zenon DEF Completed
  <2>4. prefix \o choice.text \in Text /\ Len(prefix \o choice.text) <= InputSize - 2
    <3>1. prefix \in Text /\ Len(prefix) \in Nat /\ Len(prefix) <= 1
      <4>1. CASE prefix = <<>>
        BY <4>1 DEF Text
      <4>2. CASE prefix = <<Slash>>
        BY <2>2, <4>2 DEF Text
      <4> QED BY <4>1, <4>2
    <3>2. prefix \o choice.text \in Text /\ Len(prefix \o choice.text) = Len(prefix) + Len(choice.text)
      BY <2>2, <3>1, ConcatProperties DEF Text
    <3>3. Len(choice.text) \in Nat
      BY <2>2, LenProperties DEF Text
    <3> QED BY <1>0, <2>2, <3>1, <3>2, <3>3
  <2>5. Append(prefix \o choice.text, Space) \in Text
        /\ Len(Append(prefix \o choice.text, Space)) = Len(prefix \o choice.text) + 1
    BY <2>2, <2>4, AppendProperties DEF Text
  <2>6. PICK spaced \in Short : Completed(line, choice.text) = WithText(EmptyLine, spaced, Len(spaced))
    <3> DEFINE whole == prefix \o choice.text
    <3>1. Len(whole) \in Nat
      BY <2>4, LenProperties DEF Text
    <3>2. whole \in Short /\ (Len(whole) # InputSize - 2 => Append(whole, Space) \in Short)
      BY <1>0, <2>4, <2>5, <3>1 DEF Short
    <3> QED BY <2>3, <3>2, Zenon
  <2>7. Len(spaced) \in 0..Len(spaced)
    BY LenProperties DEF Text, Short
  <2>8. LineWith(Completed(line, choice.text), spaced, Len(spaced))
    <3>1. IsLine(EmptyLine) /\ EmptyLine.matches \subseteq DOMAIN Names
      BY EmptyLineParts, Zenon DEF LineWith
    <3> QED BY <2>6, <3>1, WithTextParts, Zenon
  <2> QED BY <1>e, <2>1, <2>7, <2>8, EditOnlyInBounds
<1>4. ASSUME NEW right \in BOOLEAN, CursorKey(right)
      PROVE  EditInv'
  <2>1. PICK n \in 0..Len(buffer) : EditOnly(WithText(line, line.buffer, n), FALSE)
    <3> DEFINE moved == IF right THEN IF cursor < Len(line.buffer) THEN cursor + 1 ELSE cursor
                        ELSE IF cursor > 0 THEN cursor - 1 ELSE cursor
    <3>1. moved \in 0..Len(buffer)
      BY <1>0
    <3>2. EditOnly(WithText(line, line.buffer, moved), FALSE)
      BY <1>4, Zenon DEF CursorKey
    <3> QED BY <3>1, <3>2, Zenon
  <2>2. LineWith(WithText(line, line.buffer, n), buffer, n)
    BY <1>0, WithTextParts
  <2> QED BY <1>e, <1>0, <2>1, <2>2, EditOnlyInBounds
<1>5. CASE toggle_console
  <2>1. EditOnly(EmptyLine, TRUE)
    BY <1>5, Zenon DEF toggle_console
  <2>2. 0 \in 0..Len(<<>>)
    BY EmptyShort
  <2> QED BY <1>e, <2>1, <2>2, EmptyLineParts, EmptyShort, EditOnlyInBounds
<1>6. CASE UpKey
  <2>1. PICK i : /\ i = IF history_index + 1 >= Len(history) THEN Len(history) - 1 ELSE history_index + 1
                 /\ Edit(Recalled(i), TRUE) /\ history_index' = i /\ history' = history
    BY <1>6, Zenon DEF UpKey
  <2>2. i \in -1..Len(history) - 1
    BY <2>1, LenProperties DEF Within, EditTypeOK, RecallInBounds
  <2> QED BY <1>e, <2>1, <2>2, RecalledInBounds
<1>7. CASE DownKey
  <2>1. PICK i : /\ i = IF history_index - 1 < -1 THEN -1 ELSE history_index - 1
                 /\ Edit(Recalled(i), TRUE) /\ history_index' = i /\ history' = history
    BY <1>7, Zenon DEF DownKey
  <2>2. i \in -1..Len(history) - 1
    BY <2>1, LenProperties DEF Within, EditTypeOK, RecallInBounds
  <2> QED BY <1>e, <2>1, <2>2, RecalledInBounds
<1>8. CASE EnterKey
  <2>1. line' = EmptyLine /\ choice' = choice /\ history_index' = -1 /\ history' = Entered(line.buffer)
    BY <1>8, Zenon DEF EnterKey
  <2>2. line.buffer \in Short
    BY DEF Within, EditTypeOK
  <2> QED BY <1>e, <2>1, <2>2, EnteredInBounds, ClearedInBounds, Zenon
<1>9. CASE ClearConsole
  <2>1. line' = EmptyLine /\ choice' = choice /\ history_index' = -1 /\ history' = <<>>
    BY <1>9, Zenon DEF ClearConsole
  <2>2. history' \in Seq(Short) /\ Len(history') <= HistorySize
    BY <2>1, GameConsoleAssumption
  <2> QED BY <1>e, <2>1, <2>2, ClearedInBounds, Zenon
<1>10. CASE draw_console
  <2>1. choice' = [choice EXCEPT !.text = <<>>] /\ UNCHANGED <<line, history, history_index>>
    BY <1>10, Zenon DEF draw_console
  <2>2. choice' \in [text : Offered, may : BOOLEAN]
    BY <2>1, EmptyShort DEF Within, EditTypeOK
  <2> QED BY <1>e, <2>1, <2>2, Zenon DEF Within, EditTypeOK, RecallInBounds
<1>11. CASE Search
  <2>1. choice' = [choice EXCEPT !.may = FALSE] /\ UNCHANGED <<history, history_index>>
    BY <1>11, Zenon DEF Search
  <2>2. choice' \in [text : Offered, may : BOOLEAN]
    BY <2>1 DEF Within, EditTypeOK
  <2>3. line' = line \/ line' = Searched(line, frame.input)
    BY <1>11, Zenon DEF Search
  <2>4. LineWith(line', buffer, cursor)
    <3>1. LineWith(Searched(line, frame.input), buffer, cursor)
      <4>1. PICK input : input = frame.input
        OBVIOUS
      <4>2. /\ IsLine(Searched(line, input)) /\ Searched(line, input).buffer = line.buffer
            /\ Searched(line, input).cursor = line.cursor /\ Searched(line, input).matches = Matches(input)
        BY <1>0, SearchedIs, Zenon
      <4>3. Searched(line, input).matches \subseteq DOMAIN Names
        BY <4>2, MatchesAreNames
      <4> QED BY <4>1, <4>2, <4>3, Zenon DEF LineWith
    <3> QED BY <1>0, <2>3, <3>1
  <2> QED BY <1>e, <2>1, <2>2, <2>4, Zenon DEF Within, EditTypeOK, RecallInBounds, LineWith
<1>12. CASE DrawHints
  <2>1. UNCHANGED <<line, history, history_index>>
    BY <1>12, Zenon DEF DrawHints
  <2>2. choice' = IF Cardinality(line.matches) \in 1..MaxHints
                  THEN [text |-> Names[Min(line.matches)], may |-> TRUE] ELSE choice
    BY <1>12, Zenon DEF DrawHints
  <2>3. choice' \in [text : Offered, may : BOOLEAN]
    <3>1. CASE ~(Cardinality(line.matches) \in 1..MaxHints)
      BY <2>2, <3>1, Zenon DEF Within, EditTypeOK
    <3>2. CASE Cardinality(line.matches) \in 1..MaxHints
      <4>0. line.matches # {}
        BY <3>2, FS_EmptySet
      <4>1. PICK text \in Offered : text = Names[Min(line.matches)]
        BY <1>0, <4>0, FirstMatch
      <4>2. choice' = [text |-> text, may |-> TRUE]
        BY <2>2, <3>2, <4>1, Zenon
      <4> QED BY <4>2
    <3> QED BY <3>1, <3>2
  <2> QED BY <1>e, <2>1, <2>3, Zenon DEF Within, EditTypeOK, RecallInBounds
<1>13. CASE UNCHANGED gcVars
  BY <1>13, Zenon DEF gcVars, EditInv, Within, EditTypeOK, RecallInBounds
<1> QED
  BY <1>1, <1>2, <1>3, <1>4, <1>5, <1>6, <1>7, <1>8, <1>9, <1>10, <1>11, <1>12, <1>13, Zenon DEF GcNext

\* What is edited is in bounds.
LEMMA EditsBounded == EditInv => EditsInBounds
<1> SUFFICES ASSUME Within PROVE EditsInBounds
  BY DEF EditInv, EditsInBounds
<1> QED BY DEF Within, EditTypeOK, RecallInBounds, Short, EditsInBounds

\* Whatever the sizes of the output, of the line and of the history are, and
\* however printing, scrolling, clearing, resizing, typing, completing,
\* recalling and drawing interleave, until a character is put into the middle of
\* a full line: the game console neither draws nor edits what is not there, in
\* the whole of the client's process and its consoles
\* (game_console.cpp: print_internal, clear, console_char_event, console_key_event).
THEOREM ConsoleBounded == Spec => []ConsoleInBounds
<1>1. Init => OutputInv /\ EditInv
  BY OutputInitial, EditInitial, Zenon DEF Init
<1>2. OutputInv /\ EditInv /\ [Next]_vars => OutputInv' /\ EditInv'
  <2> SUFFICES ASSUME OutputInv, EditInv, [Next]_vars PROVE OutputInv' /\ EditInv'
    OBVIOUS
  <2>1. [OutputNext]_outputVars
    BY Zenon DEF Next, vars
  <2>2. [GcNext]_gcVars
    BY Zenon DEF Next, vars
  <2> QED BY <2>1, <2>2, OutputStep, EditStep
<1>3. OutputInv /\ EditInv => ConsoleInBounds
  BY WindowShows, EditsBounded DEF ConsoleInBounds
<1> QED BY <1>1, <1>2, <1>3, PTL DEF Spec
=============================================================================
