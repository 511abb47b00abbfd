----------------------- MODULE CascadeSelectorProofs ------------------------
(***************************************************************************)
(* Proofs about CascadeSelector, for every set of upstreams and of score   *)
(* levels and for all limits that satisfy SelectorAssumption.              *)
(***************************************************************************)
EXTENDS CascadeSelector, FiniteSetTheorems, SequenceTheorems, TLAPS

\* What the selection returns: the origin if nothing is offered, otherwise a
\* candidate.
LEMMA SelectedIsOffered ==
  ASSUME NEW R, NEW p \in SelectFromCandidates(R)
  PROVE  p.up \in IF DOMAIN R = {} THEN {Origin} ELSE DOMAIN R
BY DEF SelectFromCandidates, Direct

\* What is known of the two tasks: a decision under way is a choice from the
\* response being handled, and a forced switch one from the ping task's copy,
\* which it holds only until it has changed the path.
DecisionIsOffered ==
    /\ hb.step = "path" =>
          hb.to.up \in IF DOMAIN hb.offers = {} THEN {Origin} ELSE DOMAIN hb.offers
    /\ \A F \in forced : F.to.up \in IF F.from = {} THEN {Origin} ELSE F.from
    /\ ping # "path" => forced = {}

LEMMA OffersHaveDomain == \A R \in Offers : DOMAIN R \in SUBSET Upstream
BY DEF Offers

LEMMA DecisionStep == DecisionIsOffered /\ [Next]_vars => DecisionIsOffered'
<1> SUFFICES ASSUME DecisionIsOffered, [Next]_vars
             PROVE  DecisionIsOffered'
  OBVIOUS
<1>1. ASSUME NEW R \in Offers, NEW offline \in BOOLEAN, Decide(R, offline)
      PROVE  DecisionIsOffered'
  <2>1. PICK p \in SelectFromCandidates(R) :
          \/ hb' = [step |-> "path", offers |-> R, to |-> p, gain |-> ~offline /\ OtherAgent(p)]
          \/ hb' = [NoHeartbeat EXCEPT !.step = "store", !.offers = R]
    BY <1>1 DEF Decide
  <2>2. CASE hb' = [step |-> "path", offers |-> R, to |-> p, gain |-> ~offline /\ OtherAgent(p)]
    BY <1>1, <2>2, SelectedIsOffered DEF DecisionIsOffered, Decide
  <2>3. CASE hb' = [NoHeartbeat EXCEPT !.step = "store", !.offers = R]
    BY <1>1, <2>3 DEF DecisionIsOffered, NoHeartbeat, Decide
  <2> QED
    BY <2>1, <2>2, <2>3
<1>2. CASE ApplyPath \/ ApplySwitchedAt \/ ApplyCount \/ StoreResponse
  <2>1. UNCHANGED <<ping, forced>>
    BY <1>2 DEF ApplyPath, ApplySwitchedAt, ApplyCount, StoreResponse
  <2>2. hb'.step # "path"
    <3>1. CASE ApplyPath
      BY <3>1 DEF ApplyPath, NoHeartbeat
    <3>2. CASE ApplySwitchedAt
      BY <3>2 DEF ApplySwitchedAt, NoHeartbeat
    <3>3. CASE ApplyCount
      BY <3>3 DEF ApplyCount, NoHeartbeat
    <3>4. CASE StoreResponse
      BY <3>4 DEF StoreResponse, NoHeartbeat
    <3> QED
      BY <1>2, <3>1, <3>2, <3>3, <3>4
  <2> QED
    BY <2>1, <2>2 DEF DecisionIsOffered
<1>3. CASE EmergencySwitch
  <2>1. PICK R \in last : \E p \in SelectFromCandidates(R) : forced' = {[from |-> DOMAIN R, to |-> p]}
    BY <1>3 DEF EmergencySwitch
  <2>2. PICK p \in SelectFromCandidates(R) : forced' = {[from |-> DOMAIN R, to |-> p]}
    BY <2>1
  <2>3. p.up \in IF DOMAIN R = {} THEN {Origin} ELSE DOMAIN R
    BY <2>2, SelectedIsOffered
  <2>4. \A F \in forced' : F.to.up \in IF F.from = {} THEN {Origin} ELSE F.from
    BY <2>2, <2>3
  <2> QED
    BY <1>3, <2>4 DEF EmergencySwitch, DecisionIsOffered
<1>4. CASE ForcePath
  BY <1>4 DEF ForcePath, DecisionIsOffered
<1>5. CASE StartPing \/ MeshPing \/ CheckUpstream \/ ForceSwitchedAt \/ ForceCount
  BY <1>5 DEF StartPing, MeshPing, CheckUpstream, ForceSwitchedAt, ForceCount, DecisionIsOffered
<1>6. ASSUME UNCHANGED <<hb, ping, forced>> PROVE DecisionIsOffered'
  BY <1>6 DEF DecisionIsOffered
<1> QED
  BY <1>1, <1>2, <1>3, <1>4, <1>5, <1>6 DEF Next, Tick, ExpireProbe, vars

\* At most one response is stored.
OneStored == \A R, T \in last : R = T

LEMMA StoredStep == OneStored /\ [Next]_vars => OneStored'
<1> SUFFICES ASSUME OneStored, [Next]_vars
             PROVE  OneStored'
  OBVIOUS
<1>1. CASE StoreResponse
  BY <1>1 DEF StoreResponse, OneStored
<1>2. CASE last' = last
  BY <1>2 DEF OneStored
<1> QED
  BY <1>1, <1>2
     DEF Next, Decide, ApplyPath, ApplySwitchedAt, ApplyCount, StartPing, MeshPing, CheckUpstream,
         EmergencySwitch, ForcePath, ForceSwitchedAt, ForceCount, Tick, ExpireProbe, vars

\* The variables of UpstreamChoice, as the selector's state gives them.
Handled == IF hb.step = "idle" THEN {} ELSE {DOMAIN hb.offers}
Stored == {DOMAIN R : R \in last}
Held == {F.from : F \in forced}

\* Every step of the two tasks is one of UpstreamChoice, or changes nothing that
\* it speaks of: one case per action.
LEMMA ChoiceStep ==
  DecisionIsOffered /\ OneStored /\ [Next]_vars => [Choice!ChoiceNext]_<<Handled, Stored, Held, path.up>>
<1> SUFFICES ASSUME DecisionIsOffered, OneStored, [Next]_vars
             PROVE  [Choice!ChoiceNext]_<<Handled, Stored, Held, path.up>>
  OBVIOUS
<1>1. ASSUME NEW R \in Offers, NEW offline \in BOOLEAN, Decide(R, offline)
      PROVE  Choice!Deliver
  <2>1. hb'.step # "idle" /\ hb'.offers = R
    BY <1>1 DEF Decide, NoHeartbeat
  <2>2. Handled = {} /\ Handled' = {DOMAIN R}
    BY <1>1, <2>1 DEF Decide, Handled
  <2> QED
    BY <1>1, <2>2, OffersHaveDomain DEF Decide, Choice!Deliver, Handled, Stored, Held
<1>2. CASE ApplyPath
  <2>1. Handled = {DOMAIN hb.offers} /\ Handled' = Handled
    BY <1>2 DEF ApplyPath, Handled, NoHeartbeat
  <2>2. path'.up \in IF DOMAIN hb.offers = {} THEN {Origin} ELSE DOMAIN hb.offers
    BY <1>2 DEF ApplyPath, SetPath, DecisionIsOffered
  <2>3. Choice!TakeHandled
    BY <1>2, <2>1, <2>2 DEF ApplyPath, Choice!TakeHandled, Choice!TakeFrom, Stored, Handled, Held
  <2> QED
    BY <2>3 DEF Choice!ChoiceNext
<1>3. CASE StoreResponse
  <2>1. Handled = {DOMAIN hb.offers} /\ Handled' = {}
    BY <1>3 DEF StoreResponse, Handled, NoHeartbeat
  <2>2. Stored' = {DOMAIN hb.offers}
    BY <1>3 DEF StoreResponse, Stored
  <2> QED
    BY <1>3, <2>1, <2>2 DEF StoreResponse, Choice!ChoiceNext, Choice!Store, Handled, Stored, Held
<1>4. CASE EmergencySwitch
  <2>1. PICK R \in last : \E p \in SelectFromCandidates(R) : forced' = {[from |-> DOMAIN R, to |-> p]}
    BY <1>4 DEF EmergencySwitch
  <2>2. Held = {} /\ Held' = {DOMAIN R}
    BY <1>4, <2>1 DEF EmergencySwitch, DecisionIsOffered, Held
  <2>3. Stored = {DOMAIN R}
    BY <2>1 DEF Stored, OneStored
  <2>4. Choice!Copy
    BY <1>4, <2>2, <2>3 DEF EmergencySwitch, Choice!Copy, Stored, Handled, Held
  <2> QED
    BY <2>4 DEF Choice!ChoiceNext
<1>6. CASE ForcePath
  <2>1. PICK F \in forced : path' = F.to
    BY <1>6 DEF ForcePath, SetPath
  <2>2. F.from \in Held /\ Held' = {}
    BY <1>6 DEF ForcePath, Held
  <2>3. path'.up \in IF F.from = {} THEN {Origin} ELSE F.from
    BY <2>1 DEF DecisionIsOffered
  <2>4. Choice!TakeHeld
    BY <1>6, <2>2, <2>3 DEF ForcePath, Choice!TakeHeld, Choice!TakeFrom, Stored, Handled, Held
  <2> QED
    BY <2>4 DEF Choice!ChoiceNext
<1>7. CASE ApplySwitchedAt \/ ApplyCount
  <2>1. Handled' = Handled
    BY <1>7 DEF ApplySwitchedAt, ApplyCount, Handled, NoHeartbeat
  <2> QED
    BY <1>7, <2>1 DEF ApplySwitchedAt, ApplyCount, Stored, Held
<1>5. ASSUME UNCHANGED <<hb, last, forced, path>>
      PROVE  UNCHANGED <<Handled, Stored, Held, path.up>>
  BY <1>5 DEF Handled, Stored, Held
<1> QED
  BY <1>1, <1>2, <1>3, <1>4, <1>5, <1>6, <1>7
     DEF Next, StartPing, MeshPing, CheckUpstream, ForceSwitchedAt, ForceCount, Tick, ExpireProbe, vars,
         Choice!ChoiceNext

\* For any offers and any interleaving of the heartbeat task and the ping task,
\* between any two of their accesses to the selector's fields, the selector
\* implements UpstreamChoice, which is what Mesh lets an agent do.
THEOREM SelectorImplementsChoice == Spec => ImplementsChoice
<1>1. Init => DecisionIsOffered /\ OneStored
  BY DEF Init, DecisionIsOffered, OneStored, NoHeartbeat
<1>2. Init => Choice!ChoiceInit
  BY DEF Init, NoHeartbeat, Direct, Choice!ChoiceInit
<1> QED
  BY <1>1, <1>2, DecisionStep, StoredStep, ChoiceStep, PTL
     DEF Spec, ImplementsChoice, Choice!ChoiceSpec, Handled, Stored, Held
-----------------------------------------------------------------------------
(* The ration of switches.                                                 *)

\* Ages in the order of their switches, the newest first.
Sorted(s) == \A i, j \in 1..Len(s) : i <= j => s[i] <= s[j]

\* Of the switches made for a better score, C, all but the first d are among the
\* ages T of all switches: each is no younger than the one with its rank there.
Among(T, C, d) == \A i \in 1..MaxSwitch : i + d <= Len(C) => i <= Len(T) /\ T[i] <= C[i + d]

\* All of them but the first d are no younger than a.
NoYounger(C, d, a) == Len(C) >= 1 + d => C[1 + d] = Cap \/ C[1 + d] >= a

\* The switch under way has changed the path and is not in times, or not in
\* last_switch_at, yet.
ToCount == IF hb.gain /\ hb.step \in {"clock", "count"} THEN 1 ELSE 0
ToClock == IF hb.gain /\ hb.step = "clock" THEN 1 ELSE 0

ChosenAreSwitches == Among(times, chosen, ToCount) /\ NoYounger(chosen, ToClock, since)

\* What a decision found when it was made still holds when it is carried out,
\* whatever the ping task did in between.
DecisionIsRationed ==
    hb.step = "path" /\ hb.gain =>
        /\ Len(chosen) >= 1 => chosen[1] = Cap \/ chosen[1] >= Cooldown
        /\ Len(chosen) >= MaxSwitch => chosen[MaxSwitch] > Window

AgesOK ==
    /\ since \in 0..Cooldown
    /\ times \in Seq(0..Cap) /\ Len(times) <= MaxSwitch
    /\ chosen \in Seq(0..Cap) /\ Len(chosen) <= MaxSwitch + 1

RationInv ==
    /\ AgesOK
    /\ Sorted(times)
    /\ Sorted(chosen)
    /\ ChosenAreSwitches
    /\ DecisionIsRationed
    /\ ScoreSwitchesAreRationed

\* t is s with the age 0 put in front, of which the newest entries are kept.
Pushed(t, s, max) ==
    /\ t \in Seq(0..Cap)
    /\ Len(t) = IF Len(s) < max THEN Len(s) + 1 ELSE max
    /\ t[1] = 0
    /\ \A i \in 2..Len(t) : i - 1 \in 1..Len(s) /\ t[i] = s[i - 1]

LEMMA PushIs ==
  ASSUME NEW s \in Seq(0..Cap), NEW max \in Nat \ {0}
  PROVE  Pushed(Push(s, max), s, max)
<1> DEFINE all == <<0>> \o s
           k == IF Len(s) < max THEN Len(s) + 1 ELSE max
<1>1. 0 \in 0..Cap
  BY SelectorAssumption DEF Cap
<1>2. /\ all \in Seq(0..Cap) /\ Len(all) = Len(s) + 1
      /\ all[1] = 0 /\ \A i \in 2..Len(s) + 1 : all[i] = s[i - 1]
  BY <1>1
<1>3. k \in 1..Len(all) /\ Push(s, max) = SubSeq(all, 1, k)
  BY <1>2 DEF Push
<1> HIDE DEF all
<1>4. /\ SubSeq(all, 1, k) \in Seq(0..Cap) /\ Len(SubSeq(all, 1, k)) = k
      /\ \A i \in 1..k : SubSeq(all, 1, k)[i] = all[i]
  <2>1. \A i \in 1..k : all[i] \in 0..Cap
    <3>1. \A i \in 1..k : i \in 1..Len(all)
      BY <1>2, <1>3
    <3> QED
      BY <1>2, <3>1, ElementOfSeq
  <2> HIDE DEF k
  <2>2. k \in Int /\ 1 \in Int /\ 1 <= k
    BY <1>3
  <2> QED
    BY <2>1, <2>2, SubSeqProperties
<1> QED
  BY <1>2, <1>3, <1>4 DEF Pushed

\* So it keeps the order of ages.
LEMMA PushSorted ==
  ASSUME NEW s \in Seq(0..Cap), NEW max \in Nat \ {0}, Sorted(s)
  PROVE  Sorted(Push(s, max))
<1> DEFINE t == Push(s, max)
<1>1. /\ t \in Seq(0..Cap) /\ t[1] = 0
      /\ \A i \in 2..Len(t) : i - 1 \in 1..Len(s) /\ t[i] = s[i - 1]
  BY PushIs DEF Pushed
<1>2. ASSUME NEW i \in 1..Len(t), NEW j \in 1..Len(t), i <= j
      PROVE  t[i] <= t[j]
  <2>1. t[j] \in 0..Cap
    BY <1>1, ElementOfSeq
  <2>2. CASE i = 1
    BY <1>1, <2>1, <2>2
  <2>3. CASE i # 1
    BY <1>1, <1>2, <2>3 DEF Sorted
  <2> QED
    BY <2>2, <2>3
<1> QED
  BY <1>2 DEF Sorted

\* Ageing keeps the type, the length and the order of a sequence of ages.
LEMMA OlderIs ==
  ASSUME NEW s \in Seq(0..Cap)
  PROVE  /\ Older(s) \in Seq(0..Cap)
         /\ Len(Older(s)) = Len(s)
         /\ \A i \in 1..Len(s) : Older(s)[i] = IF s[i] = Cap THEN Cap ELSE s[i] + 1
         /\ Sorted(s) => Sorted(Older(s))
<1>1. \A i \in 1..Len(s) : s[i] \in 0..Cap /\ (IF s[i] = Cap THEN Cap ELSE s[i] + 1) \in 0..Cap
  BY SelectorAssumption DEF Cap
<1>2. Older(s) = [i \in 1..Len(s) |-> IF s[i] = Cap THEN Cap ELSE s[i] + 1]
  BY DEF Older
<1>3. /\ Older(s) \in Seq(0..Cap)
      /\ Len(Older(s)) = Len(s)
      /\ \A i \in 1..Len(s) : Older(s)[i] = IF s[i] = Cap THEN Cap ELSE s[i] + 1
  BY <1>1, <1>2
<1>4. ASSUME Sorted(s) PROVE Sorted(Older(s))
  <2> SUFFICES ASSUME NEW i \in 1..Len(s), NEW j \in 1..Len(s), i <= j
               PROVE  Older(s)[i] <= Older(s)[j]
    BY <1>3 DEF Sorted
  <2>1. s[i] <= s[j] /\ s[i] \in 0..Cap /\ s[j] \in 0..Cap /\ Cap \in Nat
    BY <1>1, <1>4, SelectorAssumption DEF Sorted, Cap
  <2> QED
    BY <1>3, <2>1
<1> QED
  BY <1>3, <1>4

\* A switch for a better score is decided only if the last MaxSwitch switches
\* reach back past the window.
LEMMA RationReachesBack ==
  ASSUME AgesOK, Sorted(times), Rationed, Len(times) = MaxSwitch
  PROVE  times[MaxSwitch] > Window
<1> SUFFICES ASSUME ~(times[MaxSwitch] > Window)
             PROVE  FALSE
  OBVIOUS
<1>1. \A i \in 1..MaxSwitch : times[i] <= times[MaxSwitch] /\ times[i] \in Nat
  BY SelectorAssumption DEF Sorted, AgesOK, Cap
<1>2. Recent(times) = 1..MaxSwitch
  BY <1>1, SelectorAssumption DEF Recent, AgesOK
<1>3. Cardinality(1..MaxSwitch) = MaxSwitch
  <2>1. 1 \in Int /\ MaxSwitch \in Int /\ ~(1 > MaxSwitch) /\ MaxSwitch - 1 + 1 = MaxSwitch
    BY SelectorAssumption
  <2>2. Cardinality(1..MaxSwitch) = IF 1 > MaxSwitch THEN 0 ELSE MaxSwitch - 1 + 1
    BY <2>1, FS_Interval
  <2> QED
    BY <2>1, <2>2
<1> QED
  BY <1>2, <1>3, SelectorAssumption DEF Rationed

\* A switch that is counted leaves the ages in order, and those made for a better
\* score among them.
LEMMA CountKeeps ==
  ASSUME NEW T \in Seq(0..Cap), Sorted(T), Len(T) <= MaxSwitch, NEW C \in Seq(0..Cap)
  PROVE  /\ Push(T, MaxSwitch) \in Seq(0..Cap) /\ Len(Push(T, MaxSwitch)) <= MaxSwitch
         /\ Sorted(Push(T, MaxSwitch))
         /\ Among(T, C, 0) => Among(Push(T, MaxSwitch), C, 0)
         /\ Among(T, C, 1) => Among(Push(T, MaxSwitch), C, 0) /\ Among(Push(T, MaxSwitch), C, 1)
<1> DEFINE P == Push(T, MaxSwitch)
<1>1. MaxSwitch \in Nat \ {0} /\ Cap \in Nat /\ Len(T) \in Nat /\ Len(C) \in Nat
  BY SelectorAssumption, LenProperties DEF Cap
<1>2. /\ P \in Seq(0..Cap) /\ P[1] = 0
      /\ Len(P) = IF Len(T) < MaxSwitch THEN Len(T) + 1 ELSE MaxSwitch
      /\ \A i \in 2..Len(P) : i - 1 \in 1..Len(T) /\ P[i] = T[i - 1]
  BY <1>1, PushIs DEF Pushed
<1>3. Sorted(P)
  BY <1>1, PushSorted
<1> HIDE DEF P
<1>4. /\ \A i \in 1..Len(C) : C[i] \in 0..Cap
      /\ \A i \in 1..Len(T) : T[i] \in 0..Cap
  BY ElementOfSeq
<1>5. ASSUME NEW d \in {0, 1}, Among(T, C, d), NEW i \in 1..MaxSwitch, i + d <= Len(C)
      PROVE  i <= Len(P) /\ P[i] <= C[i + d]
  <2>1. i <= Len(T) /\ T[i] <= C[i + d] /\ i + d \in 1..Len(C)
    BY <1>1, <1>5 DEF Among
  <2>2. i <= Len(P)
    BY <1>1, <1>2, <2>1
  <2>3. CASE i = 1
    BY <1>2, <1>4, <2>1, <2>2, <2>3
  <2>4. CASE i # 1
    <3>1. i \in 2..Len(P) /\ i - 1 \in 1..Len(T) /\ i \in 1..Len(T) /\ P[i] = T[i - 1]
      BY <1>1, <1>2, <2>1, <2>2, <2>4
    <3>2. T[i - 1] <= T[i]
      BY <3>1 DEF Sorted
    <3>3. T[i - 1] \in Int /\ T[i] \in Int /\ C[i + d] \in Int
      BY <1>4, <2>1, <3>1
    <3> QED
      BY <2>1, <2>2, <3>1, <3>2, <3>3
  <2> QED
    BY <2>3, <2>4
<1>6. ASSUME Among(T, C, 1), NEW i \in 1..MaxSwitch, i + 0 <= Len(C)
      PROVE  i <= Len(P) /\ P[i] <= C[i + 0]
  <2>1. i \in 1..Len(C) /\ i + 0 = i
    BY <1>1, <1>6
  <2>2. CASE i = 1
    <3>1. 1 <= Len(P)
      BY <1>1, <1>2
    <3> QED
      BY <1>2, <1>4, <2>1, <2>2, <3>1
  <2>3. CASE i # 1
    <3>1. i - 1 \in 1..MaxSwitch /\ (i - 1) + 1 = i
      BY <1>1, <2>3
    <3>2. i - 1 <= Len(T) /\ T[i - 1] <= C[i]
      BY <1>6, <2>1, <3>1 DEF Among
    <3>3. i \in 2..Len(P)
      BY <1>1, <1>2, <2>3, <3>2
    <3> QED
      BY <1>2, <2>1, <3>2, <3>3
  <2> QED
    BY <2>2, <2>3
<1>7. Among(T, C, 0) => Among(P, C, 0)
  BY <1>5 DEF Among
<1>8. Among(T, C, 1) => Among(P, C, 1)
  BY <1>5 DEF Among
<1>9. Among(T, C, 1) => Among(P, C, 0)
  BY <1>6 DEF Among
<1>10. Len(P) <= MaxSwitch
  BY <1>1, <1>2
<1> QED
  BY <1>2, <1>3, <1>7, <1>8, <1>9, <1>10 DEF P

\* A switch for a better score that changes the path goes to the front of chosen;
\* it is not noted elsewhere yet.
LEMMA GainKeeps ==
  ASSUME RationInv, hb.step = "path", hb.gain, chosen' = Push(chosen, MaxSwitch + 1)
  PROVE  /\ chosen' \in Seq(0..Cap) /\ Len(chosen') <= MaxSwitch + 1
         /\ Sorted(chosen')
         /\ Among(times, chosen', 1) /\ NoYounger(chosen', 1, since)
         /\ ScoreSwitchesAreRationed'
<1>1. /\ MaxSwitch \in Nat \ {0} /\ MaxSwitch + 1 \in Nat \ {0} /\ Cooldown \in Nat
      /\ Window \in Nat /\ Cap \in Nat
  BY SelectorAssumption DEF Cap
<1>2. /\ chosen \in Seq(0..Cap) /\ Len(chosen) \in Nat /\ Len(chosen) <= MaxSwitch + 1
      /\ times \in Seq(0..Cap) /\ Len(times) \in Nat
  BY LenProperties DEF RationInv, AgesOK
<1>3. /\ chosen' \in Seq(0..Cap)
      /\ Len(chosen') = IF Len(chosen) < MaxSwitch + 1 THEN Len(chosen) + 1 ELSE MaxSwitch + 1
      /\ chosen'[1] = 0
      /\ \A i \in 2..Len(chosen') : i - 1 \in 1..Len(chosen) /\ chosen'[i] = chosen[i - 1]
  <2>1. Pushed(chosen', chosen, MaxSwitch + 1)
    BY <1>1, <1>2, PushIs
  <2> QED
    BY <2>1 DEF Pushed
<1>4. Among(times, chosen, 0) /\ NoYounger(chosen, 0, since)
  BY DEF RationInv, ChosenAreSwitches, ToCount, ToClock
<1>5. Sorted(chosen')
  BY <1>1, <1>2, PushSorted DEF RationInv
<1>6. Among(times, chosen', 1)
  <2>1. ASSUME NEW i \in 1..MaxSwitch, i + 1 <= Len(chosen')
        PROVE  i <= Len(times) /\ times[i] <= chosen'[i + 1]
    <3>1. i + 1 \in 2..Len(chosen') /\ (i + 1) - 1 = i
      BY <1>1, <1>2, <1>3, <2>1
    <3>2. i \in 1..Len(chosen) /\ chosen'[i + 1] = chosen[i]
      BY <1>3, <3>1
    <3>3. i + 0 = i /\ i <= Len(chosen)
      BY <1>2, <3>2
    <3> QED
      BY <1>4, <3>2, <3>3 DEF Among
  <2> QED
    BY <2>1 DEF Among
<1>8. Len(chosen') >= 2 => Len(chosen) >= 1 /\ chosen'[2] = chosen[1] /\ chosen[1] \in 0..Cap
  BY <1>1, <1>2, <1>3, ElementOfSeq
<1>9. NoYounger(chosen', 1, since)
  <2>1. Len(chosen') >= 2 => chosen'[2] = Cap \/ chosen'[2] >= since
    <3>1. 1 + 0 = 1
      OBVIOUS
    <3> QED
      BY <1>4, <1>8, <3>1 DEF NoYounger
  <2>2. 1 + 1 = 2
    OBVIOUS
  <2> QED
    BY <2>1, <2>2 DEF NoYounger
<1>7. ScoreSwitchesAreRationed'
  <2>1. ASSUME Len(chosen') >= 2
        PROVE  chosen'[2] = Cap \/ chosen'[2] - chosen'[1] >= Cooldown
    <3>1. Len(chosen) >= 1 /\ chosen'[2] = chosen[1] /\ chosen[1] \in 0..Cap
      BY <1>8, <2>1
    <3>2. chosen[1] = Cap \/ chosen[1] >= Cooldown
      BY <3>1 DEF RationInv, DecisionIsRationed
    <3> QED
      BY <1>1, <1>3, <3>1, <3>2
  <2>2. ASSUME Len(chosen') > MaxSwitch
        PROVE  chosen'[MaxSwitch + 1] > Window
    <3>1. Len(chosen) >= MaxSwitch /\ MaxSwitch + 1 \in 2..Len(chosen')
      BY <1>1, <1>2, <1>3, <2>2
    <3>2. chosen'[MaxSwitch + 1] = chosen[MaxSwitch]
      BY <1>1, <1>3, <3>1
    <3> QED
      BY <3>1, <3>2 DEF RationInv, DecisionIsRationed
  <2> QED
    BY <2>1, <2>2 DEF ScoreSwitchesAreRationed
<1> QED
  BY <1>1, <1>2, <1>3, <1>5, <1>6, <1>7, <1>9

\* RationInv is inductive: one case per action that touches ages or decisions.
LEMMA RationStep == RationInv /\ [Next]_vars => RationInv'
<1> SUFFICES ASSUME RationInv, [Next]_vars
             PROVE  RationInv'
  OBVIOUS
<1>1. /\ MaxSwitch \in Nat \ {0} /\ Cooldown \in Nat /\ Window \in Nat /\ Cap \in Nat
      /\ Cap = Window + 1
  BY SelectorAssumption DEF Cap
<1>0. /\ since \in 0..Cooldown /\ Len(chosen) \in Nat /\ Len(times) \in Nat
      /\ times \in Seq(0..Cap) /\ Len(times) <= MaxSwitch
      /\ chosen \in Seq(0..Cap) /\ Len(chosen) <= MaxSwitch + 1
      /\ Sorted(times) /\ Sorted(chosen)
      /\ \A i \in 1..Len(chosen) : chosen[i] \in 0..Cap
      /\ \A i \in 1..Len(times) : times[i] \in 0..Cap
  BY LenProperties, ElementOfSeq DEF RationInv, AgesOK
<1>20. /\ ToCount \in {0, 1} /\ ToClock \in {0, 1} /\ Among(times, chosen, ToCount)
       /\ NoYounger(chosen, ToClock, since)
       /\ ToCount = 0 => ToClock = 0
  BY DEF RationInv, ChosenAreSwitches, ToCount, ToClock
\* What only depends on the switches made for a better score.
<1>21. ASSUME UNCHANGED chosen
       PROVE  chosen' \in Seq(0..Cap) /\ Len(chosen') <= MaxSwitch + 1 /\ Sorted(chosen')
              /\ ScoreSwitchesAreRationed'
  BY <1>0, <1>21 DEF RationInv, Sorted, ScoreSwitchesAreRationed
\* The age of a switch that is being noted is 0.
<1>22. \A d \in {0, 1} : NoYounger(chosen, d, 0)
  <2>1. ASSUME NEW d \in {0, 1}, Len(chosen) >= 1 + d PROVE chosen[1 + d] >= 0
    <3>1. 1 + d \in 1..Len(chosen)
      BY <1>0, <2>1
    <3> QED
      BY <1>0, <3>1
  <2> QED
    BY <2>1 DEF NoYounger
<1>2. ASSUME NEW R \in Offers, NEW offline \in BOOLEAN, Decide(R, offline)
      PROVE  RationInv'
  <2>1. UNCHANGED <<since, times, chosen>> /\ hb.step = "idle"
    BY <1>2 DEF Decide
  <2>2. PICK p \in SelectFromCandidates(R) :
          hb' = IF offline \/ CheckHysteresis(p)
                THEN [step |-> "path", offers |-> R, to |-> p, gain |-> ~offline /\ OtherAgent(p)]
                ELSE [NoHeartbeat EXCEPT !.step = "store", !.offers = R]
    BY <1>2 DEF Decide
  <2>3. hb'.step = "path" /\ hb'.gain => Rationed
    BY <2>2 DEF CheckHysteresis, OtherAgent, NoHeartbeat
  <2>7. hb'.step \in {"path", "store"}
    BY <2>2 DEF NoHeartbeat
  <2>8. ToCount = 0 /\ ToClock = 0 /\ ToCount' = 0 /\ ToClock' = 0
    BY <2>1, <2>7 DEF ToCount, ToClock
  <2>4. ASSUME Rationed, Len(chosen) >= 1 PROVE chosen[1] = Cap \/ chosen[1] >= Cooldown
    <3>1. chosen[1] = Cap \/ chosen[1] >= since
      <4>1. 1 + 0 = 1
        OBVIOUS
      <4> QED
        BY <1>20, <2>4, <2>8, <4>1 DEF NoYounger
    <3>2. 1 \in 1..Len(chosen)
      BY <1>0, <2>4
    <3> QED
      BY <1>0, <1>1, <2>4, <3>1, <3>2 DEF Rationed
  <2>5. ASSUME Rationed, Len(chosen) >= MaxSwitch PROVE chosen[MaxSwitch] > Window
    <3>1. MaxSwitch \in 1..Len(chosen) /\ MaxSwitch \in 1..MaxSwitch /\ MaxSwitch + 0 = MaxSwitch
      BY <1>0, <1>1, <2>5
    <3>2. MaxSwitch <= Len(times) /\ times[MaxSwitch] <= chosen[MaxSwitch]
      BY <1>20, <2>5, <2>8, <3>1 DEF Among
    <3>3. Len(times) = MaxSwitch
      BY <1>0, <1>1, <3>2
    <3>4. times[MaxSwitch] > Window
      BY <2>5, <3>3, RationReachesBack DEF RationInv
    <3>5. times[MaxSwitch] \in 0..Cap /\ chosen[MaxSwitch] \in 0..Cap
      BY <1>0, <1>1, <3>1, <3>3
    <3> QED
      BY <1>1, <3>2, <3>4, <3>5
  <2>6. DecisionIsRationed'
    BY <2>1, <2>3, <2>4, <2>5 DEF DecisionIsRationed
  <2>9. ChosenAreSwitches'
    BY <1>20, <2>1, <2>8 DEF ChosenAreSwitches, Among, NoYounger
  <2> QED
    BY <1>21, <2>1, <2>6, <2>9 DEF RationInv, AgesOK, Sorted
<1>3. CASE ApplyPath
  <2>1. /\ UNCHANGED <<since, times>> /\ hb'.step = "clock" /\ hb.step = "path"
        /\ hb'.gain = hb.gain
    BY <1>3 DEF ApplyPath, NoHeartbeat
  <2>2. DecisionIsRationed'
    BY <2>1 DEF DecisionIsRationed
  <2>3. CASE hb.gain
    <3>1. chosen' = Push(chosen, MaxSwitch + 1)
      BY <1>3, <2>3 DEF ApplyPath
    <3>2. /\ chosen' \in Seq(0..Cap) /\ Len(chosen') <= MaxSwitch + 1
          /\ Sorted(chosen')
          /\ Among(times, chosen', 1) /\ NoYounger(chosen', 1, since)
          /\ ScoreSwitchesAreRationed'
      BY <2>1, <2>3, <3>1, GainKeeps
    <3>3. ToCount' = 1 /\ ToClock' = 1
      BY <2>1, <2>3 DEF ToCount, ToClock
    <3>4. ChosenAreSwitches'
      BY <2>1, <3>2, <3>3 DEF ChosenAreSwitches, Among, NoYounger
    <3> QED
      BY <2>1, <2>2, <3>2, <3>4 DEF RationInv, AgesOK, Sorted
  <2>4. CASE ~hb.gain
    <3>1. chosen' = chosen
      BY <1>3, <2>4 DEF ApplyPath
    <3>2. ToCount = 0 /\ ToClock = 0 /\ ToCount' = 0 /\ ToClock' = 0
      BY <2>1, <2>4 DEF ToCount, ToClock
    <3>3. ChosenAreSwitches'
      BY <1>20, <2>1, <3>1, <3>2 DEF ChosenAreSwitches, Among, NoYounger
    <3> QED
      BY <1>21, <2>1, <2>2, <3>1, <3>3 DEF RationInv, AgesOK, Sorted
  <2> QED
    BY <2>3, <2>4
\* A switch is noted in last_switch_at, by either task.
<1>4. ASSUME since' = 0, UNCHANGED <<times, chosen>>, ToCount' = ToCount, ToClock' \in {0, 1},
             DecisionIsRationed'
      PROVE  RationInv'
  <2>1. NoYounger(chosen, ToClock', 0)
    BY <1>4, <1>22
  <2>2. ChosenAreSwitches'
    BY <1>4, <1>20, <2>1 DEF ChosenAreSwitches, Among, NoYounger
  <2>3. since' \in 0..Cooldown
    BY <1>1, <1>4
  <2> QED
    BY <1>0, <1>4, <1>21, <2>2, <2>3 DEF RationInv, AgesOK, Sorted
<1>5. CASE Tick
  <2>1. /\ times' = Older(times) /\ chosen' = Older(chosen) /\ hb' = hb
        /\ since' = IF since = Cooldown THEN since ELSE since + 1
    BY <1>5 DEF Tick
  <2>2. AgesOK' /\ Sorted(times)' /\ Sorted(chosen)'
    BY <1>0, <1>1, <2>1, OlderIs DEF AgesOK
  <2>3. /\ Len(times') = Len(times) /\ Len(chosen') = Len(chosen)
        /\ \A i \in 1..Len(times) : /\ times[i] \in 0..Cap
                                    /\ times'[i] = IF times[i] = Cap THEN Cap ELSE times[i] + 1
        /\ \A i \in 1..Len(chosen) : /\ chosen[i] \in 0..Cap
                                     /\ chosen'[i] = IF chosen[i] = Cap THEN Cap ELSE chosen[i] + 1
    BY <1>0, <2>1, OlderIs
  <2>7. ToCount' = ToCount /\ ToClock' = ToClock
    BY <2>1 DEF ToCount, ToClock
  <2>4. ChosenAreSwitches'
    <3>1. ASSUME NEW i \in 1..MaxSwitch, i + ToCount <= Len(chosen)
          PROVE  i <= Len(times) /\ times'[i] <= chosen'[i + ToCount]
      <4>1. i <= Len(times) /\ times[i] <= chosen[i + ToCount]
        BY <1>20, <3>1 DEF Among
      <4>2. i \in 1..Len(times) /\ i + ToCount \in 1..Len(chosen)
        BY <1>0, <1>1, <1>20, <3>1, <4>1
      <4>3. PICK k \in 1..Len(chosen) : k = i + ToCount
        BY <4>2
      <4>4. times[i] \in 0..Cap /\ times'[i] = IF times[i] = Cap THEN Cap ELSE times[i] + 1
        BY <2>3, <4>2
      <4>5. chosen[k] \in 0..Cap /\ chosen'[k] = IF chosen[k] = Cap THEN Cap ELSE chosen[k] + 1
        BY <2>3, <4>3
      <4>6. times'[i] <= chosen'[k]
        BY <1>1, <4>1, <4>3, <4>4, <4>5
      <4> QED
        BY <4>1, <4>3, <4>6
    <3>2. ASSUME Len(chosen) >= 1 + ToClock
          PROVE  chosen'[1 + ToClock] = Cap \/ chosen'[1 + ToClock] >= since'
      <4>1. chosen[1 + ToClock] = Cap \/ chosen[1 + ToClock] >= since
        BY <1>20, <3>2 DEF NoYounger
      <4>2. 1 + ToClock \in 1..Len(chosen)
        BY <1>0, <1>20, <3>2
      <4> QED
        BY <1>0, <1>1, <2>1, <2>3, <4>1, <4>2
    <3> QED
      BY <2>3, <2>7, <3>1, <3>2 DEF ChosenAreSwitches, Among, NoYounger
  <2>5. DecisionIsRationed'
    <3>1. ASSUME Len(chosen) >= 1, chosen[1] = Cap \/ chosen[1] >= Cooldown
          PROVE  chosen'[1] = Cap \/ chosen'[1] >= Cooldown
      <4>1. 1 \in 1..Len(chosen)
        BY <1>0, <3>1
      <4> QED
        BY <1>1, <2>3, <3>1, <4>1
    <3>2. ASSUME Len(chosen) >= MaxSwitch, chosen[MaxSwitch] > Window
          PROVE  chosen'[MaxSwitch] > Window
      <4>1. MaxSwitch \in 1..Len(chosen)
        BY <1>0, <1>1, <3>2
      <4> QED
        BY <1>1, <2>3, <3>2, <4>1
    <3> QED
      BY <2>1, <2>3, <3>1, <3>2 DEF RationInv, DecisionIsRationed
  <2>6. ScoreSwitchesAreRationed'
    <3>1. ASSUME Len(chosen) >= 2
          PROVE  chosen'[2] = Cap \/ chosen'[2] - chosen'[1] >= Cooldown
      <4>3. 1 \in 1..Len(chosen) /\ 2 \in 1..Len(chosen)
        BY <1>0, <3>1
      <4>1. chosen[1] <= chosen[2]
        BY <4>3 DEF RationInv, Sorted
      <4>2. chosen[2] = Cap \/ chosen[2] - chosen[1] >= Cooldown
        BY <3>1 DEF RationInv, ScoreSwitchesAreRationed
      <4>4. /\ chosen[1] \in 0..Cap /\ chosen'[1] = IF chosen[1] = Cap THEN Cap ELSE chosen[1] + 1
            /\ chosen[2] \in 0..Cap /\ chosen'[2] = IF chosen[2] = Cap THEN Cap ELSE chosen[2] + 1
        BY <2>3, <4>3
      <4> QED
        BY <1>1, <4>1, <4>2, <4>4
    <3>2. ASSUME Len(chosen) > MaxSwitch
          PROVE  chosen'[MaxSwitch + 1] > Window
      <4>1. MaxSwitch + 1 \in 1..Len(chosen) /\ chosen[MaxSwitch + 1] > Window
        BY <1>0, <1>1, <3>2 DEF RationInv, ScoreSwitchesAreRationed
      <4> QED
        BY <1>1, <2>3, <4>1
    <3> QED
      BY <2>3, <3>1, <3>2 DEF ScoreSwitchesAreRationed
  <2> QED
    BY <2>2, <2>4, <2>5, <2>6 DEF RationInv
<1>6. CASE StoreResponse
  <2>1. UNCHANGED <<since, times, chosen>> /\ hb'.step = "idle" /\ hb.step = "store"
    BY <1>6 DEF StoreResponse, NoHeartbeat
  <2>2. ToCount = 0 /\ ToClock = 0 /\ ToCount' = 0 /\ ToClock' = 0 /\ DecisionIsRationed'
    BY <2>1 DEF ToCount, ToClock, DecisionIsRationed
  <2>3. ChosenAreSwitches'
    BY <1>20, <2>1, <2>2 DEF ChosenAreSwitches, Among, NoYounger
  <2> QED
    BY <1>0, <1>21, <2>1, <2>2, <2>3 DEF RationInv, AgesOK, Sorted
<1>7. ASSUME UNCHANGED <<since, times, chosen, hb>> PROVE RationInv'
  BY <1>7 DEF RationInv, AgesOK, Sorted, ChosenAreSwitches, Among, NoYounger, ToCount, ToClock,
       DecisionIsRationed, ScoreSwitchesAreRationed
<1>8. CASE ApplySwitchedAt
  <2>1. /\ since' = 0 /\ UNCHANGED <<times, chosen>>
        /\ hb.step = "clock" /\ hb'.step = "count" /\ hb'.gain = hb.gain
    BY <1>8 DEF ApplySwitchedAt, SetSwitchedAt, NoHeartbeat
  <2>2. ToCount' = ToCount /\ ToClock' = 0 /\ DecisionIsRationed'
    BY <2>1 DEF ToCount, ToClock, DecisionIsRationed
  <2> QED
    BY <1>4, <2>1, <2>2
<1>9. CASE ForceSwitchedAt
  <2>1. since' = 0 /\ UNCHANGED <<times, chosen, hb>>
    BY <1>9 DEF ForceSwitchedAt, SetSwitchedAt
  <2>2. ToCount' = ToCount /\ ToClock' = ToClock /\ DecisionIsRationed'
    BY <2>1 DEF ToCount, ToClock, DecisionIsRationed, RationInv
  <2> QED
    BY <1>4, <1>20, <2>1, <2>2
\* A switch is counted, by either task.
<1>10. ASSUME times' = Push(times, MaxSwitch), UNCHANGED <<since, chosen>>,
              ToCount' = ToCount \/ ToCount' = 0, ToClock' = ToClock, DecisionIsRationed'
       PROVE  RationInv'
  <2>1. /\ times' \in Seq(0..Cap) /\ Len(times') <= MaxSwitch /\ Sorted(times')
        /\ Among(times, chosen, 0) => Among(times', chosen, 0)
        /\ Among(times, chosen, 1) => Among(times', chosen, 0) /\ Among(times', chosen, 1)
    BY <1>0, <1>10, CountKeeps
  <2>2. Among(times', chosen, ToCount')
    BY <1>10, <1>20, <2>1
  <2>3. ChosenAreSwitches'
    BY <1>10, <1>20, <2>2 DEF ChosenAreSwitches, Among, NoYounger
  <2> QED
    BY <1>0, <1>10, <1>21, <2>1, <2>3 DEF RationInv, AgesOK, Sorted
<1>11. CASE ApplyCount
  <2>1. /\ times' = Push(times, MaxSwitch) /\ UNCHANGED <<since, chosen>>
        /\ hb.step = "count" /\ hb'.step = "store"
    BY <1>11 DEF ApplyCount, CountSwitch, NoHeartbeat
  <2>2. ToCount' = 0 /\ ToClock' = 0 /\ ToClock = 0 /\ DecisionIsRationed'
    BY <2>1 DEF ToCount, ToClock, DecisionIsRationed
  <2> QED
    BY <1>10, <2>1, <2>2
<1>12. CASE ForceCount
  <2>1. times' = Push(times, MaxSwitch) /\ UNCHANGED <<since, chosen, hb>>
    BY <1>12 DEF ForceCount, CountSwitch
  <2>2. ToCount' = ToCount /\ ToClock' = ToClock /\ DecisionIsRationed'
    BY <2>1 DEF ToCount, ToClock, DecisionIsRationed, RationInv
  <2> QED
    BY <1>10, <2>1, <2>2
<1> QED
  BY <1>2, <1>3, <1>5, <1>6, <1>7, <1>8, <1>9, <1>11, <1>12
     DEF Next, StartPing, MeshPing, CheckUpstream, EmergencySwitch, ForcePath, ExpireProbe, vars

LEMMA RationInit == Init => RationInv
<1> SUFFICES ASSUME Init PROVE RationInv
  OBVIOUS
<1>1. /\ times = << >> /\ chosen = << >> /\ Len(times) = 0 /\ Len(chosen) = 0 /\ since = Cooldown
      /\ ToCount = 0 /\ ToClock = 0 /\ hb.step = "idle"
  BY DEF Init, ToCount, ToClock, NoHeartbeat
<1>2. MaxSwitch \in Nat \ {0} /\ Cooldown \in Nat /\ \A i \in 1..MaxSwitch : ~(i + 0 <= 0)
  BY SelectorAssumption
<1>3. ChosenAreSwitches
  BY <1>1, <1>2 DEF ChosenAreSwitches, Among, NoYounger
<1> QED
  BY <1>1, <1>2, <1>3 DEF RationInv, AgesOK, Sorted, DecisionIsRationed, ScoreSwitchesAreRationed

\* For all limits, switches for a better score are a cool-down apart and at most
\* MaxSwitch of them fall into a window, though a decision of check_hysteresis
\* may be carried out after the ping task has switched as well, and each switch
\* is noted in two more steps after it was made.
THEOREM SwitchesRationed == Spec => []ScoreSwitchesAreRationed
<1>1. RationInv => ScoreSwitchesAreRationed
  BY DEF RationInv
<1> QED
  BY <1>1, RationInit, RationStep, PTL DEF Spec

-----------------------------------------------------------------------------
(* Types.                                                                  *)

\* A path: where to pull from, and the score with which it was chosen.
Hop == [up : Upstream \cup {Origin}, score : Int]

\* What a choice is, whatever probes have failed.
LEMMA SelectedIsHop ==
  ASSUME NEW R \in Offers, NEW p \in SelectFromCandidates(R)
  PROVE  p \in Hop
<1>1. PICK C \in SUBSET Upstream : R \in [C -> Levels]
  BY DEF Offers
<1>2. Levels \subseteq Nat /\ Penalty \in Nat
  BY SelectorAssumption
<1>3. CASE DOMAIN R = {}
  BY <1>3 DEF SelectFromCandidates, Direct, Hop
<1>4. CASE DOMAIN R # {}
  <2>1. PICK u \in DOMAIN R : p = [up |-> u, score |-> LevelOf(R, u)]
    BY <1>4 DEF SelectFromCandidates
  <2>2. u \in Upstream /\ R[u] \in Nat
    BY <1>1, <1>2
  <2>3. LevelOf(R, u) \in Int
    BY <1>2, <2>2 DEF LevelOf
  <2> QED
    BY <2>1, <2>2, <2>3 DEF Hop
<1> QED
  BY <1>3, <1>4

\* The two tasks: what they have decided is a path, what the heartbeat task
\* handles and what is stored are offers.
Forced == [from : SUBSET Upstream, to : Hop]
TasksOK ==
    /\ path \in Hop
    /\ last = {} \/ \E R \in Offers : last = {R}
    /\ hb.step \in {"idle", "path", "clock", "count", "store"}
    /\ hb.step # "idle" => hb.offers \in Offers
    /\ hb.step = "path" => hb.to \in Hop
    /\ ping \in {"idle", "probing", "checking", "switching", "path", "clock", "count"}
    /\ forced = {} \/ \E F \in Forced : forced = {F}
    /\ probed \subseteq Upstream
    /\ failed \subseteq Upstream

LEMMA TasksStep == TasksOK /\ [Next]_vars => TasksOK'
<1> SUFFICES ASSUME TasksOK, [Next]_vars
             PROVE  TasksOK'
  OBVIOUS
<1>1. ASSUME NEW R \in Offers, NEW offline \in BOOLEAN, Decide(R, offline)
      PROVE  TasksOK'
  <2>1. PICK p \in SelectFromCandidates(R) :
          \/ hb' = [step |-> "path", offers |-> R, to |-> p, gain |-> ~offline /\ OtherAgent(p)]
          \/ hb' = [NoHeartbeat EXCEPT !.step = "store", !.offers = R]
    BY <1>1 DEF Decide
  <2>2. p \in Hop
    BY SelectedIsHop
  <2>3. /\ hb'.step \in {"path", "store"} /\ hb'.offers = R
        /\ hb'.step = "path" => hb'.to = p
    <3>1. CASE hb' = [step |-> "path", offers |-> R, to |-> p, gain |-> ~offline /\ OtherAgent(p)]
      BY <3>1
    <3>2. CASE hb' = [NoHeartbeat EXCEPT !.step = "store", !.offers = R]
      BY <3>2 DEF NoHeartbeat
    <3> QED
      BY <2>1, <3>1, <3>2
  <2> QED
    BY <1>1, <2>2, <2>3 DEF Decide, TasksOK
<1>2. CASE ApplyPath \/ ApplySwitchedAt \/ ApplyCount
  <2>1. /\ hb.step \in {"path", "clock", "count"} /\ hb'.step \in {"clock", "count", "store"}
        /\ hb'.offers = hb.offers
    BY <1>2 DEF ApplyPath, ApplySwitchedAt, ApplyCount, NoHeartbeat
  <2>2. path' \in Hop
    BY <1>2 DEF ApplyPath, ApplySwitchedAt, ApplyCount, SetPath, TasksOK
  <2> QED
    BY <1>2, <2>1, <2>2 DEF ApplyPath, ApplySwitchedAt, ApplyCount, TasksOK
<1>3. CASE StoreResponse
  <2>1. hb'.step = "idle" /\ last' = {hb.offers} /\ hb.offers \in Offers
    BY <1>3 DEF StoreResponse, NoHeartbeat, TasksOK
  <2> QED
    BY <1>3, <2>1 DEF StoreResponse, TasksOK
<1>4. CASE StartPing
  <2>1. PICK R \in last : probed' = DOMAIN R
    BY <1>4 DEF StartPing
  <2>2. probed' \subseteq Upstream
    BY <2>1, OffersHaveDomain DEF TasksOK
  <2> QED
    BY <1>4, <2>2 DEF StartPing, TasksOK
<1>5. CASE MeshPing
  BY <1>5 DEF MeshPing, TasksOK
<1>6. CASE CheckUpstream
  BY <1>6 DEF CheckUpstream, TasksOK
<1>7. CASE EmergencySwitch
  <2>1. PICK R \in last : \E p \in SelectFromCandidates(R) : forced' = {[from |-> DOMAIN R, to |-> p]}
    BY <1>7 DEF EmergencySwitch
  <2>2. PICK p \in SelectFromCandidates(R) : forced' = {[from |-> DOMAIN R, to |-> p]}
    BY <2>1
  <2>3. R \in Offers
    BY DEF TasksOK
  <2>4. p \in Hop /\ DOMAIN R \in SUBSET Upstream
    BY <2>2, <2>3, SelectedIsHop, OffersHaveDomain
  <2>5. [from |-> DOMAIN R, to |-> p] \in Forced
    BY <2>4 DEF Forced
  <2> QED
    BY <1>7, <2>2, <2>5 DEF EmergencySwitch, TasksOK
<1>11. CASE ForcePath
  <2>1. PICK F \in forced : path' = F.to
    BY <1>11 DEF ForcePath, SetPath
  <2>2. F \in Forced
    BY DEF TasksOK
  <2>3. path' \in Hop
    BY <2>1, <2>2 DEF Forced
  <2> QED
    BY <1>11, <2>3 DEF ForcePath, TasksOK
<1>12. CASE ForceSwitchedAt \/ ForceCount
  BY <1>12 DEF ForceSwitchedAt, ForceCount, TasksOK
<1>8. ASSUME NEW u \in Upstream, ExpireProbe(u) PROVE TasksOK'
  BY <1>8 DEF ExpireProbe, TasksOK
<1>9. CASE Tick
  BY <1>9 DEF Tick, TasksOK
<1>10. CASE UNCHANGED vars
  BY <1>10 DEF vars, TasksOK
<1> QED
  BY <1>1, <1>2, <1>3, <1>4, <1>5, <1>6, <1>7, <1>8, <1>9, <1>10, <1>11, <1>12 DEF Next

\* For any upstreams and limits the selector's state keeps its types: the path is
\* the origin or an agent, and no more switches are remembered than are counted.
THEOREM TypeCorrect == Spec => []TypeOK
<1>1. Init => TasksOK
  BY DEF Init, TasksOK, Hop, Direct, NoHeartbeat
<1>2. TasksOK /\ RationInv => TypeOK
  BY DEF TasksOK, RationInv, AgesOK, TypeOK, Forced, Hop
<1> QED
  BY <1>1, <1>2, TasksStep, RationInit, RationStep, PTL DEF Spec
=============================================================================
