-------------------------- MODULE StreamKeysProofs --------------------------
(***************************************************************************)
(* Proofs about the stream table, for any sets of streams, rotators and    *)
(* mode handlers and any bound on the key versions.                        *)
(***************************************************************************)
EXTENDS StreamKeys, TLAPS

\* Only a stream that was started is ended.
EndedWasStarted == \A s \in ended : Started(s)

\* A snapshot of the live streams consists of pointers.
LEMMA LivePointers == KeysTypeOK => GetLiveStreams \subseteq Pointer
  BY KeyAssumption DEF KeysTypeOK, GetLiveStreams, IsLive, Started, Pointer, Version

\* The stream table, its objects and the pointers to them keep their types.
LEMMA TypeStep == KeysTypeOK /\ [KeyNext]_keyVars => KeysTypeOK'
<1> SUFFICES ASSUME KeysTypeOK, [KeyNext]_keyVars
             PROVE  KeysTypeOK'
  OBVIOUS
<1> USE KeyAssumption DEF KeysTypeOK
<1>1. ASSUME NEW s \in Stream, NEW m \in Mode \cup {NoMode}, StartStream(s, m)
      PROVE  KeysTypeOK'
  BY <1>1 DEF StartStream, CreateStream, Pointer, Version
<1>2. ASSUME NEW s \in Stream, EndStream(s) PROVE KeysTypeOK'
  BY <1>2 DEF EndStream
<1>3. ASSUME NEW s \in Stream, Mature(s) PROVE KeysTypeOK'
  BY <1>3 DEF Mature
<1>4. ASSUME NEW s \in Stream, NEW h \in ModeHandler, NEW m, GetForMode(h, s, m)
      PROVE  KeysTypeOK'
  <2>1. << <<s, cur[s]>>, m>> \in Pointer \X Mode
    BY <1>4 DEF GetForMode, IsLive, Started, Pointer, Version
  <2>2. QED
    BY <1>4, <2>1 DEF GetForMode
<1>5. ASSUME NEW k \in Rotator, BeginRotation(k) PROVE KeysTypeOK'
  BY <1>5, LivePointers DEF BeginRotation
<1>6. ASSUME NEW k \in Rotator, NEW p \in Pointer, SkipYoung(k, p) PROVE KeysTypeOK'
  BY <1>6 DEF SkipYoung, Turn
<1>7. ASSUME NEW k \in Rotator, NEW p \in Pointer, OutOfVersions(k, p) PROVE KeysTypeOK'
  BY <1>7 DEF OutOfVersions, Turn
<1>8. ASSUME NEW k \in Rotator, NEW p \in Pointer, GenerateKey(k, p) PROVE KeysTypeOK'
  <2>1. p[1] \in Stream /\ NextKey(p) \in Version
    BY <1>8 DEF GenerateKey, NextKey, Pointer, Version
  <2>2. <<p[1], NextKey(p)>> \in Pointer
    BY <2>1 DEF Pointer
  <2>3. QED
    BY <1>8, <2>1, <2>2 DEF GenerateKey, Turn, Version
<1>8a. ASSUME NEW k \in Rotator, StoreKey(k) PROVE KeysTypeOK'
  BY <1>8a DEF StoreKey, Pointer, Version
<1>9. ASSUME NEW h \in ModeHandler, PutWithMode(h) PROVE KeysTypeOK'
  <2>1. PICK w \in held[h] :
          /\ mode' = [mode EXCEPT ![w[1]] = w[2]]
          /\ cur' = [cur EXCEPT ![w[1][1]] = w[1][2]]
          /\ held' = [held EXCEPT ![h] = {}]
          /\ UNCHANGED <<made, live, mature, todo, fresh, ended>>
    BY <1>9 DEF PutWithMode
  <2>2. w[1] \in Pointer /\ w[2] \in Mode /\ w[1][1] \in Stream /\ w[1][2] \in 0..MaxVer
    BY DEF Pointer, Version
  <2>3. QED
    BY <2>1, <2>2
<1>10. CASE UNCHANGED keyVars
  BY <1>10 DEF keyVars
<1>11. QED
  BY <1>1, <1>2, <1>3, <1>4, <1>5, <1>6, <1>7, <1>8, <1>8a, <1>9, <1>10
     DEF KeyNext, RotatorStep, TickerFires, TriggerKeyRotation

\* Type correctness of the stream table.
THEOREM TypeCorrect == KeySpec => []KeysTypeOK
<1>1. KeyInit => KeysTypeOK
  BY KeyAssumption DEF KeyInit, KeysTypeOK
<1>2. QED
  BY <1>1, TypeStep, PTL DEF KeySpec

\* No step empties the entry of a stream that was started.
LEMMA StartedStep == KeysTypeOK /\ EndedWasStarted /\ [KeyNext]_keyVars => EndedWasStarted'
<1> SUFFICES ASSUME KeysTypeOK, EndedWasStarted, [KeyNext]_keyVars, NEW s \in ended'
             PROVE  cur'[s] # 0
  BY DEF EndedWasStarted, Started
<1> USE DEF EndedWasStarted, Started, KeysTypeOK
<1>1. CASE s \notin ended
  BY <1>1 DEF KeyNext, keyVars, RotatorStep, TickerFires, TriggerKeyRotation, StartStream,
     CreateStream, EndStream, Mature, GetForMode,
     BeginRotation, SkipYoung, OutOfVersions, GenerateKey, Turn, StoreKey, PutWithMode
<1>2. CASE s \in ended
  <2>1. ASSUME NEW k \in Rotator, StoreKey(k) PROVE cur'[s] # 0
    BY <1>2, <2>1 DEF StoreKey, Pointer, Version
  <2>2. ASSUME NEW h \in ModeHandler, PutWithMode(h) PROVE cur'[s] # 0
    BY <1>2, <2>2 DEF PutWithMode, Pointer, Version
  <2>3. ASSUME NEW t \in Stream, NEW m, StartStream(t, m) PROVE cur'[s] # 0
    BY <1>2, <2>3 DEF StartStream, CreateStream
  <2>4. CASE UNCHANGED cur
    BY <1>2, <2>4
  <2>5. QED
    BY <2>1, <2>2, <2>3, <2>4 DEF KeyNext, keyVars, RotatorStep, TickerFires,
       TriggerKeyRotation, EndStream, Mature,
       GetForMode, BeginRotation, SkipYoung, GenerateKey, OutOfVersions
<1>3. QED
  BY <1>1, <1>2

-----------------------------------------------------------------------------
\* A stream that is over is reached by no step that could bring it back.
LEMMA OverStep ==
  KeysTypeOK /\ EndedWasStarted /\ [KeyNext]_keyVars => \A s \in Stream : Over(s) => Over(s)'
<1> SUFFICES ASSUME KeysTypeOK, EndedWasStarted, [KeyNext]_keyVars, NEW s \in Stream, Over(s)
             PROVE  Over(s)'
  OBVIOUS
<1> USE DEF KeysTypeOK
<1>0. /\ s \in ended /\ cur[s] # 0 /\ <<s, cur[s]>> \notin live
      /\ \A k \in Rotator, v \in Version : <<s, v>> \notin todo[k] /\ <<s, v>> \notin fresh[k]
      /\ \A h \in ModeHandler, v \in Version, m \in Mode : << <<s, v>>, m>> \notin held[h]
  BY DEF Over, EndedWasStarted, Started, IsLive, InFlight
<1>00. SUFFICES /\ s \in ended' /\ <<s, cur'[s]>> \notin live'
                /\ \A k \in Rotator, v \in Version :
                      <<s, v>> \notin todo'[k] /\ <<s, v>> \notin fresh'[k]
                /\ \A h \in ModeHandler, v \in Version, m \in Mode :
                      << <<s, v>>, m>> \notin held'[h]
  BY DEF Over, Started, IsLive, InFlight
<1>1. ASSUME NEW t \in Stream, NEW m, StartStream(t, m) PROVE <1>00!1
  BY <1>0, <1>1 DEF StartStream, CreateStream, Started
<1>2. ASSUME NEW t \in Stream, EndStream(t) PROVE <1>00!1
  BY <1>0, <1>2 DEF EndStream
<1>3. ASSUME NEW t \in Stream, Mature(t) PROVE <1>00!1
  BY <1>0, <1>3 DEF Mature
<1>4. ASSUME NEW t \in Stream, NEW g \in ModeHandler, NEW m, GetForMode(g, t, m)
      PROVE  <1>00!1
  BY <1>0, <1>4 DEF GetForMode, IsLive, Started
<1>5. ASSUME NEW k \in Rotator, BeginRotation(k) PROVE <1>00!1
  <2>1. \A v \in Version : <<s, v>> \notin GetLiveStreams
    BY <1>0 DEF GetLiveStreams, IsLive, Started
  <2>2. QED
    BY <1>0, <1>5, <2>1 DEF BeginRotation
<1>6. ASSUME NEW k \in Rotator, NEW p \in Pointer, SkipYoung(k, p) PROVE <1>00!1
  BY <1>0, <1>6 DEF SkipYoung, Turn
<1>7. ASSUME NEW k \in Rotator, NEW p \in Pointer, OutOfVersions(k, p) PROVE <1>00!1
  BY <1>0, <1>7 DEF OutOfVersions, Turn
<1>8. ASSUME NEW k \in Rotator, NEW p \in Pointer, GenerateKey(k, p) PROVE <1>00!1
  <2>1. p[1] \in Stream /\ p[2] \in Version /\ p = <<p[1], p[2]>>
    BY DEF Pointer
  <2>2. p[1] # s
    BY <1>0, <1>8, <2>1 DEF GenerateKey, Turn
  <2>3. cur'[s] = cur[s] /\ <<s, cur[s]>> \notin live'
    BY <1>0, <1>8, <2>1, <2>2 DEF GenerateKey
  <2>4. \A j \in Rotator, v \in Version :
          <<s, v>> \notin todo'[j] /\ <<s, v>> \notin fresh'[j]
    BY <1>0, <1>8, <2>2 DEF GenerateKey, Turn
  <2>5. QED
    BY <1>0, <1>8, <2>3, <2>4 DEF GenerateKey
<1>8a. ASSUME NEW k \in Rotator, StoreKey(k) PROVE <1>00!1
  <2>1. PICK p \in fresh[k] :
          /\ cur' = [cur EXCEPT ![p[1]] = p[2]]
          /\ fresh' = [fresh EXCEPT ![k] = {}]
          /\ UNCHANGED <<made, live, mode, mature, todo, held, ended>>
    BY <1>8a DEF StoreKey
  <2>2. p[1] \in Stream /\ p[2] \in Version /\ p = <<p[1], p[2]>>
    BY DEF Pointer
  <2>3. p[1] # s
    BY <1>0, <2>2
  <2>4. QED
    BY <1>0, <2>1, <2>2, <2>3
<1>9. ASSUME NEW g \in ModeHandler, PutWithMode(g) PROVE <1>00!1
  <2>1. PICK w \in held[g] :
          /\ cur' = [cur EXCEPT ![w[1][1]] = w[1][2]]
          /\ held' = [held EXCEPT ![g] = {}]
          /\ UNCHANGED <<made, live, mature, todo, fresh, ended>>
    BY <1>9 DEF PutWithMode
  <2>2. w \in Pointer \X Mode
    OBVIOUS
  <2>3. w[1][1] \in Stream /\ w[1][2] \in Version /\ w[2] \in Mode
        /\ w = << <<w[1][1], w[1][2]>>, w[2]>>
    BY <2>2 DEF Pointer
  <2>4. w[1][1] # s
    BY <1>0, <2>3
  <2>5. QED
    BY <1>0, <2>1, <2>3, <2>4
<1>10. CASE UNCHANGED keyVars
  BY <1>0, <1>10 DEF keyVars
<1>11. QED
  BY <1>1, <1>2, <1>3, <1>4, <1>5, <1>6, <1>7, <1>8, <1>8a, <1>9, <1>10
     DEF KeyNext, RotatorStep, TickerFires, TriggerKeyRotation

\* However many rotations and mode changes run, once those that overlapped the
\* stop are done the stream stays stopped.
THEOREM OverIsFinal == KeySpec => OverStaysOver
<1>1. KeyInit => EndedWasStarted
  BY DEF KeyInit, EndedWasStarted
<1>2. KeysTypeOK /\ EndedWasStarted /\ [KeyNext]_keyVars
        => [\A s \in Stream : Over(s) => Over(s)']_keyVars
  BY OverStep
<1>3. QED
  BY <1>1, <1>2, TypeCorrect, StartedStep, PTL DEF KeySpec, OverStaysOver

-----------------------------------------------------------------------------
(* Key versions.                                                           *)

\* The version in the table and those that rotators and mode handlers hold have
\* been made, a stream without a version in the table has none, and a snapshot
\* is of streams that have.
VersionsWereMade ==
    /\ \A k \in Rotator : \A p \in todo[k] : cur[p[1]] # 0
    /\ \A s \in Stream : cur[s] <= made[s] /\ (cur[s] = 0 => made[s] = 0)
    /\ \A k \in Rotator : \A p \in fresh[k] : p[2] <= made[p[1]]
    /\ \A h \in ModeHandler : \A w \in held[h] : w[1][2] <= made[w[1][1]]

\* The same as facts about one stream or one pointer at a time.
LEMMA VersionFacts ==
  ASSUME KeysTypeOK, VersionsWereMade
  PROVE  /\ \A s \in Stream : cur[s] \in Int /\ made[s] \in Int /\ cur[s] >= 0 /\ made[s] >= 0
         /\ \A k \in Rotator : \A p \in fresh[k] :
               p[1] \in Stream /\ p[2] \in Version /\ p[2] <= made[p[1]] /\ p = <<p[1], p[2]>>
         /\ \A h \in ModeHandler : \A w \in held[h] :
               /\ w[1][1] \in Stream /\ w[1][2] \in Version /\ w[1][2] <= made[w[1][1]]
               /\ w[1] \in Pointer /\ w[2] \in Mode /\ w = <<w[1], w[2]>>
  BY KeyAssumption DEF KeysTypeOK, VersionsWereMade, Pointer

\* What was started stays started.
LEMMA StaysStarted ==
  ASSUME KeysTypeOK, [KeyNext]_keyVars
  PROVE  \A s \in Stream : cur[s] # 0 => cur'[s] # 0
<1> SUFFICES ASSUME NEW s \in Stream, cur[s] # 0 PROVE cur'[s] # 0
  OBVIOUS
<1> USE DEF KeysTypeOK
<1>1. ASSUME NEW k \in Rotator, StoreKey(k) PROVE cur'[s] # 0
  BY <1>1 DEF StoreKey, Pointer, Version
<1>2. ASSUME NEW h \in ModeHandler, PutWithMode(h) PROVE cur'[s] # 0
  BY <1>2 DEF PutWithMode, Pointer, Version
<1>3. ASSUME NEW t \in Stream, NEW m, StartStream(t, m) PROVE cur'[s] # 0
  BY <1>3 DEF StartStream, CreateStream
<1> QED
  BY <1>1, <1>2, <1>3 DEF KeyNext, keyVars, RotatorStep, TickerFires,
     TriggerKeyRotation, EndStream, Mature,
     GetForMode, BeginRotation, SkipYoung, GenerateKey, OutOfVersions

\* A rotator has in its snapshot only streams that were started.
LEMMA TodoStep ==
  ASSUME KeysTypeOK, VersionsWereMade, [KeyNext]_keyVars
  PROVE  \A k \in Rotator : \A p \in todo'[k] : cur'[p[1]] # 0
<1> SUFFICES ASSUME NEW k \in Rotator, NEW p \in todo'[k]
             PROVE  p[1] \in Stream /\ cur[p[1]] # 0
  BY StaysStarted
<1>1. CASE p \in todo[k]
  BY <1>1 DEF VersionsWereMade, KeysTypeOK, Pointer
<1>2. CASE p \notin todo[k]
  <2>1. \E j \in Rotator : BeginRotation(j)
    BY <1>2 DEF KeyNext, keyVars, RotatorStep, TickerFires, TriggerKeyRotation, EndStream, Mature,
       GetForMode, SkipYoung, Turn, GenerateKey, OutOfVersions, StoreKey, PutWithMode,
       StartStream, KeysTypeOK
  <2>2. p \in GetLiveStreams
    BY <1>2, <2>1 DEF BeginRotation, KeysTypeOK
  <2>3. PICK s \in Stream : IsLive(s) /\ p = <<s, cur[s]>>
    BY <2>2 DEF GetLiveStreams
  <2> QED
    BY <2>3 DEF IsLive, Started
<1> QED
  BY <1>1, <1>2

\* Every step keeps it.
LEMMA VersionStep ==
  ASSUME KeysTypeOK, VersionsWereMade, [KeyNext]_keyVars
  PROVE  VersionsWereMade'
<1> DEFINE Facts ==
      /\ \A s \in Stream : cur[s] \in Int /\ made[s] \in Int /\ cur[s] >= 0 /\ made[s] >= 0
      /\ \A k \in Rotator : \A p \in fresh[k] :
            p[1] \in Stream /\ p[2] \in Int /\ p[2] >= 1 /\ p[2] <= made[p[1]]
      /\ \A h \in ModeHandler : \A w \in held[h] :
            w[1][1] \in Stream /\ w[1][2] \in Int /\ w[1][2] >= 1 /\ w[1][2] <= made[w[1][1]]
      /\ \A s \in Stream : cur[s] <= made[s] /\ (cur[s] = 0 => made[s] = 0)
      /\ \A k \in Rotator : \A p \in todo[k] : cur[p[1]] # 0
<1>1. Facts
  BY VersionFacts DEF VersionsWereMade, Version
<1> HIDE DEF Facts
<1>0. \A k \in Rotator : \A p \in todo'[k] : cur'[p[1]] # 0
  BY TodoStep
<1>2. ASSUME UNCHANGED <<cur, made, fresh, held>> PROVE VersionsWereMade'
  BY <1>0, <1>2 DEF VersionsWereMade
<1>3. ASSUME NEW s \in Stream, NEW m, StartStream(s, m) PROVE VersionsWereMade'
  <2>1. /\ cur[s] = 0 /\ made[s] = 0 /\ held' = held /\ fresh' = fresh
        /\ cur' = [cur EXCEPT ![s] = 1] /\ made' = [made EXCEPT ![s] = 1]
    BY <1>3 DEF StartStream, CreateStream, Started, VersionsWereMade
  <2>2. /\ \A t \in Stream : t # s => cur'[t] = cur[t] /\ made'[t] = made[t]
        /\ cur'[s] = 1 /\ made'[s] = 1
    BY <2>1 DEF KeysTypeOK
  <2>3. \A k \in Rotator : \A p \in fresh'[k] : p[2] <= made'[p[1]]
    BY <1>1, <2>1, <2>2 DEF Facts
  <2>4. \A h \in ModeHandler : \A w \in held'[h] : w[1][2] <= made'[w[1][1]]
    BY <1>1, <2>1, <2>2 DEF Facts
  <2>5. \A t \in Stream : cur'[t] <= made'[t] /\ (cur'[t] = 0 => made'[t] = 0)
    BY <1>1, <2>2 DEF Facts
  <2> QED
    BY <1>0, <2>3, <2>4, <2>5 DEF VersionsWereMade
<1>4. ASSUME NEW k \in Rotator, NEW p \in Pointer, GenerateKey(k, p) PROVE VersionsWereMade'
  <2> DEFINE s == p[1]
  <2>1. /\ s \in Stream /\ held' = held /\ cur' = cur
        /\ made' = [made EXCEPT ![s] = made[s] + 1]
        /\ fresh' = [fresh EXCEPT ![k] = {<<s, made[s] + 1>>}]
    BY <1>4 DEF GenerateKey, NextKey, Pointer
  <2> HIDE DEF s
  <2>2. /\ \A t \in Stream : t # s => made'[t] = made[t]
        /\ made'[s] = made[s] + 1
    BY <2>1 DEF KeysTypeOK
  <2>3. \A j \in Rotator : \A q \in fresh'[j] : q \in fresh[j] \/ q = <<s, made[s] + 1>>
    BY <2>1 DEF KeysTypeOK
  <2>4. \A t \in Stream : made[t] \in Int /\ made'[t] \in Int /\ made[t] <= made'[t]
    BY <1>1, <2>1, <2>2 DEF Facts
  <2>5. \A j \in Rotator : \A q \in fresh'[j] : q[2] <= made'[q[1]]
    <3> SUFFICES ASSUME NEW j \in Rotator, NEW q \in fresh'[j]
                 PROVE  q[2] <= made'[q[1]]
      OBVIOUS
    <3>1. CASE q = <<s, made[s] + 1>>
      BY <2>1, <2>2, <2>4, <3>1
    <3>2. CASE q \in fresh[j]
      BY <1>1, <2>4, <3>2 DEF Facts
    <3> QED
      BY <2>3, <3>1, <3>2
  <2>6. \A h \in ModeHandler : \A w \in held'[h] : w[1][2] <= made'[w[1][1]]
    BY <1>1, <2>1, <2>4 DEF Facts
  <2>7. \A t \in Stream : cur'[t] <= made'[t] /\ (cur'[t] = 0 => made'[t] = 0)
    <3>1. cur[s] # 0
      BY <1>1, <1>4 DEF Facts, GenerateKey, Turn, s
    <3> QED
      BY <1>1, <2>1, <2>2, <2>4, <3>1 DEF Facts
  <2> QED
    BY <1>0, <2>5, <2>6, <2>7 DEF VersionsWereMade
<1>5. ASSUME NEW k \in Rotator, StoreKey(k) PROVE VersionsWereMade'
  <2>1. PICK p \in fresh[k] :
          /\ cur' = [cur EXCEPT ![p[1]] = p[2]]
          /\ fresh' = [fresh EXCEPT ![k] = {}]
          /\ UNCHANGED <<made, held>>
    BY <1>5 DEF StoreKey
  <2>2. p[1] \in Stream /\ p[2] \in Int /\ p[2] >= 1 /\ p[2] <= made[p[1]]
    BY <1>1 DEF Facts
  <2>3. \A t \in Stream : cur'[t] <= made'[t] /\ (cur'[t] = 0 => made'[t] = 0)
    BY <2>1, <2>2 DEF KeysTypeOK, VersionsWereMade
  <2>4. \A j \in Rotator : fresh'[j] \subseteq fresh[j]
    BY <2>1 DEF KeysTypeOK
  <2> QED
    BY <1>0, <2>1, <2>3, <2>4 DEF VersionsWereMade
<1>6. ASSUME NEW s \in Stream, NEW h \in ModeHandler, NEW m, GetForMode(h, s, m)
      PROVE  VersionsWereMade'
  <2>1. held' = [held EXCEPT ![h] = {<< <<s, cur[s]>>, m>>}] /\ UNCHANGED <<cur, made, fresh>>
    BY <1>6 DEF GetForMode
  <2>2. \A g \in ModeHandler : \A w \in held'[g] : w \in held[g] \/ w = << <<s, cur[s]>>, m>>
    BY <2>1 DEF KeysTypeOK
  <2>3. \A g \in ModeHandler : \A w \in held'[g] : w[1][2] <= made'[w[1][1]]
    BY <2>1, <2>2 DEF VersionsWereMade
  <2> QED
    BY <1>0, <2>1, <2>3 DEF VersionsWereMade
<1>7. ASSUME NEW h \in ModeHandler, PutWithMode(h) PROVE VersionsWereMade'
  <2>1. PICK w \in held[h] :
          /\ cur' = [cur EXCEPT ![w[1][1]] = w[1][2]]
          /\ held' = [held EXCEPT ![h] = {}]
          /\ UNCHANGED <<made, fresh>>
    BY <1>7 DEF PutWithMode
  <2>2. w[1][1] \in Stream /\ w[1][2] \in Int /\ w[1][2] >= 1 /\ w[1][2] <= made[w[1][1]]
    BY <1>1 DEF Facts
  <2>3. \A t \in Stream : cur'[t] <= made'[t] /\ (cur'[t] = 0 => made'[t] = 0)
    BY <2>1, <2>2 DEF KeysTypeOK, VersionsWereMade
  <2>4. \A g \in ModeHandler : held'[g] \subseteq held[g]
    BY <2>1 DEF KeysTypeOK
  <2> QED
    BY <1>0, <2>1, <2>3, <2>4 DEF VersionsWereMade
<1> QED
  BY <1>2, <1>3, <1>4, <1>5, <1>6, <1>7
     DEF KeyNext, RotatorStep, TickerFires, TriggerKeyRotation, BeginRotation, SkipYoung,
         OutOfVersions, EndStream, Mature, keyVars

\* No step puts a retired object back or takes it up again.
LEMMA RetiredStep ==
  ASSUME KeysTypeOK, VersionsWereMade, [KeyNext]_keyVars, NEW p \in Pointer, Retired(p)
  PROVE  Retired(p)'
<1>0. /\ p[1] \in Stream /\ p[2] \in Int /\ p[2] >= 1 /\ p[2] <= made[p[1]]
      /\ p = <<p[1], p[2]>> /\ cur[p[1]] # p[2]
      /\ \A k \in Rotator : p \notin fresh[k]
      /\ \A h \in ModeHandler, m \in Mode : <<p, m>> \notin held[h]
  BY DEF Retired, Pointer, Version
<1>00. SUFFICES /\ p[2] <= made'[p[1]] /\ cur'[p[1]] # p[2]
                /\ \A k \in Rotator : p \notin fresh'[k]
                /\ \A h \in ModeHandler, m \in Mode : <<p, m>> \notin held'[h]
  BY DEF Retired
<1>1. ASSUME UNCHANGED <<cur, made, fresh, held>> PROVE <1>00!1
  BY <1>0, <1>1
<1>2. ASSUME NEW s \in Stream, NEW m, StartStream(s, m) PROVE <1>00!1
  <2>1. s # p[1]
    BY <1>0, <1>2 DEF StartStream, Started, VersionsWereMade
  <2> QED
    BY <1>0, <1>2, <2>1 DEF StartStream, CreateStream, KeysTypeOK
<1>3. ASSUME NEW k \in Rotator, NEW q \in Pointer, GenerateKey(k, q) PROVE <1>00!1
  <2>1. /\ made' = [made EXCEPT ![q[1]] = made[q[1]] + 1] /\ UNCHANGED <<cur, held>>
        /\ fresh' = [fresh EXCEPT ![k] = {<<q[1], made[q[1]] + 1>>}]
        /\ q[1] \in Stream
    BY <1>3 DEF GenerateKey, NextKey, Pointer
  <2>2. made[p[1]] \in Int /\ made[q[1]] \in Int
    BY <1>0, <2>1, VersionFacts
  <2>3. p # <<q[1], made[q[1]] + 1>>
    BY <1>0, <2>1, <2>2
  <2>4. p[2] <= made'[p[1]]
    BY <1>0, <2>1, <2>2 DEF KeysTypeOK
  <2>5. \A j \in Rotator : p \notin fresh'[j]
    BY <1>0, <2>1, <2>3 DEF KeysTypeOK
  <2> QED
    BY <1>0, <2>1, <2>4, <2>5
<1>4. ASSUME NEW k \in Rotator, StoreKey(k) PROVE <1>00!1
  <2>1. PICK q \in fresh[k] :
          /\ cur' = [cur EXCEPT ![q[1]] = q[2]]
          /\ fresh' = [fresh EXCEPT ![k] = {}]
          /\ UNCHANGED <<made, held>>
    BY <1>4 DEF StoreKey
  <2>2. q[1] \in Stream /\ q = <<q[1], q[2]>> /\ q # p
    BY <1>0, VersionFacts
  <2>3. cur'[p[1]] # p[2]
    BY <1>0, <2>1, <2>2 DEF KeysTypeOK
  <2> QED
    BY <1>0, <2>1, <2>3 DEF KeysTypeOK
<1>5. ASSUME NEW s \in Stream, NEW g \in ModeHandler, NEW n, GetForMode(g, s, n) PROVE <1>00!1
  <2>1. held' = [held EXCEPT ![g] = {<< <<s, cur[s]>>, n>>}] /\ UNCHANGED <<cur, made, fresh>>
    BY <1>5 DEF GetForMode
  <2>2. p # <<s, cur[s]>>
    BY <1>0
  <2>3. \A h \in ModeHandler, m \in Mode : <<p, m>> \notin held'[h]
    BY <1>0, <2>1, <2>2 DEF KeysTypeOK
  <2> QED
    BY <1>0, <2>1, <2>3
<1>6. ASSUME NEW g \in ModeHandler, PutWithMode(g) PROVE <1>00!1
  <2>1. PICK w \in held[g] :
          /\ cur' = [cur EXCEPT ![w[1][1]] = w[1][2]]
          /\ held' = [held EXCEPT ![g] = {}]
          /\ UNCHANGED <<made, fresh>>
    BY <1>6 DEF PutWithMode
  <2>2. w[1] \in Pointer /\ w[2] \in Mode /\ w = <<w[1], w[2]>> /\ w[1][1] \in Stream
    BY VersionFacts
  <2>3. w[1] # p
    BY <1>0, <2>2
  <2>4. w[1] = <<w[1][1], w[1][2]>>
    BY <2>2 DEF Pointer
  <2>5. cur'[p[1]] # p[2]
    BY <1>0, <2>1, <2>2, <2>3, <2>4 DEF KeysTypeOK
  <2> QED
    BY <1>0, <2>1, <2>5 DEF KeysTypeOK
<1> QED
  BY <1>1, <1>2, <1>3, <1>4, <1>5, <1>6
     DEF KeyNext, RotatorStep, TickerFires, TriggerKeyRotation, BeginRotation, SkipYoung,
         OutOfVersions, EndStream, Mature, keyVars

\* However many rotations and mode changes overlap, a key that was replaced and
\* that none of them has in hand is never used again.
THEOREM RetiredIsFinal == KeySpec => RetiredStaysRetired
<1>1. KeyInit => VersionsWereMade
  BY DEF KeyInit, VersionsWereMade
<1>2. KeysTypeOK /\ VersionsWereMade /\ [KeyNext]_keyVars => VersionsWereMade'
  BY VersionStep
<1>3. KeysTypeOK /\ VersionsWereMade /\ [KeyNext]_keyVars =>
        [\A p \in Pointer : Retired(p) => Retired(p)']_keyVars
  BY RetiredStep
<1> QED
  BY <1>1, <1>2, <1>3, TypeCorrect, PTL DEF KeySpec, RetiredStaysRetired
=============================================================================
