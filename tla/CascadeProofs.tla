---------------------------- MODULE CascadeProofs ----------------------------
(***************************************************************************)
(* Proofs about the cascade: which agent pulls from which (Mesh), and what *)
(* an agent gives those that pull from it (FlvRelay).                      *)
(*                                                                         *)
(* While agents keep their roles the cascade is layered, for any set of    *)
(* agents and any bound on the offers.  OffersAreSafe is inductive:        *)
(* Layered alone is not, as an offer under way or remembered by an agent   *)
(* may be taken at any later time.                                         *)
(*                                                                         *)
(* For any finite set of viewers and all sizes the relay's count of        *)
(* clients is exact, what a viewer is sent is in order, the tags it misses *)
(* are explained, and the cache replays GOPs as whole as it received them. *)
(* The last and the second need what FlattenSeq returns for every number   *)
(* of GOPs, which is shown by induction (UpTo, FlattenSeqIs).              *)
(***************************************************************************)
EXTENDS Mesh, FlvRelay, FiniteSetTheorems, SequenceTheorems, WellFoundedInduction, TLAPS

-----------------------------------------------------------------------------
(* The mesh.                                                               *)

\* No agent is ever configured with another role than the one it started with.
RolesAreKept == \A n \in Node : \A r, s \in RoleChoices[n] : r = s

\* A response is nothing or one set of offers.
LEMMA AnswerMember ==
    ASSUME NEW A \in Answer, NEW C \in A
    PROVE  C \in SUBSET Node
  BY DEF Answer

LEMMA AnswerOne ==
    ASSUME NEW C \in SUBSET Node
    PROVE  {C} \in Answer
  BY DEF Answer

LEMMA AnswerNone == {} \in Answer
  BY DEF Answer

\* The initial states have no records, offers or paths.
LEMMA SafeInit == MeshInit => OffersAreSafe
  <1> SUFFICES ASSUME MeshInit PROVE OffersAreSafe
    OBVIOUS
  <1>1. MeshTypeOK
    BY AnswerNone DEF MeshInit, MeshTypeOK
  <1> QED
    BY <1>1, MeshAssumption DEF MeshInit, OffersAreSafe

\* Each step of an agent or of the Controller keeps the offers safe.
LEMMA SafeStep ==
    ASSUME RolesAreKept, OffersAreSafe, [MeshNext]_meshVars
    PROVE  OffersAreSafe'
  <1> USE DEF OffersAreSafe, MeshTypeOK
  <1>1. ASSUME NEW n \in Node, RegisterNode(n) PROVE OffersAreSafe'
    BY <1>1 DEF RegisterNode
  <1>2. ASSUME NEW S \in SUBSET Node, RemoveNodes(S) PROVE OffersAreSafe'
    BY <1>2 DEF RemoveNodes
  <1>3. ASSUME NEW n \in Node, Heartbeat(n) PROVE OffersAreSafe'
    <2>1. PICK C \in SUBSET Eligible(n) : flight' = [flight EXCEPT ![n] = {C}]
      BY <1>3 DEF Heartbeat, Candidates
    <2>2. C \in SUBSET Node
      BY <2>1 DEF Eligible
    <2>3. C # {} => role[n] = "edge" /\ \A m \in C : role[m] = "relay"
      BY <1>3, <2>1 DEF Heartbeat, Candidates, Eligible, computeTier, RoleType
    <2>4. UNCHANGED <<role, record, known, held, path>>
      BY <1>3 DEF Heartbeat, Candidates
    <2>5. MeshTypeOK'
      BY <2>1, <2>2, <2>4, AnswerOne
    <2> QED
      BY <2>1, <2>3, <2>4, <2>5
  <1>4. ASSUME NEW n \in Node, LoseResponse(n) PROVE OffersAreSafe'
    BY <1>4, AnswerNone DEF LoseResponse
  <1>5. ASSUME NEW n \in Node, ApplyOffers(n) PROVE OffersAreSafe'
    <2>1. PICK C \in flight[n] : \E p \in IF C = {} THEN {Origin} ELSE C :
            path' = [path EXCEPT ![n] = p]
      BY <1>5 DEF ApplyOffers
    <2>2. PICK p : p \in (IF C = {} THEN {Origin} ELSE C) /\ path' = [path EXCEPT ![n] = p]
      BY <2>1
    <2>3. C \in SUBSET Node
      BY AnswerMember
    <2>4. p \in Node \cup {Origin} /\ (p # Origin => role[n] = "edge" /\ role[p] = "relay")
      BY <2>2, <2>3
    <2> QED
      BY <1>5, <2>2, <2>4 DEF ApplyOffers
  <1>6. ASSUME NEW n \in Node, EmergencySwitch(n) PROVE OffersAreSafe'
    <2>1. PICK C \in held[n] : \E p \in IF C = {} THEN {Origin} ELSE C :
            path' = [path EXCEPT ![n] = p]
      BY <1>6 DEF EmergencySwitch
    <2>2. PICK p : p \in (IF C = {} THEN {Origin} ELSE C) /\ path' = [path EXCEPT ![n] = p]
      BY <2>1
    <2>3. C \in SUBSET Node
      BY AnswerMember
    <2>4. p \in Node \cup {Origin} /\ (p # Origin => role[n] = "edge" /\ role[p] = "relay")
      BY <2>2, <2>3
    <2>5. held' = [held EXCEPT ![n] = {}] /\ UNCHANGED <<role, record, flight, known>>
      BY <1>6 DEF EmergencySwitch
    <2> QED
      BY <2>2, <2>4, <2>5, AnswerNone
  <1>7. ASSUME NEW n \in Node, RestartAgent(n) PROVE OffersAreSafe'
    <2>1. PICK r \in RoleChoices[n] : role' = [role EXCEPT ![n] = r]
      BY <1>7 DEF RestartAgent
    <2>2. r = role[n]
      BY <2>1 DEF RolesAreKept
    <2>3. role' = role
      BY <2>1, <2>2
    <2> QED
      BY <1>7, <2>3, AnswerNone DEF RestartAgent
  <1>8. ASSUME NEW n \in Node, StoreOffers(n) PROVE OffersAreSafe'
    BY <1>8, AnswerNone DEF StoreOffers
  <1>11. ASSUME NEW n \in Node, CopyOffers(n) PROVE OffersAreSafe'
    BY <1>11 DEF CopyOffers
  <1>10. CASE UNCHANGED meshVars
    BY <1>10 DEF meshVars
  <1> HIDE DEF OffersAreSafe, MeshTypeOK
  <1>9. CASE MeshNext
    <2>1. CASE RemoveNodes(Node)
      BY <1>2, <2>1
    <2>2. ASSUME NEW n \in Node, RemoveNodes({n}) PROVE OffersAreSafe'
      <3>1. {n} \in SUBSET Node
        OBVIOUS
      <3> QED
        BY <1>2, <2>2, <3>1
    <2> QED
      BY <1>1, <1>3, <1>4, <1>5, <1>6, <1>7, <1>8, <1>9, <1>11, <2>1, <2>2 DEF MeshNext
  <1> QED
    BY <1>9, <1>10

\* The inductive invariant holds in every state, if roles are kept.
THEOREM OffersStaySafe == ASSUME RolesAreKept PROVE MeshSpec => []OffersAreSafe
  <1>1. MeshInit => OffersAreSafe
    BY SafeInit
  <1>2. OffersAreSafe /\ [MeshNext]_meshVars => OffersAreSafe'
    BY SafeStep
  <1> QED
    BY <1>1, <1>2, PTL DEF MeshSpec

\* An agent others pull from pulls from the origin itself: no loops, and no
\* chain longer than origin, relay, edge, for any number of agents.
THEOREM CascadeIsLayered == ASSUME RolesAreKept PROVE MeshSpec => []Layered
  <1>1. OffersAreSafe => Layered
    BY MeshAssumption DEF OffersAreSafe, Layered, MeshTypeOK
  <1> QED
    BY <1>1, OffersStaySafe, PTL

\* So the rule of mesh.go:182 holds: no agents pull from each other in a circle, of
\* whatever length, for any number of agents that keep their roles.
THEOREM CascadeHasNoLoop == ASSUME RolesAreKept PROVE MeshSpec => []NoLoop
  <1>1. ASSUME OffersAreSafe, Layered PROVE NoLoop
    <2>1. SUFFICES ASSUME NEW S \in SUBSET Node, S # {}, \A n \in S : path[n] \in S
                   PROVE  FALSE
      BY DEF NoLoop
    <2>2. PICK n \in S : path[n] \in S /\ path[path[n]] \in S
      BY <2>1
    <2>3. path[n] # Origin /\ path[path[n]] # Origin
      BY <2>1, <2>2, MeshAssumption
    <2> QED
      BY <1>1, <2>2, <2>3 DEF Layered
  <1> QED
    BY <1>1, OffersStaySafe, CascadeIsLayered, PTL

-----------------------------------------------------------------------------
(* The FLV relay: the operators it is built from.                          *)

LEMMA FlvConstants ==
  /\ MaxTags \in Nat /\ RingSize \in Nat \ {0} /\ MaxClients \in Nat
  /\ GopCount \in Nat /\ MaxFrames \in Nat \ {0}
BY RelayAssumption, CacheAssumption

\* What is appended is added to the elements of a sequence.
LEMMA RangeAppend ==
  ASSUME NEW S, NEW s \in Seq(S), NEW x \in S
  PROVE  Range(Append(s, x)) = Range(s) \cup {x}
<1> DEFINE t == Append(s, x)
<1>1. /\ t \in Seq(S) /\ Len(t) = Len(s) + 1 /\ t[Len(s) + 1] = x
      /\ \A i \in 1..Len(s) : t[i] = s[i]
  BY AppendProperties
<1> HIDE DEF t
<1>2. Len(s) \in Nat /\ DOMAIN s = 1..Len(s) /\ DOMAIN t = 1..(Len(s) + 1)
  BY <1>1, LenProperties
<1>3. /\ \A i \in DOMAIN t : i \in DOMAIN s \/ i = Len(s) + 1
      /\ \A i \in DOMAIN s : i \in DOMAIN t
      /\ Len(s) + 1 \in DOMAIN t
  BY <1>2
<1>4. \A y : y \in Range(t) <=> y \in Range(s) \cup {x}
  BY <1>1, <1>2, <1>3 DEF Range
<1> QED
  BY <1>4 DEF t

\* Induction up to n, for the members of a set: the library's theorems take the
\* formula as an operator, but that < is well-founded on Nat needs no formula.
LEMMA UpTo ==
  ASSUME NEW n \in Nat, NEW G, n > 0 => 1 \in G, \A i \in 1..(n - 1) : i \in G => i + 1 \in G
  PROVE  \A i \in 1..n : i \in G
<1> DEFINE Bad == {i \in 1..n : i \notin G}
<1> SUFFICES ASSUME Bad # {} PROVE FALSE
  OBVIOUS
<1>1. Bad \subseteq Nat
  OBVIOUS
<1> HIDE DEF Bad
<1>2. PICK x \in Bad : \A y \in Bad : ~ (<<y, x>> \in OpToRel(<, Nat))
  BY <1>1, NatLessThanWellFounded, WFMin, Zenon
<1>3. \A y \in Bad : ~ (y < x)
  BY <1>1, <1>2 DEF OpToRel
<1>4. x \in 1..n /\ x \notin G
  BY DEF Bad
<1>5. CASE x = 1
  BY <1>4, <1>5
<1>6. CASE x # 1
  <2>1. x - 1 \in 1..n /\ x - 1 < x /\ x - 1 \in 1..(n - 1) /\ (x - 1) + 1 = x
    BY <1>4, <1>6
  <2>2. x - 1 \notin Bad
    BY <1>3, <2>1
  <2>3. x - 1 \in G
    BY <2>1, <2>2 DEF Bad
  <2> QED
    BY <1>4, <2>1, <2>3
<1> QED
  BY <1>5, <1>6

\* f[i] is the first i sequences of q, one after another.
Flattens(f, q, n) ==
    \A i \in 1..n : f[i] = IF i = 1 THEN q[1] ELSE f[i - 1] \o q[i]

LEMMA FlattenExists ==
  ASSUME NEW S, NEW q \in Seq(Seq(S))
  PROVE  \A n \in 1..Len(q) : \E f \in [1..n -> Seq(S)] : Flattens(f, q, n)
<1> DEFINE G == {n \in 1..Len(q) : \E f \in [1..n -> Seq(S)] : Flattens(f, q, n)}
<1>1. Len(q) \in Nat /\ \A i \in 1..Len(q) : q[i] \in Seq(S)
  BY LenProperties, ElementOfSeq
<1>2. ASSUME Len(q) > 0 PROVE 1 \in G
  <2> DEFINE f == [i \in 1..1 |-> q[1]]
  <2>1. 1 \in 1..Len(q)
    BY <1>1, <1>2
  <2>2. f \in [1..1 -> Seq(S)] /\ f[1] = q[1] /\ \A i \in 1..1 : i = 1
    BY <1>1, <2>1
  <2> HIDE DEF f
  <2>3. Flattens(f, q, 1)
    BY <2>2 DEF Flattens
  <2> QED
    BY <2>1, <2>2, <2>3
<1>3. ASSUME NEW n \in 1..(Len(q) - 1), n \in G PROVE n + 1 \in G
  <2>1. n \in Nat /\ n + 1 \in 1..Len(q) /\ n \in 1..n /\ n + 1 # 1 /\ (n + 1) - 1 = n
    BY <1>1
  <2>2. PICK f \in [1..n -> Seq(S)] : Flattens(f, q, n)
    BY <1>3
  <2>3. f[n] \o q[n + 1] \in Seq(S)
    BY <1>1, <2>1, ConcatProperties
  <2> DEFINE g == [i \in 1..(n + 1) |-> IF i = n + 1 THEN f[n] \o q[n + 1] ELSE f[i]]
  <2>4. \A i \in 1..(n + 1) : i = n + 1 \/ i \in 1..n
    BY <2>1
  <2>5. g \in [1..(n + 1) -> Seq(S)]
    BY <2>3, <2>4
  <2>6. g[n + 1] = f[n] \o q[n + 1] /\ \A i \in 1..n : g[i] = f[i]
    BY <2>1
  <2> HIDE DEF g
  <2>7. Flattens(g, q, n + 1)
    <3> SUFFICES ASSUME NEW i \in 1..(n + 1)
                 PROVE  g[i] = IF i = 1 THEN q[1] ELSE g[i - 1] \o q[i]
      BY DEF Flattens
    <3>1. CASE i = n + 1
      BY <2>1, <2>6, <3>1
    <3>2. CASE i \in 1..n
      <4>1. i # 1 => i - 1 \in 1..n
        BY <2>1, <3>2
      <4> QED
        BY <2>2, <2>6, <3>2, <4>1 DEF Flattens
    <3> QED
      BY <2>4, <3>1, <3>2
  <2> QED
    BY <2>1, <2>5, <2>7
<1> HIDE DEF G
<1>4. \A n \in 1..Len(q) : n \in G
  BY <1>1, <1>2, <1>3, UpTo
<1> QED
  BY <1>4 DEF G

LEMMA FlattenIs ==
  ASSUME NEW S, NEW q \in Seq(Seq(S)), q # << >>
  PROVE  \E f \in [1..Len(q) -> Seq(S)] : Flattens(f, q, Len(q)) /\ FlattenSeq(q) = f[Len(q)]
<1> DEFINE F(f) == f = [i \in 1..Len(q) |-> IF i = 1 THEN q[i] ELSE f[i - 1] \o q[i]]
           c == CHOOSE f : F(f)
<1>1. Len(q) \in Nat /\ Len(q) > 0 /\ Len(q) \in 1..Len(q) /\ 1 \in 1..Len(q)
  <2>1. Len(q) \in Nat /\ Len(q) # 0
    BY LenProperties, EmptySeq
  <2> QED
    BY <2>1
<1>2. PICK f \in [1..Len(q) -> Seq(S)] : Flattens(f, q, Len(q))
  BY <1>1, FlattenExists
<1>3. F(f)
  BY <1>2 DEF Flattens
<1>4. F(c)
  <2> HIDE DEF F
  <2> QED
    BY <1>3
<1>5. FlattenSeq(q) = c[Len(q)]
  BY <1>1 DEF FlattenSeq
<1> HIDE DEF c
<1> DEFINE G == {i \in 1..Len(q) : c[i] = f[i]}
<1>6. \A i \in 1..Len(q) : c[i] = IF i = 1 THEN q[1] ELSE c[i - 1] \o q[i]
  BY <1>4
<1> HIDE DEF F
<1>7. 1 \in G
  BY <1>1, <1>2, <1>6 DEF Flattens
<1>8. ASSUME NEW i \in 1..(Len(q) - 1), i \in G PROVE i + 1 \in G
  <2>1. i + 1 \in 1..Len(q) /\ i + 1 # 1 /\ (i + 1) - 1 = i
    BY <1>1
  <2>2. c[i + 1] = c[i] \o q[i + 1] /\ f[i + 1] = f[i] \o q[i + 1]
    BY <1>2, <1>6, <2>1 DEF Flattens
  <2> QED
    BY <1>8, <2>1, <2>2
<1> HIDE DEF G
<1>9. \A i \in 1..Len(q) : i \in G
  BY <1>1, <1>7, <1>8, UpTo
<1>10. c[Len(q)] = f[Len(q)]
  BY <1>1, <1>9 DEF G
<1> QED
  BY <1>2, <1>5, <1>10

\* The pictures and sounds in s come before those in t.
Before(f, s, t) ==
    \A a \in Range(s) : \A b \in Range(t) : f[a] \in MediaKind /\ f[b] \in MediaKind => a < b

\* Concatenation joins the elements, and keeps an order that both sequences and
\* the two together have.
LEMMA ConcatIs ==
  ASSUME NEW S, NEW s \in Seq(S), NEW t \in Seq(S)
  PROVE  /\ s \o t \in Seq(S)
         /\ Range(s \o t) = Range(s) \cup Range(t)
         /\ \A f : MediaInOrder(f, s) /\ MediaInOrder(f, t) /\ Before(f, s, t) => MediaInOrder(f, s \o t)
<1> DEFINE u == s \o t
<1>1. /\ u \in Seq(S) /\ Len(u) = Len(s) + Len(t)
      /\ \A i \in 1..(Len(s) + Len(t)) : u[i] = IF i <= Len(s) THEN s[i] ELSE t[i - Len(s)]
  BY ConcatProperties
<1> HIDE DEF u
<1>2. /\ Len(s) \in Nat /\ Len(t) \in Nat
      /\ DOMAIN s = 1..Len(s) /\ DOMAIN t = 1..Len(t) /\ DOMAIN u = 1..(Len(s) + Len(t))
  BY <1>1, LenProperties
\* A place of the whole is one of the first part or one of the second.
<1>3. \A i \in DOMAIN u : \/ i \in DOMAIN s /\ u[i] = s[i]
                          \/ i > Len(s) /\ i - Len(s) \in DOMAIN t /\ u[i] = t[i - Len(s)]
  BY <1>1, <1>2
<1>4. /\ \A i \in DOMAIN s : i \in DOMAIN u /\ u[i] = s[i]
      /\ \A i \in DOMAIN t : i + Len(s) \in DOMAIN u /\ u[i + Len(s)] = t[i]
  <2>1. \A i \in DOMAIN s : i \in DOMAIN u /\ u[i] = s[i]
    BY <1>1, <1>2
  <2>2. ASSUME NEW i \in DOMAIN t PROVE i + Len(s) \in DOMAIN u /\ u[i + Len(s)] = t[i]
    <3>1. i + Len(s) \in 1..(Len(s) + Len(t)) /\ ~(i + Len(s) <= Len(s)) /\ (i + Len(s)) - Len(s) = i
      BY <1>2
    <3> QED
      BY <1>1, <1>2, <3>1
  <2> QED
    BY <2>1, <2>2
<1>5. Range(u) = Range(s) \cup Range(t)
  <2>1. \A x : x \in Range(u) => x \in Range(s) \cup Range(t)
    BY <1>3 DEF Range
  <2>2. \A x : x \in Range(s) \cup Range(t) => x \in Range(u)
    BY <1>4 DEF Range
  <2> QED
    BY <2>1, <2>2
<1>6. ASSUME NEW f, MediaInOrder(f, s), MediaInOrder(f, t), Before(f, s, t) PROVE MediaInOrder(f, u)
  <2> SUFFICES ASSUME NEW i \in DOMAIN u, NEW j \in DOMAIN u, i < j, f[u[i]] \in MediaKind, f[u[j]] \in MediaKind
               PROVE  u[i] < u[j]
    BY DEF MediaInOrder
  <2>1. CASE i \in DOMAIN s /\ u[i] = s[i] /\ j \in DOMAIN s /\ u[j] = s[j]
    BY <1>6, <2>1 DEF MediaInOrder
  <2>2. CASE i \in DOMAIN s /\ u[i] = s[i] /\ j > Len(s) /\ j - Len(s) \in DOMAIN t /\ u[j] = t[j - Len(s)]
    <3>1. u[i] \in Range(s) /\ u[j] \in Range(t)
      BY <2>2 DEF Range
    <3> QED
      BY <1>6, <3>1 DEF Before
  <2>3. CASE /\ i > Len(s) /\ i - Len(s) \in DOMAIN t /\ u[i] = t[i - Len(s)]
             /\ j > Len(s) /\ j - Len(s) \in DOMAIN t /\ u[j] = t[j - Len(s)]
    <3>1. i - Len(s) < j - Len(s)
      BY <1>2, <2>3
    <3> QED
      BY <1>6, <2>3, <3>1 DEF MediaInOrder
  <2>4. ~(i > Len(s) /\ j \in DOMAIN s)
    BY <1>2
  <2> QED
    BY <1>3, <2>1, <2>2, <2>3, <2>4
<1> QED
  BY <1>1, <1>5, <1>6 DEF u

\* So do the sequences of a sequence, one after another.
LEMMA FlattenSeqIs ==
  ASSUME NEW S, NEW q \in Seq(Seq(S))
  PROVE  /\ FlattenSeq(q) \in Seq(S)
         /\ Range(FlattenSeq(q)) = UNION {Range(q[i]) : i \in DOMAIN q}
         /\ \A f : /\ \A i \in DOMAIN q : MediaInOrder(f, q[i])
                   /\ \A i, j \in DOMAIN q : i < j => Before(f, q[i], q[j])
                   => MediaInOrder(f, FlattenSeq(q))
<1>1. CASE q = << >>
  <2>1. FlattenSeq(q) = << >> /\ DOMAIN q = {}
    BY <1>1 DEF FlattenSeq
  <2>2. << >> \in Seq(S) /\ DOMAIN << >> = {}
    BY EmptySeq
  <2>3. Range(FlattenSeq(q)) = {}
    BY <2>1, <2>2 DEF Range
  <2>4. \A f : MediaInOrder(f, FlattenSeq(q))
    BY <2>1, <2>2 DEF MediaInOrder
  <2> QED
    BY <2>1, <2>2, <2>3, <2>4
<1>2. CASE q # << >>
  <2>1. PICK c \in [1..Len(q) -> Seq(S)] : Flattens(c, q, Len(q)) /\ FlattenSeq(q) = c[Len(q)]
    BY <1>2, FlattenIs
  <2>2. /\ Len(q) \in Nat /\ Len(q) > 0 /\ Len(q) \in 1..Len(q) /\ 1 \in 1..Len(q) /\ DOMAIN q = 1..Len(q)
        /\ \A i \in 1..Len(q) : q[i] \in Seq(S)
    <3>1. Len(q) \in Nat /\ Len(q) # 0 /\ DOMAIN q = 1..Len(q)
      BY <1>2, LenProperties, EmptySeq
    <3>2. \A i \in 1..Len(q) : q[i] \in Seq(S)
      BY ElementOfSeq
    <3> QED
      BY <3>1, <3>2
  <2>3. /\ c[1] = q[1]
        /\ \A i \in 1..(Len(q) - 1) : i \in 1..Len(q) /\ i + 1 \in 1..Len(q) /\ c[i + 1] = c[i] \o q[i + 1]
    <3>1. ASSUME NEW i \in 1..(Len(q) - 1)
          PROVE  i \in 1..Len(q) /\ i + 1 \in 1..Len(q) /\ i + 1 # 1 /\ (i + 1) - 1 = i
      BY <2>2
    <3> QED
      BY <2>1, <2>2, <3>1 DEF Flattens
  \* The elements of the first i sequences.
  <2> DEFINE G == {i \in 1..Len(q) : \A x : x \in Range(c[i]) <=> \E k \in 1..i : x \in Range(q[k])}
  <2>4. 1 \in G
    <3>1. \A k \in 1..1 : k = 1
      OBVIOUS
    <3>2. 1 \in 1..1
      OBVIOUS
    <3> QED
      BY <2>2, <2>3, <3>1, <3>2
  <2>5. ASSUME NEW i \in 1..(Len(q) - 1), i \in G PROVE i + 1 \in G
    <3>1. i \in 1..Len(q) /\ i + 1 \in 1..Len(q) /\ Range(c[i + 1]) = Range(c[i]) \cup Range(q[i + 1])
      <4>1. /\ i \in 1..Len(q) /\ i + 1 \in 1..Len(q) /\ c[i + 1] = c[i] \o q[i + 1]
            /\ c[i] \in Seq(S) /\ q[i + 1] \in Seq(S)
        BY <2>2, <2>3
      <4> QED
        BY <4>1, ConcatIs
    <3>2. \A k : k \in 1..(i + 1) <=> k \in 1..i \/ k = i + 1
      BY <3>1
    <3>3. \A x : x \in Range(c[i]) <=> \E k \in 1..i : x \in Range(q[k])
      BY <2>5
    <3>4. \A x : x \in Range(c[i + 1]) <=> \E k \in 1..(i + 1) : x \in Range(q[k])
      BY <3>1, <3>2, <3>3, Zenon
    <3> QED
      BY <3>1, <3>4
  <2> HIDE DEF G
  <2>6. \A i \in 1..Len(q) : i \in G
    BY <2>2, <2>4, <2>5, UpTo
  <2>7. \A i \in 1..Len(q) : \A x : x \in Range(c[i]) <=> \E k \in 1..i : x \in Range(q[k])
    BY <2>6 DEF G
  <2>8. Range(FlattenSeq(q)) = UNION {Range(q[i]) : i \in DOMAIN q}
    <3>1. \A x : x \in Range(c[Len(q)]) <=> \E k \in DOMAIN q : x \in Range(q[k])
      BY <2>2, <2>7
    <3> QED
      BY <2>1, <3>1
  \* Their order.
  <2>9. ASSUME NEW f, \A i \in DOMAIN q : MediaInOrder(f, q[i]),
               \A i, j \in DOMAIN q : i < j => Before(f, q[i], q[j])
        PROVE  MediaInOrder(f, FlattenSeq(q))
    <3> DEFINE H == {i \in 1..Len(q) : MediaInOrder(f, c[i])}
    <3>1. 1 \in H
      BY <2>2, <2>3, <2>9
    <3>2. ASSUME NEW i \in 1..(Len(q) - 1), i \in H PROVE i + 1 \in H
      <4>1. i \in 1..Len(q) /\ i + 1 \in 1..Len(q) /\ c[i + 1] = c[i] \o q[i + 1] /\ c[i] \in Seq(S)
            /\ q[i + 1] \in Seq(S)
        BY <2>2, <2>3
      <4>2. Before(f, c[i], q[i + 1])
        <5> SUFFICES ASSUME NEW a \in Range(c[i]), NEW b \in Range(q[i + 1]), f[a] \in MediaKind, f[b] \in MediaKind
                     PROVE  a < b
          BY DEF Before
        <5>1. PICK k \in 1..i : a \in Range(q[k])
          BY <2>7, <4>1
        <5>2. k \in DOMAIN q /\ i + 1 \in DOMAIN q /\ k < i + 1
          BY <2>2, <4>1
        <5> QED
          BY <2>9, <5>1, <5>2 DEF Before
      <4>3. MediaInOrder(f, c[i]) /\ MediaInOrder(f, q[i + 1])
        BY <2>2, <2>9, <3>2, <4>1
      <4>4. MediaInOrder(f, c[i] \o q[i + 1])
        BY <4>1, <4>2, <4>3, ConcatIs
      <4> QED
        BY <4>1, <4>4
    <3> HIDE DEF H
    <3>3. \A i \in 1..Len(q) : i \in H
      BY <2>2, <3>1, <3>2, UpTo
    <3> QED
      BY <2>1, <2>2, <3>3 DEF H
  <2> QED
    BY <2>1, <2>2, <2>8, <2>9
<1> QED
  BY <1>1, <1>2

\* What get_startup_tags returns of a cache of the first n tags.
Headers(c) == {c.head[k] : k \in HeaderKind} \ {0}
CachedTags(c) == Range(c.cur) \cup UNION {Range(c.ring[i]) : i \in DOMAIN c.ring}

\* f: the kinds of all tags.
IsOrdered(f, c) ==
    /\ \A i \in Headers(c) : f[i] \in HeaderKind
    /\ \A i \in DOMAIN c.ring : MediaInOrder(f, c.ring[i]) /\ Before(f, c.ring[i], c.cur)
    /\ \A i, j \in DOMAIN c.ring : i < j => Before(f, c.ring[i], c.ring[j])
    /\ MediaInOrder(f, c.cur)

LEMMA SeenIs ==
  ASSUME NEW n \in Nat, NEW i \in 0..n
  PROVE  /\ Seen(i) \in Seq(1..n)
         /\ Range(Seen(i)) = {i} \ {0}
<1>1. CASE i = 0
  <2>1. Seen(i) = << >> /\ << >> \in Seq(1..n) /\ DOMAIN << >> = {}
    BY <1>1 DEF Seen
  <2> QED
    BY <1>1, <2>1 DEF Range
<1>2. CASE i # 0
  <2>1. Seen(i) = <<i>> /\ i \in 1..n
    BY <1>2 DEF Seen
  <2>2. <<i>> \in Seq(1..n) /\ DOMAIN <<i>> = 1..1 /\ 1..1 = {1} /\ <<i>>[1] = i
    BY <2>1
  <2> QED
    BY <1>2, <2>1, <2>2 DEF Range
<1> QED
  BY <1>1, <1>2

LEMMA StartupTagsAre ==
  ASSUME NEW n \in Nat, NEW c \in Cache(n)
  PROVE  /\ GetStartupTags(c) \in Seq(1..n)
         /\ Range(GetStartupTags(c)) = Headers(c) \cup CachedTags(c)
         /\ \A f : IsOrdered(f, c) => MediaInOrder(f, GetStartupTags(c))
<1> DEFINE h1 == Seen(c.head["script"])
           h2 == Seen(c.head["audioHeader"])
           h3 == Seen(c.head["videoHeader"])
           h12 == h1 \o h2
           h == h12 \o h3
           g == FlattenSeq(c.ring)
<1>1. /\ c.ring \in Seq(Seq(1..n)) /\ c.cur \in Seq(1..n)
      /\ c.head["script"] \in 0..n /\ c.head["audioHeader"] \in 0..n /\ c.head["videoHeader"] \in 0..n
  BY DEF Cache, HeaderKind
<1>2. /\ h1 \in Seq(1..n) /\ h2 \in Seq(1..n) /\ h3 \in Seq(1..n)
      /\ Range(h1) = {c.head["script"]} \ {0} /\ Range(h2) = {c.head["audioHeader"]} \ {0}
      /\ Range(h3) = {c.head["videoHeader"]} \ {0}
  BY <1>1, SeenIs
<1> DEFINE m == h \o g
<1>3. GetStartupTags(c) = m \o c.cur
  BY DEF GetStartupTags
<1>4. /\ g \in Seq(1..n) /\ Range(g) = UNION {Range(c.ring[i]) : i \in DOMAIN c.ring}
      /\ \A f : /\ \A i \in DOMAIN c.ring : MediaInOrder(f, c.ring[i])
                /\ \A i, j \in DOMAIN c.ring : i < j => Before(f, c.ring[i], c.ring[j])
                => MediaInOrder(f, g)
  BY <1>1, FlattenSeqIs
<1> HIDE DEF h1, h2, h3, g
<1>5. h \in Seq(1..n) /\ Range(h) = Headers(c)
  <2>1. h12 \in Seq(1..n) /\ Range(h12) = Range(h1) \cup Range(h2)
    BY <1>2, ConcatIs
  <2> HIDE DEF h12
  <2>2. h \in Seq(1..n) /\ Range(h) = Range(h1) \cup Range(h2) \cup Range(h3)
    BY <1>2, <2>1, ConcatIs
  <2>3. Headers(c) = {c.head["script"], c.head["audioHeader"], c.head["videoHeader"]} \ {0}
    BY DEF Headers, HeaderKind
  <2> QED
    BY <1>2, <2>2, <2>3
<1> HIDE DEF h
<1>6. /\ m \in Seq(1..n) /\ Range(m) = Headers(c) \cup Range(g)
      /\ \A f : MediaInOrder(f, h) /\ MediaInOrder(f, g) /\ Before(f, h, g) => MediaInOrder(f, m)
  BY <1>4, <1>5, ConcatIs
<1> HIDE DEF m
<1>7. /\ m \o c.cur \in Seq(1..n) /\ Range(m \o c.cur) = Range(m) \cup Range(c.cur)
      /\ \A f : MediaInOrder(f, m) /\ MediaInOrder(f, c.cur) /\ Before(f, m, c.cur)
                => MediaInOrder(f, m \o c.cur)
  BY <1>1, <1>6, ConcatIs
<1>8. ASSUME NEW f, IsOrdered(f, c) PROVE MediaInOrder(f, m \o c.cur)
  <2>1. \A i \in Range(h) : f[i] \notin MediaKind
    BY <1>5, <1>8 DEF IsOrdered, HeaderKind, MediaKind
  <2>2. MediaInOrder(f, h)
    BY <2>1 DEF MediaInOrder, Range
  <2>3. Before(f, h, g)
    BY <2>1 DEF Before
  <2>4. MediaInOrder(f, g)
    BY <1>4, <1>8 DEF IsOrdered
  <2>5. Before(f, m, c.cur)
    <3>1. ASSUME NEW a \in Range(g), NEW b \in Range(c.cur), f[a] \in MediaKind, f[b] \in MediaKind PROVE a < b
      <4>1. PICK i \in DOMAIN c.ring : a \in Range(c.ring[i])
        BY <1>4
      <4> QED
        BY <1>8, <3>1, <4>1 DEF IsOrdered, Before
    <3> QED
      BY <1>5, <1>6, <2>1, <3>1 DEF Before
  <2>6. MediaInOrder(f, c.cur)
    BY <1>8 DEF IsOrdered
  <2> QED
    BY <1>6, <1>7, <2>2, <2>3, <2>4, <2>5, <2>6
<1> QED
  BY <1>3, <1>5, <1>4, <1>6, <1>7, <1>8 DEF CachedTags

\* finalize_current_gop keeps GOPs of the ring and the current one, within the
\* limit.
LEMMA FinalizeIs ==
  ASSUME NEW n \in Nat, NEW c \in Cache(n)
  PROVE  /\ FinalizeCurrentGop(c) \in Seq(Seq(1..n))
         /\ Len(FinalizeCurrentGop(c)) <= GopCount
         /\ \A i \in DOMAIN FinalizeCurrentGop(c) :
               \/ FinalizeCurrentGop(c)[i] = c.cur
               \/ \E j \in DOMAIN c.ring : FinalizeCurrentGop(c)[i] = c.ring[j]
<1> USE FlvConstants
<1> DEFINE full == Append(c.ring, c.cur)
           more == Len(full) - GopCount
           f == FinalizeCurrentGop(c)
<1>1. c.ring \in Seq(Seq(1..n)) /\ c.cur \in Seq(1..n) /\ Len(c.ring) <= GopCount
  BY DEF Cache
<1>2. Len(c.ring) \in Nat /\ DOMAIN c.ring = 1..Len(c.ring)
  BY <1>1, LenProperties
<1>3. /\ full \in Seq(Seq(1..n)) /\ Len(full) = Len(c.ring) + 1 /\ full[Len(c.ring) + 1] = c.cur
      /\ \A i \in 1..Len(c.ring) : full[i] = c.ring[i]
  BY <1>1, AppendProperties
<1>4. \A i \in 1..Len(full) : full[i] \in Seq(1..n) /\ (full[i] = c.cur \/ \E j \in DOMAIN c.ring : full[i] = c.ring[j])
  <2>1. \A i \in 1..Len(full) : i \in 1..Len(c.ring) \/ i = Len(c.ring) + 1
    BY <1>2, <1>3
  <2>2. \A i \in 1..Len(full) : full[i] \in Seq(1..n)
    BY <1>3, ElementOfSeq
  <2> QED
    BY <1>2, <1>3, <2>1, <2>2
<1>5. CASE c.cur = << >>
  <2>1. f = c.ring
    BY <1>5 DEF FinalizeCurrentGop
  <2> QED
    BY <1>1, <2>1
<1>6. CASE c.cur # << >> /\ more > 0
  <2>1. f = SubSeq(full, more + 1, Len(full))
    BY <1>6 DEF FinalizeCurrentGop
  <2>2. more + 1 \in Int /\ Len(full) \in Int /\ more + 1 = 2 /\ Len(full) = GopCount + 1
    BY <1>1, <1>2, <1>3, <1>6
  <2> HIDE DEF more, full, f
  <2>3. f = SubSeq(full, 2, GopCount + 1)
    BY <2>1, <2>2
  <2>4. \A i \in 2..(GopCount + 1) : full[i] \in Seq(1..n)
    BY <1>4, <2>2
  <2>5. /\ f \in Seq(Seq(1..n))
        /\ Len(f) = IF 2 <= GopCount + 1 THEN (GopCount + 1) - 2 + 1 ELSE 0
        /\ \A i \in 1..((GopCount + 1) - 2 + 1) : f[i] = full[2 + i - 1]
    BY <2>3, <2>4, SubSeqProperties
  <2>6. Len(f) = GopCount
    BY <2>5
  <2>7. DOMAIN f = 1..GopCount
    BY <2>5, <2>6, LenProperties
  <2>8. \A i \in 1..GopCount : i + 1 \in 1..Len(full) /\ f[i] = full[i + 1]
    BY <2>2, <2>5
  <2>9. Len(f) <= GopCount
    BY <2>6
  <2> QED
    BY <1>4, <2>5, <2>7, <2>8, <2>9 DEF f
<1>7. CASE c.cur # << >> /\ ~(more > 0)
  <2>1. f = full
    BY <1>7 DEF FinalizeCurrentGop
  <2>2. Len(full) <= GopCount /\ DOMAIN full = 1..Len(full)
    BY <1>2, <1>3, <1>7, LenProperties
  <2> HIDE DEF full
  <2> QED
    BY <1>3, <1>4, <2>1, <2>2
<1> QED
  BY <1>5, <1>6, <1>7

\* The ring after it is the end of the ring with the current GOP.
LEMMA FinalizeShifts ==
  ASSUME NEW n \in Nat, NEW c \in Cache(n)
  PROVE  \E d \in Nat : \A i \in DOMAIN FinalizeCurrentGop(c) :
            /\ i + d \in 1..(Len(c.ring) + 1)
            /\ FinalizeCurrentGop(c)[i] = Append(c.ring, c.cur)[i + d]
<1> USE FlvConstants
<1> DEFINE full == Append(c.ring, c.cur)
           f == FinalizeCurrentGop(c)
<1>1. c.ring \in Seq(Seq(1..n)) /\ c.cur \in Seq(1..n) /\ Len(c.ring) <= GopCount
  BY DEF Cache
<1>2. Len(c.ring) \in Nat /\ DOMAIN c.ring = 1..Len(c.ring)
  BY <1>1, LenProperties
<1>3. /\ full \in Seq(Seq(1..n)) /\ Len(full) = Len(c.ring) + 1 /\ full[Len(c.ring) + 1] = c.cur
      /\ \A i \in 1..Len(c.ring) : full[i] = c.ring[i]
  BY <1>1, AppendProperties
<1> DEFINE more == Len(full) - GopCount
<1>4. f = IF c.cur = << >> THEN c.ring ELSE IF more > 0 THEN SubSeq(full, more + 1, Len(full)) ELSE full
  BY DEF FinalizeCurrentGop
<1> HIDE DEF f, full
<1>5. DOMAIN full = 1..(Len(c.ring) + 1)
  BY <1>3, LenProperties
<1>6. CASE f = c.ring
  <2>1. \A i \in DOMAIN f : i + 0 \in 1..(Len(c.ring) + 1) /\ f[i] = full[i + 0]
    <3>1. \A i \in 1..Len(c.ring) : i + 0 = i /\ i \in 1..(Len(c.ring) + 1)
      BY <1>2
    <3>2. DOMAIN f = 1..Len(c.ring) /\ \A i \in 1..Len(c.ring) : f[i] = full[i]
      BY <1>2, <1>3, <1>6, Zenon
    <3> QED
      BY <3>1, <3>2, Zenon
  <2> QED
    BY <2>1 DEF f, full
<1>7. CASE f = full
  <2>1. \A i \in DOMAIN f : i + 0 \in 1..(Len(c.ring) + 1) /\ f[i] = full[i + 0]
    BY <1>2, <1>5, <1>7
  <2> QED
    BY <2>1 DEF f, full
<1>8. CASE f = SubSeq(full, more + 1, Len(full)) /\ more > 0
  <2>1. more = 1 /\ Len(full) = GopCount + 1
    BY <1>1, <1>2, <1>3, <1>8
  <2>2. f = SubSeq(full, 2, GopCount + 1)
    BY <1>8, <2>1
  <2>3. \A i \in 2..(GopCount + 1) : full[i] \in Seq(1..n)
    <3>1. \A i \in 2..(GopCount + 1) : i \in 1..Len(full)
      BY <2>1
    <3> QED
      BY <1>3, <3>1, ElementOfSeq
  <2>4. /\ f \in Seq(Seq(1..n))
        /\ Len(f) = IF 2 <= GopCount + 1 THEN (GopCount + 1) - 2 + 1 ELSE 0
        /\ \A i \in 1..((GopCount + 1) - 2 + 1) : f[i] = full[2 + i - 1]
    BY <2>2, <2>3, SubSeqProperties
  <2>5. DOMAIN f = 1..GopCount
    <3>1. Len(f) = GopCount
      BY <2>4
    <3> QED
      BY <2>4, <3>1, LenProperties
  <2>6. \A i \in DOMAIN f : i + 1 \in 1..(Len(c.ring) + 1) /\ f[i] = full[i + 1]
    BY <1>3, <2>1, <2>4, <2>5
  <2> QED
    BY <2>6 DEF f, full
<1> QED
  BY <1>4, <1>6, <1>7, <1>8

\* The cache of the next tag.
LEMMA AddTagIs ==
  ASSUME NEW n \in Nat, NEW c \in Cache(n), NEW kind \in HeaderKind \cup MediaKind
  PROVE  /\ AddTag(c, n + 1, kind) \in Cache(n + 1)
         /\ kind \in HeaderKind => /\ AddTag(c, n + 1, kind).ring = c.ring
                                   /\ AddTag(c, n + 1, kind).cur = c.cur
         /\ kind = "key" => /\ AddTag(c, n + 1, kind).ring = FinalizeCurrentGop(c)
                            /\ AddTag(c, n + 1, kind).cur = <<n + 1>>
         /\ kind \in {"inter", "audio"} => /\ AddTag(c, n + 1, kind).ring = c.ring
                                           /\ AddTag(c, n + 1, kind).cur = AddToCurrentGop(c, n + 1)
<1> USE FlvConstants
<1> DEFINE d == AddTag(c, n + 1, kind)
<1>1. /\ c = [ring |-> c.ring, cur |-> c.cur, head |-> c.head]
      /\ c.ring \in Seq(Seq(1..n)) /\ c.cur \in Seq(1..n) /\ c.head \in [HeaderKind -> 0..n]
      /\ Len(c.ring) <= GopCount /\ Len(c.cur) <= MaxFrames
      /\ \A i \in DOMAIN c.ring : Len(c.ring[i]) <= MaxFrames
  BY DEF Cache
<1>2. 1..n \subseteq 1..(n + 1) /\ n + 1 \in 1..(n + 1)
  OBVIOUS
<1>3. Seq(1..n) \subseteq Seq(1..(n + 1))
  BY <1>2, SeqMonotonic
<1>4. Seq(Seq(1..n)) \subseteq Seq(Seq(1..(n + 1)))
  BY <1>3, SeqMonotonic
\* It is enough to look at the parts.
<1>5. ASSUME NEW r, NEW u, NEW h, d = [ring |-> r, cur |-> u, head |-> h],
             r \in Seq(Seq(1..(n + 1))), u \in Seq(1..(n + 1)), h \in [HeaderKind -> 0..(n + 1)],
             Len(r) <= GopCount, Len(u) <= MaxFrames, \A i \in DOMAIN r : Len(r[i]) <= MaxFrames
      PROVE  d \in Cache(n + 1) /\ d.ring = r /\ d.cur = u
  <2> HIDE DEF d
  <2> QED
    BY <1>5 DEF Cache
<1>6. c.head \in [HeaderKind -> 0..(n + 1)]
  <2>1. \A x \in 0..n : x \in 0..(n + 1)
    OBVIOUS
  <2> QED
    BY <1>1, <2>1
<1>7. CASE kind \in HeaderKind
  <2>1. d = [c EXCEPT !.head[kind] = n + 1]
    <3>1. kind # "key"
      BY <1>7 DEF HeaderKind
    <3> QED
      BY <1>7, <3>1 DEF AddTag
  <2> DEFINE h == [c.head EXCEPT ![kind] = n + 1]
  <2>2. d = [ring |-> c.ring, cur |-> c.cur, head |-> h]
    BY <1>1, <2>1
  <2>3. h \in [HeaderKind -> 0..(n + 1)]
    <3>1. n + 1 \in 0..(n + 1)
      OBVIOUS
    <3> QED
      BY <1>6, <3>1
  <2>4. kind \notin {"key", "inter", "audio"}
    BY <1>7 DEF HeaderKind
  <2> HIDE DEF h, d
  <2>5. d \in Cache(n + 1) /\ d.ring = c.ring /\ d.cur = c.cur
    BY <1>1, <1>3, <1>4, <1>5, <2>2, <2>3
  <2> QED
    BY <2>4, <2>5 DEF d
<1>8. CASE kind = "key"
  <2>1. d = [c EXCEPT !.ring = FinalizeCurrentGop(c), !.cur = <<n + 1>>]
    BY <1>8 DEF AddTag, HeaderKind
  <2>2. d = [ring |-> FinalizeCurrentGop(c), cur |-> <<n + 1>>, head |-> c.head]
    BY <1>1, <2>1
  <2>3. <<n + 1>> \in Seq(1..(n + 1)) /\ Len(<<n + 1>>) <= MaxFrames
    BY <1>2
  <2>4. /\ FinalizeCurrentGop(c) \in Seq(Seq(1..(n + 1))) /\ Len(FinalizeCurrentGop(c)) <= GopCount
        /\ \A i \in DOMAIN FinalizeCurrentGop(c) : Len(FinalizeCurrentGop(c)[i]) <= MaxFrames
    BY <1>1, <1>4, FinalizeIs
  <2> HIDE DEF d
  <2>5. d \in Cache(n + 1) /\ d.ring = FinalizeCurrentGop(c) /\ d.cur = <<n + 1>>
    BY <1>5, <1>6, <2>2, <2>3, <2>4
  <2> QED
    BY <1>8, <2>5 DEF d, HeaderKind
<1>9. CASE kind \in {"inter", "audio"}
  <2>1. d = [c EXCEPT !.cur = AddToCurrentGop(c, n + 1)]
    BY <1>9 DEF AddTag, HeaderKind
  <2>2. d = [ring |-> c.ring, cur |-> AddToCurrentGop(c, n + 1), head |-> c.head]
    BY <1>1, <2>1
  <2>3. AddToCurrentGop(c, n + 1) \in Seq(1..(n + 1)) /\ Len(AddToCurrentGop(c, n + 1)) <= MaxFrames
    <3>1. CASE c.cur # << >> /\ Len(c.cur) < MaxFrames
      <4>1. AddToCurrentGop(c, n + 1) = Append(c.cur, n + 1)
        BY <3>1 DEF AddToCurrentGop
      <4>2. c.cur \in Seq(1..(n + 1)) /\ Len(c.cur) \in Nat
        BY <1>1, <1>3, LenProperties
      <4>3. Append(c.cur, n + 1) \in Seq(1..(n + 1)) /\ Len(Append(c.cur, n + 1)) = Len(c.cur) + 1
        BY <1>2, <4>2, AppendProperties
      <4>4. Len(c.cur) + 1 <= MaxFrames
        BY <3>1, <4>2
      <4> QED
        BY <4>1, <4>3, <4>4
    <3>2. CASE ~(c.cur # << >> /\ Len(c.cur) < MaxFrames)
      BY <1>1, <1>3, <3>2 DEF AddToCurrentGop
    <3> QED
      BY <3>1, <3>2
  <2> HIDE DEF d
  <2>4. d \in Cache(n + 1) /\ d.ring = c.ring /\ d.cur = AddToCurrentGop(c, n + 1)
    BY <1>1, <1>4, <1>5, <1>6, <2>2, <2>3
  <2> QED
    BY <1>9, <2>4 DEF d, HeaderKind
<1> QED
  BY <1>7, <1>8, <1>9 DEF MediaKind

\* A header is kept in place of the last of its kind.
LEMMA AddTagHead ==
  ASSUME NEW n \in Nat, NEW c \in Cache(n), NEW kind \in HeaderKind \cup MediaKind
  PROVE  \/ kind \in HeaderKind /\ AddTag(c, n + 1, kind).head = [c.head EXCEPT ![kind] = n + 1]
         \/ AddTag(c, n + 1, kind).head = c.head
<1>1. c = [ring |-> c.ring, cur |-> c.cur, head |-> c.head]
  BY DEF Cache
<1>2. CASE kind \in HeaderKind
  <2>1. kind # "key"
    BY <1>2 DEF HeaderKind
  <2> QED
    BY <1>1, <1>2, <2>1 DEF AddTag
<1>3. CASE kind \notin HeaderKind
  BY <1>1, <1>3 DEF AddTag
<1> QED
  BY <1>2, <1>3

-----------------------------------------------------------------------------
(* The FLV relay: the types.                                               *)

PullTypes ==
    /\ puller \in {"absent", "pulling", "waiting", "ended"}
    /\ backup \in BOOLEAN
    /\ tags \in Seq(Kind) /\ Len(tags) <= MaxTags
    /\ fed \in Nat /\ fed \in {Len(tags), Len(tags) - 1}
    /\ cache \in Cache(fed)

ViewerTypes ==
    /\ at \in [Viewer -> Place]
    /\ closed \subseteq Viewer
    /\ count \in 0..MaxClients
    /\ next \in [Viewer -> 1..(Len(tags) + 1)]
    /\ lag \in [Viewer -> 0..Len(tags)]
    /\ startup \in [Viewer -> Seq(1..Len(tags))]
    /\ sent \in [Viewer -> Seq(1..Len(tags))]
    /\ joined \in [Viewer -> 1..(Len(tags) + 1)]
    /\ gaps \in [Viewer -> SUBSET [first : 1..Len(tags), last : 1..Len(tags)]]

LEMMA FlvTypeParts == TypeOK <=> PullTypes /\ ViewerTypes
BY DEF TypeOK, PullTypes, ViewerTypes

LEMMA FlvTypePartsNext == TypeOK' <=> PullTypes' /\ ViewerTypes'
BY FlvTypeParts, PTL

\* One tag is added to those that were broadcast.
LEMMA BroadcastAdds ==
  ASSUME PullTypes, NEW k \in Kind, Broadcast(k)
  PROVE  /\ Len(tags) \in Nat /\ Len(tags) < MaxTags /\ fed = Len(tags)
         /\ tags' \in Seq(Kind) /\ Len(tags') = Len(tags) + 1
         /\ \A i \in 1..Len(tags) : tags'[i] = tags[i]
BY AppendProperties, LenProperties DEF PullTypes, Broadcast

\* The tag the cache is given next.
LEMMA FeedIs ==
  ASSUME PullTypes, FeedCache
  PROVE  /\ Len(tags) \in Nat /\ Len(tags) = fed + 1 /\ fed + 1 \in 1..Len(tags)
         /\ tags[fed + 1] \in HeaderKind \cup MediaKind
<1>1. tags \in Seq(Kind) /\ Len(tags) \in Nat /\ fed \in Nat /\ Len(tags) = fed + 1
  BY LenProperties DEF PullTypes, FeedCache
<1>2. fed + 1 \in 1..Len(tags)
  BY <1>1
<1>3. tags[fed + 1] \in Kind
  BY <1>1, <1>2, ElementOfSeq
<1> QED
  BY <1>1, <1>2, <1>3, RelayAssumption

LEMMA FlvPullTypeStep == TypeOK /\ [Next]_vars => PullTypes'
<1> SUFFICES ASSUME TypeOK, [Next]_vars PROVE PullTypes'
  OBVIOUS
<1> USE FlvConstants
<1>1. PullTypes
  BY FlvTypeParts
<1>2. ASSUME NEW k \in Kind, Broadcast(k) PROVE PullTypes'
  <2>1. /\ Len(tags) \in Nat /\ Len(tags) < MaxTags /\ fed = Len(tags)
        /\ tags' \in Seq(Kind) /\ Len(tags') = Len(tags) + 1
    BY <1>1, <1>2, BroadcastAdds
  <2>2. UNCHANGED <<puller, backup, fed, cache>>
    BY <1>2 DEF Broadcast
  <2>3. Len(tags') <= MaxTags /\ fed' = Len(tags') - 1
    BY <2>1, <2>2
  <2> QED
    BY <1>1, <2>1, <2>2, <2>3 DEF PullTypes
<1>3. CASE FeedCache
  <2>1. /\ fed \in Nat /\ Len(tags) \in Nat /\ Len(tags) = fed + 1
        /\ tags[fed + 1] \in HeaderKind \cup MediaKind
    BY <1>1, <1>3, FeedIs DEF PullTypes
  <2>2. AddTag(cache, fed + 1, tags[fed + 1]) \in Cache(fed + 1)
    BY <1>1, <2>1, AddTagIs DEF PullTypes
  <2>3. fed' = fed + 1 /\ cache' \in Cache(fed') /\ UNCHANGED <<puller, backup, tags>>
    BY <1>3, <2>2 DEF FeedCache
  <2>4. fed' \in Nat /\ fed' \in {Len(tags), Len(tags) - 1}
    BY <2>1, <2>3
  <2> QED
    BY <1>1, <2>3, <2>4 DEF PullTypes
<1>4. ASSUME UNCHANGED <<tags, fed, cache>>, puller' \in {"absent", "pulling", "waiting", "ended"},
             backup' \in BOOLEAN
      PROVE  PullTypes'
  BY <1>1, <1>4 DEF PullTypes
<1>5. CASE PullFails \/ Retry \/ StreamEnds \/ Stop
  BY <1>1, <1>4, <1>5, RelayAssumption DEF PullFails, Retry, StreamEnds, Stop, PullTypes
<1>6. ASSUME NEW v \in Viewer, Connect(v) \/ Reject(v) PROVE PullTypes'
  BY <1>1, <1>4, <1>6 DEF Connect, Reject, GetOrCreateFlvRelay, PullTypes
<1>7. CASE UNCHANGED pullVars
  BY <1>1, <1>4, <1>7 DEF pullVars, PullTypes
<1> QED
  BY <1>2, <1>3, <1>5, <1>6, <1>7
     DEF Next, ViewerStep, Close, Greet, GreetFails, RemoveClient, ReadStartup, Subscribe, StartupFails,
         Lagged, Drop, Send, SendFails, NoticeClose, vars, pullVars

\* The oldest tag in the channel.
LEMMA OldestIs ==
  ASSUME Len(tags) \in Nat
  PROVE  Oldest \in 1..(Len(tags) + 1) /\ (Oldest > 1 => Oldest <= Len(tags))
BY FlvConstants DEF Oldest

LEMMA FlvViewerTypeStep == TypeOK /\ CountIsExact /\ [Next]_vars => ViewerTypes'
<1> SUFFICES ASSUME TypeOK, CountIsExact, [Next]_vars PROVE ViewerTypes'
  OBVIOUS
<1> USE FlvConstants
<1>1. PullTypes /\ ViewerTypes
  BY FlvTypeParts
<1>2. Len(tags) \in Nat
  BY <1>1, LenProperties DEF PullTypes
<1>3. ASSUME NEW k \in Kind, Broadcast(k) PROVE ViewerTypes'
  <2>1. Len(tags') = Len(tags) + 1
    BY <1>1, <1>3, BroadcastAdds
  <2>2. UNCHANGED <<at, closed, count, next, lag, startup, sent, joined, gaps>>
    BY <1>3 DEF Broadcast, readVars, sentVars
  <2>3. /\ 1..(Len(tags) + 1) \subseteq 1..(Len(tags') + 1) /\ 0..Len(tags) \subseteq 0..Len(tags')
        /\ 1..Len(tags) \subseteq 1..Len(tags')
    BY <1>2, <2>1
  <2>4. Seq(1..Len(tags)) \subseteq Seq(1..Len(tags'))
    BY <2>3, SeqMonotonic
  <2>5. /\ next \in [Viewer -> 1..(Len(tags') + 1)] /\ joined \in [Viewer -> 1..(Len(tags') + 1)]
        /\ lag \in [Viewer -> 0..Len(tags')]
    BY <1>1, <2>3 DEF ViewerTypes
  <2>6. sent \in [Viewer -> Seq(1..Len(tags'))] /\ startup \in [Viewer -> Seq(1..Len(tags'))]
    BY <1>1, <2>4 DEF ViewerTypes
  <2>7. gaps \in [Viewer -> SUBSET [first : 1..Len(tags'), last : 1..Len(tags')]]
    <3>1. [first : 1..Len(tags), last : 1..Len(tags)] \subseteq [first : 1..Len(tags'), last : 1..Len(tags')]
      BY <2>3
    <3> QED
      BY <1>1, <3>1 DEF ViewerTypes
  <2> QED
    BY <1>1, <2>2, <2>5, <2>6, <2>7 DEF ViewerTypes
\* Steps that change where a viewer is and nothing else of its types.
<1>4. ASSUME UNCHANGED <<tags, readVars, sentVars>>, at' \in [Viewer -> Place], closed' \subseteq Viewer,
             count' \in 0..MaxClients
      PROVE  ViewerTypes'
  BY <1>1, <1>4 DEF ViewerTypes, readVars, sentVars
<1>5. CASE FeedCache \/ PullFails \/ Retry \/ StreamEnds \/ Stop \/ UNCHANGED vars
  <2>1. UNCHANGED <<tags, readVars, sentVars, at, closed, count>>
    BY <1>5 DEF FeedCache, PullFails, Retry, StreamEnds, Stop, vars, readVars, sentVars
  <2> QED
    BY <1>1, <1>4, <2>1 DEF ViewerTypes
<1>6. ASSUME NEW v \in Viewer, Connect(v) \/ Reject(v) PROVE ViewerTypes'
  <2>1. UNCHANGED <<tags, readVars, sentVars, closed>>
    BY <1>6 DEF Connect, Reject, sentVars
  <2>2. at' \in [Viewer -> Place]
    BY <1>1, <1>6 DEF Connect, Reject, ViewerTypes, Place
  <2>3. count' \in 0..MaxClients
    BY <1>1, <1>6 DEF Connect, Reject, ViewerTypes
  <2> QED
    BY <1>1, <1>4, <2>1, <2>2, <2>3 DEF ViewerTypes
<1>7. ASSUME NEW v \in Viewer, RemoveClient(v) PROVE ViewerTypes'
  <2>1. UNCHANGED <<tags, readVars, sentVars, closed>>
    BY <1>7 DEF RemoveClient, sentVars, pullVars
  <2>2. at' \in [Viewer -> Place]
    BY <1>1, <1>7 DEF RemoveClient, ViewerTypes, Place
  <2>3. count' \in 0..MaxClients
    BY <1>1, <1>7 DEF RemoveClient, ViewerTypes
  <2> QED
    BY <1>1, <1>4, <2>1, <2>2, <2>3 DEF ViewerTypes
<1>8. ASSUME NEW v \in Viewer, Close(v) \/ Greet(v) \/ (GreetFails(v) /\ v \notin WsViewer)
      PROVE  ViewerTypes'
  <2>1. UNCHANGED <<tags, readVars, sentVars, count>>
    BY <1>8 DEF Close, Greet, GreetFails, sentVars, pullVars
  <2>2. at' \in [Viewer -> Place] /\ closed' \subseteq Viewer
    BY <1>1, <1>8 DEF Close, Greet, GreetFails, ViewerTypes, Place
  <2> QED
    BY <1>1, <1>4, <2>1, <2>2 DEF ViewerTypes
<1>9. ASSUME NEW v \in Viewer, Subscribe(v) PROVE ViewerTypes'
  <2>1. UNCHANGED <<tags, closed, count, lag, sentVars, gaps>>
    BY <1>9 DEF Subscribe, sentVars, pullVars
  <2>2. at' \in [Viewer -> Place]
    BY <1>1, <1>9 DEF Subscribe, ViewerTypes, Place
  <2>3. Len(tags) + 1 \in 1..(Len(tags) + 1)
    BY <1>2
  <2>4. next' \in [Viewer -> 1..(Len(tags) + 1)] /\ joined' \in [Viewer -> 1..(Len(tags) + 1)]
    BY <1>1, <1>9, <2>3 DEF Subscribe, ViewerTypes
  <2> QED
    BY <1>1, <2>1, <2>2, <2>4 DEF ViewerTypes, sentVars
<1>10. ASSUME NEW v \in Viewer, Lagged(v) PROVE ViewerTypes'
  <2>1. UNCHANGED <<tags, at, closed, count, sentVars, joined>>
    BY <1>10 DEF Lagged, sentVars, pullVars
  <2>2. /\ next[v] \in 1..(Len(tags) + 1) /\ next[v] < Oldest
        /\ Oldest \in 1..(Len(tags) + 1)
    BY <1>1, <1>2, <1>10, OldestIs DEF Lagged, ViewerTypes
  <2>3. Oldest - next[v] \in 0..Len(tags) /\ next[v] \in 1..Len(tags) /\ Oldest - 1 \in 1..Len(tags)
    BY <1>2, <2>2
  <2>4. next' \in [Viewer -> 1..(Len(tags) + 1)] /\ lag' \in [Viewer -> 0..Len(tags)]
    BY <1>1, <1>10, <2>2, <2>3 DEF Lagged, ViewerTypes
  <2>5. [first |-> next[v], last |-> Oldest - 1] \in [first : 1..Len(tags), last : 1..Len(tags)]
    BY <2>3
  <2>6. gaps' \in [Viewer -> SUBSET [first : 1..Len(tags), last : 1..Len(tags)]]
    BY <1>1, <1>10, <2>5 DEF Lagged, ViewerTypes
  <2> QED
    BY <1>1, <2>1, <2>4, <2>6 DEF ViewerTypes, sentVars
<1>11. ASSUME NEW v \in Viewer, Available(v) PROVE next[v] \in 1..Len(tags) /\ next[v] + 1 \in 1..(Len(tags) + 1)
  BY <1>1, <1>2, <1>11 DEF Available, ViewerTypes
<1>12. ASSUME NEW v \in Viewer, Drop(v) PROVE ViewerTypes'
  <2>1. UNCHANGED <<tags, at, closed, count, lag, sentVars, joined, gaps>>
    BY <1>12 DEF Drop, sentVars, pullVars
  <2>2. next' \in [Viewer -> 1..(Len(tags) + 1)]
    BY <1>1, <1>11, <1>12 DEF Drop, ViewerTypes
  <2> QED
    BY <1>1, <2>1, <2>2 DEF ViewerTypes, sentVars
<1>13. ASSUME NEW v \in Viewer, Send(v) PROVE ViewerTypes'
  <2>1. UNCHANGED <<tags, at, closed, count, startup, joined, gaps>>
    BY <1>13 DEF Send, pullVars
  <2>2. next' \in [Viewer -> 1..(Len(tags) + 1)]
    BY <1>1, <1>11, <1>13 DEF Send, ViewerTypes
  <2>3. lag' \in [Viewer -> 0..Len(tags)]
    <3>1. (IF lag[v] > 0 THEN lag[v] - 1 ELSE 0) \in 0..Len(tags)
      BY <1>1, <1>2 DEF ViewerTypes
    <3> QED
      BY <1>1, <1>13, <3>1 DEF Send, ViewerTypes
  <2>4. Append(sent[v], next[v]) \in Seq(1..Len(tags))
    BY <1>1, <1>11, <1>13, AppendProperties DEF Send, ViewerTypes
  <2>5. sent' \in [Viewer -> Seq(1..Len(tags))]
    BY <1>1, <1>13, <2>4 DEF Send, ViewerTypes
  <2> QED
    BY <1>1, <2>1, <2>2, <2>3, <2>5 DEF ViewerTypes
<1>14. ASSUME NEW v \in Viewer, ReadStartup(v) PROVE ViewerTypes'
  <2>1. UNCHANGED <<tags, readVars, sent, closed, count>>
    BY <1>14 DEF ReadStartup, pullVars
  <2>2. at' \in [Viewer -> Place]
    BY <1>1, <1>14 DEF ReadStartup, ViewerTypes, Place
  <2>3. GetStartupTags(cache) \in Seq(1..Len(tags))
    <3>1. fed \in Nat /\ cache \in Cache(fed) /\ 1..fed \subseteq 1..Len(tags)
      BY <1>1, <1>2 DEF PullTypes
    <3>2. GetStartupTags(cache) \in Seq(1..fed)
      BY <3>1, StartupTagsAre
    <3> QED
      BY <3>1, <3>2, SeqMonotonic
  <2>4. startup' \in [Viewer -> Seq(1..Len(tags))]
    BY <1>1, <1>14, <2>3 DEF ReadStartup, ViewerTypes
  <2> QED
    BY <1>1, <2>1, <2>2, <2>4 DEF ViewerTypes, readVars
<1> QED
  BY <1>3, <1>5, <1>6, <1>7, <1>8, <1>9, <1>10, <1>12, <1>13, <1>14
     DEF Next, ViewerStep, GreetFails, StartupFails, SendFails, NoticeClose

LEMMA FlvTypeStep == TypeOK /\ CountIsExact /\ [Next]_vars => TypeOK'
BY FlvPullTypeStep, FlvViewerTypeStep, FlvTypePartsNext

LEMMA FlvTypeInit == Init => TypeOK
<1> SUFFICES ASSUME Init PROVE TypeOK
  OBVIOUS
<1> USE FlvConstants
<1>1. tags = << >> /\ Len(tags) = 0 /\ tags \in Seq(Kind)
  BY DEF Init
<1>2. EmptyCache \in Cache(0)
  <2>1. << >> \in Seq(Seq(1..0)) /\ << >> \in Seq(1..0) /\ Len(<< >>) = 0
    BY EmptySeq
  <2>2. [k \in HeaderKind |-> 0] \in [HeaderKind -> 0..0]
    OBVIOUS
  <2> QED
    BY <2>1, <2>2 DEF EmptyCache, Cache
<1>3. PullTypes
  <2>1. /\ fed = 0 /\ cache \in Cache(0) /\ puller = "absent" /\ backup = FALSE
    BY <1>2 DEF Init
  <2>2. Len(tags) <= MaxTags /\ fed \in Nat /\ fed = Len(tags)
    BY <1>1, <2>1
  <2> QED
    BY <1>1, <2>1, <2>2 DEF PullTypes
<1>4. << >> \in Seq(1..Len(tags)) /\ 1 \in 1..(Len(tags) + 1)
      /\ 0 \in 0..Len(tags)
  BY <1>1
<1>5. ViewerTypes
  BY <1>4 DEF Init, ViewerTypes, Place
<1> QED
  BY <1>3, <1>5, FlvTypeParts

-----------------------------------------------------------------------------
(* The FLV relay: the count of clients.                                    *)

Leaked == {v \in Viewer : at[v] = "leaked"}

LEMMA PlacesAreFinite ==
  /\ IsFiniteSet(Served) /\ Cardinality(Served) \in Nat
  /\ IsFiniteSet(Leaked) /\ Cardinality(Leaked) \in Nat
<1>1. Served \in SUBSET Viewer /\ Leaked \in SUBSET Viewer /\ IsFiniteSet(Viewer)
  BY RelayAssumption DEF Served, Leaked
<1>2. IsFiniteSet(Served) /\ IsFiniteSet(Leaked)
  BY <1>1, FS_Subset
<1> QED
  BY <1>2, FS_CardinalityType

LEMMA CountStep == TypeOK /\ CountIsExact /\ [Next]_vars => CountIsExact'
<1> SUFFICES ASSUME TypeOK, CountIsExact, [Next]_vars PROVE CountIsExact'
  OBVIOUS
<1>1. at \in [Viewer -> Place] /\ count \in Nat /\ count = Cardinality(Served) + Cardinality(Leaked)
  BY FlvConstants DEF TypeOK, CountIsExact, Leaked
<1>2. ASSUME count' = Cardinality(Served') + Cardinality(Leaked') PROVE CountIsExact'
  BY <1>2 DEF CountIsExact, Leaked
<1>3. ASSUME UNCHANGED count, Served' = Served, Leaked' = Leaked PROVE CountIsExact'
  BY <1>1, <1>2, <1>3
<1>4. ASSUME NEW v \in Viewer, Connect(v) PROVE CountIsExact'
  <2>1. Served' = Served \cup {v} /\ v \notin Served /\ Leaked' = Leaked
    BY <1>1, <1>4 DEF Connect, Served, Leaked
  <2>2. Cardinality(Served') = Cardinality(Served) + 1
    BY <2>1, PlacesAreFinite, FS_AddElement
  <2>3. count' = Cardinality(Served') + Cardinality(Leaked')
    BY <1>1, <1>4, <2>1, <2>2, PlacesAreFinite DEF Connect
  <2> QED
    BY <1>2, <2>3
<1>5. ASSUME NEW v \in Viewer, v \in Served, RemoveClient(v) PROVE CountIsExact'
  <2>1. Served' = Served \ {v} /\ Leaked' = Leaked
    BY <1>1, <1>5 DEF RemoveClient, Served, Leaked
  <2>2. Cardinality(Served') = Cardinality(Served) - 1 /\ Cardinality(Served') \in Nat
    BY <1>5, <2>1, PlacesAreFinite, FS_RemoveElement, FS_CardinalityType
  <2>3. count' = Cardinality(Served') + Cardinality(Leaked')
    BY <1>1, <1>5, <2>1, <2>2, PlacesAreFinite DEF RemoveClient
  <2> QED
    BY <1>2, <2>3
\* The place an HTTP-FLV viewer leaks is counted on.
<1>6. ASSUME NEW v \in Viewer, GreetFails(v), v \notin WsViewer PROVE CountIsExact'
  <2>1. /\ Served' = Served \ {v} /\ v \in Served
        /\ Leaked' = Leaked \cup {v} /\ v \notin Leaked /\ count' = count
    BY <1>1, <1>6 DEF GreetFails, Served, Leaked
  <2>2. Cardinality(Served') = Cardinality(Served) - 1 /\ Cardinality(Leaked') = Cardinality(Leaked) + 1
    BY <2>1, PlacesAreFinite, FS_RemoveElement, FS_AddElement
  <2>3. count' = Cardinality(Served') + Cardinality(Leaked')
    BY <1>1, <2>1, <2>2, PlacesAreFinite
  <2> QED
    BY <1>2, <2>3
<1>7. ASSUME NEW v \in Viewer, Reject(v) PROVE CountIsExact'
  BY <1>1, <1>3, <1>7 DEF Reject, Served, Leaked
<1>8. ASSUME NEW v \in Viewer, Greet(v) \/ ReadStartup(v) \/ Subscribe(v) PROVE CountIsExact'
  BY <1>1, <1>3, <1>8 DEF Greet, ReadStartup, Subscribe, Served, Leaked
<1>9. CASE UNCHANGED <<at, count>>
  BY <1>3, <1>9 DEF Served, Leaked
<1>10. ASSUME NEW v \in Viewer, GreetFails(v) \/ StartupFails(v) \/ SendFails(v) \/ NoticeClose(v)
       PROVE  CountIsExact'
  <2>1. v \in Served
    BY <1>10 DEF GreetFails, StartupFails, SendFails, NoticeClose, Available, Served
  <2> QED
    BY <1>5, <1>6, <1>10, <2>1 DEF GreetFails, StartupFails, SendFails, NoticeClose
<1> QED
  BY <1>4, <1>7, <1>8, <1>9, <1>10
     DEF Next, ViewerStep, Broadcast, FeedCache, PullFails, Retry, StreamEnds, Stop, Close, Lagged,
         Drop, Send, vars

LEMMA CountInit == Init => CountIsExact
<1> SUFFICES ASSUME Init PROVE CountIsExact
  OBVIOUS
<1>1. Served = {} /\ {v \in Viewer : at[v] = "leaked"} = {}
  BY DEF Init, Served
<1>2. count = 0 /\ Cardinality(Served) = 0 /\ Cardinality({v \in Viewer : at[v] = "leaked"}) = 0
  BY <1>1, FS_EmptySet DEF Init
<1> QED
  BY <1>2 DEF CountIsExact

LEMMA TypeAndCount == Spec => [](TypeOK /\ CountIsExact)
BY FlvTypeInit, CountInit, FlvTypeStep, CountStep, PTL DEF Spec

\* The types and bounds of the FLV relay's state, for any number of viewers and
\* all limits: the cache never holds more than GopCount GOPs and a GOP never
\* more than MaxFrames tags, and never more than MaxClients are counted.
THEOREM FlvTypeCorrect == Spec => []TypeOK
BY TypeAndCount, PTL

\* For any number of viewers, client_count is the number of those served and of
\* those leaked, whatever connections come, fail and go.
THEOREM CountsAreExact == Spec => []CountIsExact
BY TypeAndCount, PTL

-----------------------------------------------------------------------------
(* The FLV relay: what a viewer misses.                                    *)

\* Of the tags since a subscription a viewer has passed, those it was not given
\* are explained.  It lags by no more than it missed when it last fell behind
\* less what it was written since; what it missed, or was written, it has passed.
Explained(f, s, G, i) ==
    \/ i \in Range(s)
    \/ \E g \in G : i \in g.first..g.last
    \/ f[i] = "inter" /\ \E g \in G : IsLastGap(G, g, i) /\ Cardinality(SentSince(s, g, i)) < Missed(g)

LossOf(f, s, first, k, G, behind) ==
    /\ \A i \in first..(k - 1) : Explained(f, s, G, i)
    /\ \A h \in G : h.last < k
    /\ \A i \in Range(s) : i < k
    /\ behind > 0 =>
          \E g \in G : IsLastGap(G, g, k) /\ Cardinality(SentSince(s, g, k)) + behind <= Missed(g)

LossInv == \A v \in Viewer : LossOf(tags, sent[v], joined[v], next[v], gaps[v], lag[v])

\* The elements of a sequence of tags.
LEMMA GopRange ==
  ASSUME NEW n \in Nat, NEW g \in Seq(1..n)
  PROVE  /\ \A i \in Range(g) : i \in 1..n
         /\ g # << >> => g[1] \in Range(g) /\ g[1] \in 1..n
<1>1. Len(g) \in Nat /\ DOMAIN g = 1..Len(g)
  BY LenProperties
<1>2. \A i \in 1..Len(g) : g[i] \in 1..n
  BY ElementOfSeq
<1>3. \A i \in Range(g) : i \in 1..n
  BY <1>1, <1>2 DEF Range
<1>4. ASSUME g # << >> PROVE g[1] \in Range(g) /\ g[1] \in 1..n
  <2>1. Len(g) # 0
    BY <1>4, EmptySeq
  <2>2. 1 \in DOMAIN g
    BY <1>1, <2>1
  <2> QED
    BY <1>3, <2>2 DEF Range
<1> QED
  BY <1>3, <1>4

\* A run of tags missed, and what was sent after it.
LEMMA SinceIs ==
  ASSUME NEW n \in Nat, NEW s \in Seq(1..n), NEW g \in [first : 1..n, last : 1..n], NEW i \in Int
  PROVE  /\ g.last \in Int /\ Missed(g) \in Int
         /\ IsFiniteSet(SentSince(s, g, i)) /\ Cardinality(SentSince(s, g, i)) \in Nat
<1>1. g.last \in Int /\ Missed(g) \in Int
  BY DEF Missed
<1>2. \A x \in Range(s) : x \in 1..n
  BY GopRange
<1>3. SentSince(s, g, i) \subseteq 1..n
  BY <1>2 DEF SentSince
<1>4. IsFiniteSet(1..n)
  BY FS_Interval
<1>5. IsFiniteSet(SentSince(s, g, i))
  BY <1>3, <1>4, FS_Subset
<1> QED
  BY <1>1, <1>5, FS_CardinalityType

\* Later tags that are sent, and later runs that are missed, leave an
\* explanation as it is.
LEMMA StaysExplained ==
  ASSUME NEW n \in Nat, NEW f, NEW s, NEW t, NEW G \in SUBSET [first : 1..n, last : 1..n],
         NEW H \in SUBSET [first : 1..n, last : 1..n],
         NEW k \in Int, NEW i \in Int, i < k, Explained(f, s, G, i),
         Range(s) \subseteq Range(t), \A x \in Range(t) : x \in Range(s) \/ (x \in Int /\ x >= k),
         G \subseteq H, \A h \in H : h \in G \/ h.last >= k
  PROVE  Explained(f, t, H, i)
<1>1. CASE i \in Range(s) \/ \E g \in G : i \in g.first..g.last
  BY <1>1 DEF Explained
<1>2. CASE f[i] = "inter" /\ \E g \in G : IsLastGap(G, g, i) /\ Cardinality(SentSince(s, g, i)) < Missed(g)
  <2>1. PICK g \in G : IsLastGap(G, g, i) /\ Cardinality(SentSince(s, g, i)) < Missed(g)
    BY <1>2
  <2>2. \A h \in H : h.last \in Int
    OBVIOUS
  <2>3. IsLastGap(H, g, i)
    BY <2>1, <2>2 DEF IsLastGap
  <2>4. SentSince(t, g, i) = SentSince(s, g, i)
    BY DEF SentSince
  <2> QED
    BY <1>2, <2>1, <2>3, <2>4 DEF Explained
<1> QED
  BY <1>1, <1>2 DEF Explained

LEMMA LossStep == TypeOK /\ LossInv /\ [Next]_vars => LossInv'
<1> SUFFICES ASSUME TypeOK, LossInv, [Next]_vars, NEW w \in Viewer
             PROVE  LossOf(tags, sent[w], joined[w], next[w], gaps[w], lag[w])'
  BY DEF LossInv
<1> DEFINE Goal == LossOf(tags, sent[w], joined[w], next[w], gaps[w], lag[w])'
<1>1. PullTypes /\ ViewerTypes /\ LossOf(tags, sent[w], joined[w], next[w], gaps[w], lag[w])
  BY FlvTypeParts DEF LossInv
<1>2. Len(tags) \in Nat
  BY <1>1, LenProperties DEF PullTypes
<1>3. /\ next \in [Viewer -> 1..(Len(tags) + 1)] /\ joined \in [Viewer -> 1..(Len(tags) + 1)]
      /\ lag \in [Viewer -> 0..Len(tags)] /\ sent \in [Viewer -> Seq(1..Len(tags))]
      /\ gaps \in [Viewer -> SUBSET [first : 1..Len(tags), last : 1..Len(tags)]]
  BY <1>1 DEF ViewerTypes
<1>4. /\ next[w] \in Int /\ next[w] >= 1 /\ next[w] <= Len(tags) + 1
      /\ joined[w] \in Int /\ joined[w] >= 1 /\ lag[w] \in Int
      /\ sent[w] \in Seq(1..Len(tags))
      /\ gaps[w] \in SUBSET [first : 1..Len(tags), last : 1..Len(tags)]
  BY <1>2, <1>3
<1>5. /\ \A i \in joined[w]..(next[w] - 1) : Explained(tags, sent[w], gaps[w], i)
      /\ \A h \in gaps[w] : h.last < next[w]
      /\ \A i \in Range(sent[w]) : i < next[w]
      /\ lag[w] > 0 =>
            \E g \in gaps[w] : /\ IsLastGap(gaps[w], g, next[w])
                               /\ Cardinality(SentSince(sent[w], g, next[w])) + lag[w] <= Missed(g)
  BY <1>1 DEF LossOf
<1>19. /\ \A h \in gaps[w] : h.last \in Int /\ h.first \in Int /\ h.last <= Len(tags)
       /\ \A i \in Range(sent[w]) : i \in Int /\ i <= Len(tags)
  <2>1. \A i \in Range(sent[w]) : i \in 1..Len(tags)
    BY <1>2, <1>4, GopRange
  <2> QED
    BY <1>2, <1>4, <2>1
<1>6. ASSUME UNCHANGED tags, sent'[w] = sent[w], joined'[w] = joined[w], next'[w] = next[w],
             gaps'[w] = gaps[w], lag'[w] = lag[w]
      PROVE  Goal
  BY <1>5, <1>6 DEF LossOf, Explained
<1>7. ASSUME NEW k \in Kind, Broadcast(k) PROVE Goal
  <2>1. \A i \in 1..Len(tags) : tags'[i] = tags[i]
    BY <1>1, <1>7, BroadcastAdds
  <2>2. UNCHANGED <<sent, joined, next, gaps, lag>>
    BY <1>7 DEF Broadcast, readVars, sentVars
  <2>3. \A i \in joined[w]..(next[w] - 1) : tags'[i] = tags[i]
    BY <1>2, <1>4, <2>1
  <2>4. \A i \in joined[w]..(next[w] - 1) : Explained(tags', sent[w], gaps[w], i)
    BY <1>5, <2>3 DEF Explained
  <2> QED
    BY <1>5, <2>2, <2>4 DEF LossOf, Explained
<1>8. CASE UNCHANGED <<tags, readVars, sentVars>>
  BY <1>6, <1>8 DEF readVars, sentVars
<1>9. ASSUME NEW v \in Viewer, v # w, Subscribe(v) \/ Lagged(v) \/ Drop(v) \/ Send(v)
      PROVE  Goal
  <2>1. UNCHANGED tags
    BY <1>9 DEF Subscribe, Lagged, Drop, Send, pullVars
  <2>2. /\ sent'[w] = sent[w] /\ joined'[w] = joined[w] /\ next'[w] = next[w]
        /\ gaps'[w] = gaps[w] /\ lag'[w] = lag[w]
    BY <1>3, <1>9 DEF Subscribe, Lagged, Drop, Send, sentVars
  <2> QED
    BY <1>6, <2>1, <2>2
\* A place further on: the last run missed is the same, and nothing was sent.
<1>20. ASSUME NEW k \in Int, next[w] <= k, lag[w] > 0
       PROVE  \E g \in gaps[w] : /\ IsLastGap(gaps[w], g, k)
                                 /\ Cardinality(SentSince(sent[w], g, k)) + lag[w] <= Missed(g)
  <2>1. PICK g \in gaps[w] : /\ IsLastGap(gaps[w], g, next[w])
                             /\ Cardinality(SentSince(sent[w], g, next[w])) + lag[w] <= Missed(g)
    BY <1>5, <1>20
  <2>2. IsLastGap(gaps[w], g, k)
    BY <1>4, <1>5, <1>19, <1>20, <2>1 DEF IsLastGap
  <2>3. SentSince(sent[w], g, k) = SentSince(sent[w], g, next[w])
    BY <1>4, <1>5, <1>19, <1>20 DEF SentSince
  <2> QED
    BY <2>1, <2>2, <2>3
<1>10. CASE Subscribe(w)
  <2>1. /\ UNCHANGED <<tags, sent, gaps, lag>> /\ next'[w] = Len(tags) + 1 /\ joined'[w] = Len(tags) + 1
    BY <1>3, <1>10 DEF Subscribe, pullVars, sentVars
  <2>2. \A i \in joined'[w]..(next'[w] - 1) : FALSE
    BY <1>2, <2>1
  <2>3. (\A h \in gaps[w] : h.last < Len(tags) + 1) /\ (\A i \in Range(sent[w]) : i < Len(tags) + 1)
    BY <1>2, <1>19
  <2>4. lag[w] > 0 =>
          \E g \in gaps[w] : /\ IsLastGap(gaps[w], g, Len(tags) + 1)
                             /\ Cardinality(SentSince(sent[w], g, Len(tags) + 1)) + lag[w] <= Missed(g)
    BY <1>2, <1>4, <1>20
  <2> QED
    BY <2>1, <2>2, <2>3, <2>4 DEF LossOf
<1>11. CASE Lagged(w)
  <2>1. /\ UNCHANGED <<tags, sent, joined>> /\ next'[w] = Oldest /\ next[w] < Oldest
        /\ gaps'[w] = gaps[w] \cup {[first |-> next[w], last |-> Oldest - 1]}
        /\ lag'[w] = Oldest - next[w]
    BY <1>3, <1>11 DEF Lagged, pullVars, sentVars
  <2>2. Oldest \in Int /\ Oldest \in 1..(Len(tags) + 1)
    BY <1>2, OldestIs
  <2>3. PICK g \in [first : 1..Len(tags), last : 1..Len(tags)] :
           g.first = next[w] /\ g.last = Oldest - 1 /\ gaps'[w] = gaps[w] \cup {g}
    <3>1. next[w] \in 1..Len(tags) /\ Oldest - 1 \in 1..Len(tags)
      BY <1>2, <1>4, <2>1, <2>2
    <3>2. [first |-> next[w], last |-> Oldest - 1] \in [first : 1..Len(tags), last : 1..Len(tags)]
      BY <3>1
    <3> QED
      BY <2>1, <3>2
  <2>4. gaps'[w] \in SUBSET [first : 1..Len(tags), last : 1..Len(tags)]
    BY <1>4, <2>3
  <2>5. ASSUME NEW i \in joined[w]..(Oldest - 1) PROVE Explained(tags, sent[w], gaps'[w], i)
    <3>1. CASE i \in joined[w]..(next[w] - 1)
      <4>1. i \in Int /\ i < next[w] /\ Explained(tags, sent[w], gaps[w], i)
        BY <1>4, <1>5, <3>1
      <4>2. \A h \in gaps'[w] : h \in gaps[w] \/ h.last >= next[w]
        BY <1>4, <2>1, <2>2, <2>3
      <4> QED
        BY <1>2, <1>4, <2>3, <2>4, <4>1, <4>2, StaysExplained
    <3>2. CASE i \in g.first..g.last
      BY <2>3, <3>2 DEF Explained
    <3> QED
      BY <1>4, <2>2, <2>3, <3>1, <3>2
  <2>6. \A h \in gaps'[w] : h.last < Oldest
    BY <1>4, <1>5, <1>19, <2>1, <2>2, <2>3
  <2>7. \A i \in Range(sent[w]) : i < Oldest
    <3> SUFFICES ASSUME NEW i \in Range(sent[w]) PROVE i < Oldest
      OBVIOUS
    <3>1. i \in Int /\ i < next[w]
      BY <1>5, <1>19
    <3>2. next[w] \in Int /\ next[w] < Oldest /\ Oldest \in Int
      BY <1>4, <2>1, <2>2
    <3> QED
      BY <3>1, <3>2
  <2>8. IsLastGap(gaps'[w], g, Oldest)
    BY <1>4, <1>5, <1>19, <2>1, <2>2, <2>3 DEF IsLastGap
  <2>9. SentSince(sent[w], g, Oldest) = {}
    BY <1>19, <2>2, <2>3 DEF SentSince
  <2>10. Cardinality(SentSince(sent[w], g, Oldest)) + lag'[w] <= Missed(g)
    <3>1. Cardinality(SentSince(sent[w], g, Oldest)) = 0
      BY <2>9, FS_EmptySet
    <3> QED
      BY <1>4, <2>1, <2>2, <2>3, <3>1 DEF Missed
  <2>11. g \in gaps'[w]
    BY <2>3
  <2> QED
    BY <2>1, <2>5, <2>6, <2>7, <2>8, <2>10, <2>11 DEF LossOf, Explained
<1>12. CASE Drop(w)
  <2>1. /\ UNCHANGED <<tags, sent, joined, gaps, lag>> /\ next'[w] = next[w] + 1
        /\ lag[w] > 0 /\ tags[next[w]] = "inter"
    BY <1>3, <1>12 DEF Drop, ShouldDrop, pullVars, sentVars
  <2>2. PICK g \in gaps[w] : /\ IsLastGap(gaps[w], g, next[w])
                             /\ Cardinality(SentSince(sent[w], g, next[w])) + lag[w] <= Missed(g)
    BY <1>5, <2>1
  <2>3. Cardinality(SentSince(sent[w], g, next[w])) < Missed(g)
    <3>1. g \in [first : 1..Len(tags), last : 1..Len(tags)] /\ next[w] \in Int
      BY <1>4
    <3>2. Cardinality(SentSince(sent[w], g, next[w])) \in Nat /\ Missed(g) \in Int
      BY <1>2, <1>4, <3>1, SinceIs, Zenon
    <3>3. lag[w] \in Int
      BY <1>4
    <3> QED
      BY <2>1, <2>2, <3>2, <3>3
  <2>4. Explained(tags, sent[w], gaps[w], next[w])
    BY <2>1, <2>2, <2>3 DEF Explained
  <2>5. \A i \in joined[w]..((next[w] + 1) - 1) : i \in joined[w]..(next[w] - 1) \/ i = next[w]
    BY <1>4
  <2>6. \A i \in joined[w]..((next[w] + 1) - 1) : Explained(tags, sent[w], gaps[w], i)
    BY <1>5, <2>4, <2>5
  <2>7. (\A h \in gaps[w] : h.last < next[w] + 1) /\ (\A i \in Range(sent[w]) : i < next[w] + 1)
    BY <1>4, <1>5, <1>19
  <2>8. \E h \in gaps[w] : /\ IsLastGap(gaps[w], h, next[w] + 1)
                           /\ Cardinality(SentSince(sent[w], h, next[w] + 1)) + lag[w] <= Missed(h)
    <3>1. next[w] + 1 \in Int /\ next[w] <= next[w] + 1
      BY <1>4
    <3> QED
      BY <1>20, <2>1, <3>1
  <2> QED
    BY <2>1, <2>6, <2>7, <2>8 DEF LossOf, Explained
<1>13. CASE Send(w)
  <2>1. /\ UNCHANGED <<tags, joined, gaps>> /\ next'[w] = next[w] + 1
        /\ sent'[w] = Append(sent[w], next[w]) /\ lag'[w] = (IF lag[w] > 0 THEN lag[w] - 1 ELSE 0)
        /\ next[w] <= Len(tags)
    BY <1>3, <1>13 DEF Send, Available, pullVars
  <2>2. next[w] \in 1..Len(tags)
    BY <1>2, <1>4, <2>1
  <2>3. Range(sent'[w]) = Range(sent[w]) \cup {next[w]}
    <3>1. \A S : \A s \in Seq(S) : \A x \in S : Range(Append(s, x)) = Range(s) \cup {x}
      BY RangeAppend
    <3>2. \A s \in Seq(1..Len(tags)) : \A x \in 1..Len(tags) : Range(Append(s, x)) = Range(s) \cup {x}
      BY <3>1
    <3> QED
      BY <1>4, <2>1, <2>2, <3>2
  <2>4. \A i \in joined[w]..((next[w] + 1) - 1) : i \in joined[w]..(next[w] - 1) \/ i = next[w]
    BY <1>4
  <2>5. (\A h \in gaps[w] : h.last < next[w] + 1) /\ (\A i \in Range(sent'[w]) : i < next[w] + 1)
    BY <1>4, <1>5, <1>19, <2>3
  <2>6. ASSUME NEW i \in joined[w]..(next[w] - 1) PROVE Explained(tags, sent'[w], gaps[w], i)
    <3>1. i \in Int /\ i < next[w] /\ Explained(tags, sent[w], gaps[w], i)
      BY <1>4, <1>5
    <3>2. Range(sent[w]) \subseteq Range(sent'[w])
          /\ \A x \in Range(sent'[w]) : x \in Range(sent[w]) \/ (x \in Int /\ x >= next[w])
      BY <1>4, <2>3
    <3> QED
      BY <1>2, <1>4, <3>1, <3>2, StaysExplained
  <2>7. Explained(tags, sent'[w], gaps[w], next[w])
    BY <2>3 DEF Explained
  <2>8. \A i \in joined[w]..((next[w] + 1) - 1) : Explained(tags, sent'[w], gaps[w], i)
    BY <2>4, <2>6, <2>7
  <2>9. ASSUME lag'[w] > 0
        PROVE  \E g \in gaps[w] : /\ IsLastGap(gaps[w], g, next[w] + 1)
                                  /\ Cardinality(SentSince(sent'[w], g, next[w] + 1)) + lag'[w] <= Missed(g)
    <3>1. lag[w] > 0 /\ lag'[w] = lag[w] - 1
      BY <1>4, <2>1, <2>9
    <3>2. PICK g \in gaps[w] : /\ IsLastGap(gaps[w], g, next[w] + 1)
                               /\ Cardinality(SentSince(sent[w], g, next[w] + 1)) + lag[w] <= Missed(g)
      <4>1. next[w] + 1 \in Int /\ next[w] <= next[w] + 1
        BY <1>4
      <4> QED
        BY <1>20, <3>1, <4>1
    <3> DEFINE A == SentSince(sent[w], g, next[w] + 1)
               B == SentSince(sent'[w], g, next[w] + 1)
    <3>3. B = A \cup {next[w]}
      <4>1. g.last < next[w] /\ next[w] < next[w] + 1
        BY <1>4, <1>5
      <4> QED
        BY <2>3, <4>1 DEF SentSince
    <3>4. IsFiniteSet(A) /\ Cardinality(A) \in Nat /\ Missed(g) \in Int
      <4>1. g \in [first : 1..Len(tags), last : 1..Len(tags)] /\ next[w] + 1 \in Int
        BY <1>4
      <4> QED
        BY <1>2, <1>4, <4>1, SinceIs, Zenon
    <3> HIDE DEF A, B
    <3>5. Cardinality(B) \in Int /\ Cardinality(B) <= Cardinality(A) + 1
      BY <3>3, <3>4, FS_AddElement
    <3>6. Cardinality(A) + lag[w] <= Missed(g)
      BY <3>2 DEF A
    <3>7. Cardinality(B) + lag'[w] <= Missed(g)
      BY <1>4, <3>1, <3>4, <3>5, <3>6
    <3> QED
      BY <3>2, <3>7 DEF B
  <2> QED
    BY <2>1, <2>5, <2>8, <2>9 DEF LossOf, Explained
<1>14. ASSUME NEW v \in Viewer, Subscribe(v) \/ Lagged(v) \/ Drop(v) \/ Send(v)
       PROVE  Goal
  <2>1. CASE v = w
    BY <1>10, <1>11, <1>12, <1>13, <1>14, <2>1
  <2>2. CASE v # w
    BY <1>9, <1>14, <2>2
  <2> QED
    BY <2>1, <2>2
<1>15. ASSUME NEW v \in Viewer, \/ Connect(v) \/ Reject(v) \/ Close(v) \/ Greet(v) \/ GreetFails(v)
                                \/ StartupFails(v) \/ SendFails(v) \/ NoticeClose(v)
       PROVE  Goal
  BY <1>8, <1>15 DEF Connect, Reject, Close, Greet, GreetFails, StartupFails, SendFails, NoticeClose,
                     RemoveClient, pullVars
<1>16. ASSUME NEW v \in Viewer, ReadStartup(v) PROVE Goal
  BY <1>6, <1>16 DEF ReadStartup, pullVars, readVars
<1>17. CASE FeedCache \/ PullFails \/ Retry \/ StreamEnds \/ Stop \/ UNCHANGED vars
  BY <1>8, <1>17 DEF FeedCache, PullFails, Retry, StreamEnds, Stop, vars, readVars, sentVars
<1>18. ASSUME NEW v \in Viewer, ViewerStep(v) PROVE Goal
  BY <1>14, <1>15, <1>16, <1>18 DEF ViewerStep
<1> QED
  BY <1>7, <1>15, <1>17, <1>18 DEF Next

\* For any number of viewers and every size of the channel, a tag that a viewer
\* was not given since it subscribed was overwritten in the channel, or is a
\* picture dropped before it had been written as many tags as it missed when it
\* last fell behind (should_drop, relieve_pressure).
THEOREM LossesAreExplained == Spec => []LossIsExplained
<1>1. Init => LossInv
  <2> SUFFICES ASSUME Init, NEW v \in Viewer
               PROVE  LossOf(tags, sent[v], joined[v], next[v], gaps[v], lag[v])
    BY DEF LossInv
  <2>1. joined[v] = 1 /\ next[v] = 1 /\ gaps[v] = {} /\ lag[v] = 0 /\ sent[v] = << >> /\ DOMAIN << >> = {}
    BY DEF Init
  <2>2. (\A i \in joined[v]..(next[v] - 1) : FALSE) /\ Range(sent[v]) = {}
    BY <2>1 DEF Range
  <2> QED
    BY <2>1, <2>2 DEF LossOf
<1>2. LossInv => LossIsExplained
  BY DEF LossInv, LossOf, Explained, LossIsExplained
<1> QED
  BY <1>1, <1>2, TypeAndCount, LossStep, PTL DEF Spec

-----------------------------------------------------------------------------
(* The FLV relay: what the cache holds.                                    *)

\* A GOP: from its key frame on, without a gap in pictures and sound, and with
\* no other key frame.
IsWhole(f, g) ==
    \A i \in Range(g) :
        /\ g[1] \in Range(g) /\ g[1] <= i /\ f[g[1]] = "key"
        /\ \A j \in (g[1] + 1)..i : f[j] # "key"
        /\ \A j \in g[1]..i : f[j] \in MediaKind => j \in Range(g)

\* The GOP being built is that of the last key frame, and is up to date with
\* the first n tags unless it is full.
IsCurrent(f, n, g) ==
    g # << >> => /\ \A j \in (g[1] + 1)..n : f[j] # "key"
                 /\ Len(g) < MaxFrames => \A j \in g[1]..n : f[j] \in MediaKind => j \in Range(g)

GopsAreWhole ==
    /\ \A i \in DOMAIN cache.ring : IsWhole(tags, cache.ring[i])
    /\ IsWhole(tags, cache.cur)
    /\ IsCurrent(tags, fed, cache.cur)

\* Tags that are added do not change what a GOP of earlier ones is.
LEMMA WholeGrows ==
  ASSUME NEW n \in Nat, NEW g \in Seq(1..n), NEW f, NEW h, \A i \in 1..n : f[i] = h[i], IsWhole(f, g)
  PROVE  IsWhole(h, g)
<1>1. \A i \in Range(g) : i \in 1..n
  BY GopRange
<1> SUFFICES ASSUME NEW i \in Range(g)
             PROVE  /\ g[1] \in Range(g) /\ g[1] <= i /\ h[g[1]] = "key"
                    /\ \A j \in (g[1] + 1)..i : h[j] # "key"
                    /\ \A j \in g[1]..i : h[j] \in MediaKind => j \in Range(g)
  BY DEF IsWhole
<1>2. /\ g[1] \in Range(g) /\ g[1] <= i /\ f[g[1]] = "key"
      /\ \A j \in (g[1] + 1)..i : f[j] # "key"
      /\ \A j \in g[1]..i : f[j] \in MediaKind => j \in Range(g)
  BY DEF IsWhole
<1>3. g[1] \in 1..n /\ i \in 1..n
  BY <1>1, <1>2
<1>4. \A j \in g[1]..i : j \in 1..n
  BY <1>3
<1>5. \A j \in (g[1] + 1)..i : j \in 1..n
  BY <1>3
<1> QED
  BY <1>2, <1>3, <1>4, <1>5

LEMMA GopStep == TypeOK /\ GopsAreWhole /\ [Next]_vars => GopsAreWhole'
<1> SUFFICES ASSUME TypeOK, GopsAreWhole, [Next]_vars PROVE GopsAreWhole'
  OBVIOUS
<1> USE FlvConstants
<1>1. PullTypes
  BY FlvTypeParts
<1>2. /\ Len(tags) \in Nat /\ fed \in Nat /\ fed <= Len(tags) /\ cache \in Cache(fed)
      /\ cache.ring \in Seq(Seq(1..fed)) /\ cache.cur \in Seq(1..fed)
  BY <1>1, LenProperties DEF PullTypes, Cache
<1>3. \A i \in DOMAIN cache.ring : cache.ring[i] \in Seq(1..fed)
  BY <1>2, LenProperties, ElementOfSeq
<1>4. /\ \A i \in DOMAIN cache.ring : IsWhole(tags, cache.ring[i])
      /\ IsWhole(tags, cache.cur) /\ IsCurrent(tags, fed, cache.cur)
  BY DEF GopsAreWhole
<1>5. ASSUME NEW k \in Kind, Broadcast(k) PROVE GopsAreWhole'
  <2>1. (\A i \in 1..Len(tags) : tags'[i] = tags[i]) /\ UNCHANGED <<cache, fed>>
    BY <1>1, <1>5, BroadcastAdds DEF Broadcast
  <2>2. \A i \in 1..fed : tags[i] = tags'[i]
    BY <1>2, <2>1
  <2>3. \A g \in Seq(1..fed) : IsWhole(tags, g) => IsWhole(tags', g)
    BY <1>2, <2>2, WholeGrows
  <2>4. IsCurrent(tags', fed, cache.cur)
    <3> SUFFICES ASSUME cache.cur # << >>
                 PROVE  /\ \A j \in (cache.cur[1] + 1)..fed : tags'[j] # "key"
                        /\ Len(cache.cur) < MaxFrames =>
                             \A j \in cache.cur[1]..fed : tags'[j] \in MediaKind => j \in Range(cache.cur)
      BY DEF IsCurrent
    <3>1. cache.cur[1] \in 1..fed
      BY <1>2, GopRange
    <3>2. /\ \A j \in cache.cur[1]..fed : tags'[j] = tags[j]
          /\ \A j \in (cache.cur[1] + 1)..fed : tags'[j] = tags[j]
      BY <1>2, <2>2, <3>1
    <3> QED
      BY <1>4, <3>2 DEF IsCurrent
  <2>5. \A i \in DOMAIN cache.ring : IsWhole(tags', cache.ring[i])
    BY <1>3, <1>4, <2>3
  <2>6. IsWhole(tags', cache.cur)
    BY <1>2, <1>4, <2>3
  <2> QED
    BY <2>1, <2>4, <2>5, <2>6 DEF GopsAreWhole, IsWhole, IsCurrent
<1>6. CASE FeedCache
  <2>1. /\ Len(tags) = fed + 1 /\ tags[fed + 1] \in HeaderKind \cup MediaKind
        /\ fed' = fed + 1 /\ cache' = AddTag(cache, fed + 1, tags[fed + 1]) /\ UNCHANGED tags
    BY <1>1, <1>6, FeedIs DEF FeedCache
  <2> DEFINE kind == tags[fed + 1]
             r == cache'.ring
             u == cache'.cur
  <2>2. /\ kind \in HeaderKind => r = cache.ring /\ u = cache.cur
        /\ kind = "key" => r = FinalizeCurrentGop(cache) /\ u = <<fed + 1>>
        /\ kind \in {"inter", "audio"} => r = cache.ring /\ u = AddToCurrentGop(cache, fed + 1)
    BY <1>2, <2>1, AddTagIs
  <2>3. ASSUME \A i \in DOMAIN r : IsWhole(tags, r[i]), IsWhole(tags, u), IsCurrent(tags, fed + 1, u)
        PROVE  GopsAreWhole'
    BY <2>1, <2>3 DEF GopsAreWhole, IsWhole, IsCurrent
  <2> HIDE DEF r, u
  \* The current GOP stays as it is: the tag does not belong to it, or it is full.
  <2>4. ASSUME r = cache.ring, u = cache.cur, kind # "key",
               kind \notin MediaKind \/ u = << >> \/ ~(Len(u) < MaxFrames)
        PROVE  GopsAreWhole'
    <3>1. IsCurrent(tags, fed + 1, u)
      <4> SUFFICES ASSUME u # << >>
                   PROVE  /\ \A j \in (u[1] + 1)..(fed + 1) : tags[j] # "key"
                          /\ Len(u) < MaxFrames =>
                               \A j \in u[1]..(fed + 1) : tags[j] \in MediaKind => j \in Range(u)
        BY DEF IsCurrent
      <4>1. u[1] \in 1..fed
        BY <1>2, <2>4, GopRange
      <4>2. /\ \A j \in (u[1] + 1)..(fed + 1) : j \in (u[1] + 1)..fed \/ j = fed + 1
            /\ \A j \in u[1]..(fed + 1) : j \in u[1]..fed \/ j = fed + 1
        BY <1>2, <4>1
      <4> QED
        BY <1>4, <2>4, <4>2 DEF IsCurrent
    <3> QED
      BY <1>4, <2>3, <2>4, <3>1
  <2>5. CASE kind \in HeaderKind
    <3>1. kind # "key" /\ kind \notin MediaKind
      BY <2>5 DEF HeaderKind, MediaKind
    <3> QED
      BY <2>2, <2>4, <2>5, <3>1
  <2>6. CASE kind = "key"
    <3>1. r = FinalizeCurrentGop(cache) /\ u = <<fed + 1>>
      BY <2>2, <2>6
    <3>2. \A i \in DOMAIN r : IsWhole(tags, r[i])
      <4>1. \A i \in DOMAIN r : r[i] = cache.cur \/ \E j \in DOMAIN cache.ring : r[i] = cache.ring[j]
        BY <1>2, <3>1, FinalizeIs
      <4> QED
        BY <1>4, <4>1
    <3>3. Range(u) = {fed + 1} /\ u[1] = fed + 1
      <4>1. u[1] = fed + 1 /\ DOMAIN u = 1..1 /\ 1..1 = {1}
        BY <3>1
      <4> QED
        BY <4>1 DEF Range
    <3>4. IsWhole(tags, u)
      BY <1>2, <2>6, <3>3 DEF IsWhole
    <3>5. IsCurrent(tags, fed + 1, u)
      BY <1>2, <2>6, <3>3 DEF IsCurrent
    <3> QED
      BY <2>3, <3>2, <3>4, <3>5
  <2>7. CASE kind \in {"inter", "audio"}
    <3>1. r = cache.ring /\ u = AddToCurrentGop(cache, fed + 1) /\ kind # "key"
      BY <2>2, <2>7
    <3>2. CASE ~(cache.cur # << >> /\ Len(cache.cur) < MaxFrames)
      BY <2>4, <3>1, <3>2 DEF AddToCurrentGop
    <3>3. CASE cache.cur # << >> /\ Len(cache.cur) < MaxFrames
      <4> DEFINE g == cache.cur
                 i1 == fed + 1
      <4>1. u = Append(g, i1)
        BY <3>1, <3>3 DEF AddToCurrentGop
      <4>2. /\ g \in Seq(1..i1) /\ i1 \in 1..i1 /\ g \in Seq(1..fed)
            /\ g[1] \in Range(g) /\ g[1] \in 1..fed /\ \A i \in Range(g) : i \in 1..fed
        <5>1. 1..fed \subseteq 1..i1 /\ i1 \in 1..i1
          BY <1>2
        <5>2. g \in Seq(1..i1)
          BY <1>2, <5>1, SeqMonotonic
        <5>3. g[1] \in Range(g) /\ g[1] \in 1..fed /\ \A i \in Range(g) : i \in 1..fed
          BY <1>2, <3>3, GopRange
        <5> QED
          BY <1>2, <5>1, <5>2, <5>3
      <4>3. Range(u) = Range(g) \cup {i1}
        BY <4>1, <4>2, RangeAppend
      <4>4. u[1] = g[1]
        <5>1. Len(g) \in Nat /\ Len(g) # 0
          BY <3>3, <4>2, EmptySeq, LenProperties
        <5>2. 1 \in 1..Len(g)
          BY <5>1
        <5> QED
          BY <4>1, <4>2, <5>2, AppendProperties
      <4>5. /\ \A j \in (g[1] + 1)..fed : tags[j] # "key"
            /\ \A j \in g[1]..fed : tags[j] \in MediaKind => j \in Range(g)
        BY <1>4, <3>3 DEF IsCurrent
      <4>6. /\ \A j \in (g[1] + 1)..i1 : j \in (g[1] + 1)..fed \/ j = i1
            /\ \A j \in g[1]..i1 : j \in g[1]..fed \/ j = i1
            /\ g[1] <= i1
        BY <1>2, <4>2
      <4>7. /\ \A j \in (g[1] + 1)..i1 : tags[j] # "key"
            /\ \A j \in g[1]..i1 : tags[j] \in MediaKind => j \in Range(u)
        BY <3>1, <4>3, <4>5, <4>6
      <4>8. tags[g[1]] = "key"
        BY <1>4, <4>2 DEF IsWhole
      <4> HIDE DEF g, i1
      <4>9. ASSUME NEW i \in Range(u)
            PROVE  /\ u[1] \in Range(u) /\ u[1] <= i /\ tags[u[1]] = "key"
                   /\ \A j \in (u[1] + 1)..i : tags[j] # "key"
                   /\ \A j \in u[1]..i : tags[j] \in MediaKind => j \in Range(u)
        <5>1. CASE i = i1
          BY <4>2, <4>3, <4>4, <4>6, <4>7, <4>8, <5>1
        <5>2. CASE i \in Range(g)
          <6>1. /\ g[1] <= i /\ \A j \in (g[1] + 1)..i : tags[j] # "key"
                /\ \A j \in g[1]..i : tags[j] \in MediaKind => j \in Range(g)
            BY <1>4, <5>2 DEF IsWhole, g
          <6> QED
            BY <4>2, <4>3, <4>4, <4>8, <6>1
        <5> QED
          BY <4>3, <5>1, <5>2
      <4>10. IsWhole(tags, u)
        BY <4>9 DEF IsWhole
      <4>11. IsCurrent(tags, fed + 1, u)
        BY <4>4, <4>7 DEF IsCurrent, i1
      <4> QED
        BY <1>4, <2>3, <3>1, <4>10, <4>11
    <3> QED
      BY <3>2, <3>3
  <2> QED
    BY <2>1, <2>5, <2>6, <2>7 DEF MediaKind
<1>7. CASE UNCHANGED <<tags, fed, cache>>
  BY <1>7 DEF GopsAreWhole, IsWhole, IsCurrent
<1> QED
  BY <1>5, <1>6, <1>7
     DEF Next, ViewerStep, PullFails, Retry, StreamEnds, Stop, Connect, Reject, Close, Greet, GreetFails,
         RemoveClient, ReadStartup, Subscribe, StartupFails, Lagged, Drop, Send, SendFails, NoticeClose,
         vars, pullVars

\* For all sizes of the cache, its GOPs hold each picture with its key frame and
\* all that was received in between, though GOPs are cut short and evicted
\* (get_startup_tags writes them one after another).
LEMMA CacheIsWhole == Spec => []Whole(CachedTags(cache))
<1>1. Init => GopsAreWhole
  <2> SUFFICES ASSUME Init PROVE GopsAreWhole
    OBVIOUS
  <2>1. cache.ring = << >> /\ cache.cur = << >>
    BY DEF Init, EmptyCache
  <2>2. DOMAIN cache.ring = {} /\ DOMAIN cache.cur = {}
    BY <2>1
  <2>3. Range(cache.cur) = {}
    BY <2>2 DEF Range
  <2> QED
    BY <2>1, <2>2, <2>3 DEF GopsAreWhole, IsWhole, IsCurrent
\* A GOP that is whole has what its pictures need.
<1>2. ASSUME NEW n \in Nat, NEW g \in Seq(1..n), IsWhole(tags, g), NEW i \in Range(g)
      PROVE  KeyOf(i) # 0 /\ \A j \in KeyOf(i)..i : tags[j] \in MediaKind => j \in Range(g)
  <2>1. /\ g[1] \in Range(g) /\ g[1] <= i /\ tags[g[1]] = "key"
        /\ \A j \in (g[1] + 1)..i : tags[j] # "key"
        /\ \A j \in g[1]..i : tags[j] \in MediaKind => j \in Range(g)
    BY <1>2 DEF IsWhole
  <2>2. g[1] \in 1..n /\ i \in 1..n
    BY <1>2, <2>1, GopRange
  <2> DEFINE keys == {k \in 1..i : tags[k] = "key"}
  <2>3. g[1] \in keys
    BY <2>1, <2>2
  <2>4. \A k \in keys : k <= g[1]
    <3> SUFFICES ASSUME NEW k \in keys, k > g[1] PROVE FALSE
      BY <2>2
    <3>1. k \in (g[1] + 1)..i
      BY <2>2
    <3> QED
      BY <2>1, <3>1
  <2>5. KeyOf(i) = CHOOSE k \in keys : \A j \in keys : j <= k
    BY <2>3 DEF KeyOf
  <2>6. \A k \in keys : k \in Int
    OBVIOUS
  <2> HIDE DEF keys
  <2>7. KeyOf(i) \in keys /\ \A j \in keys : j <= KeyOf(i)
    BY <2>3, <2>4, <2>5
  <2>8. KeyOf(i) = g[1]
    <3>1. KeyOf(i) <= g[1] /\ g[1] <= KeyOf(i) /\ KeyOf(i) \in Int
      BY <2>3, <2>4, <2>6, <2>7
    <3> QED
      BY <2>2, <3>1
  <2> QED
    BY <2>1, <2>2, <2>8
<1>3. TypeOK /\ GopsAreWhole => Whole(CachedTags(cache))
  <2> SUFFICES ASSUME TypeOK, GopsAreWhole, NEW i \in CachedTags(cache)
               PROVE  KeyOf(i) # 0 /\ \A j \in KeyOf(i)..i : tags[j] \in MediaKind => j \in CachedTags(cache)
    BY DEF Whole
  <2>1. /\ fed \in Nat /\ cache.ring \in Seq(Seq(1..fed)) /\ cache.cur \in Seq(1..fed)
    BY DEF TypeOK, Cache
  <2>2. \A x \in DOMAIN cache.ring : cache.ring[x] \in Seq(1..fed)
    BY <2>1, LenProperties, ElementOfSeq
  <2>3. PICK g \in Seq(1..fed) : i \in Range(g) /\ IsWhole(tags, g) /\ Range(g) \subseteq CachedTags(cache)
    <3>1. CASE i \in Range(cache.cur)
      BY <2>1, <3>1 DEF CachedTags, GopsAreWhole
    <3>2. CASE \E x \in DOMAIN cache.ring : i \in Range(cache.ring[x])
      <4>1. PICK x \in DOMAIN cache.ring : i \in Range(cache.ring[x])
        BY <3>2
      <4>2. Range(cache.ring[x]) \subseteq CachedTags(cache)
        BY <4>1 DEF CachedTags
      <4> QED
        BY <2>2, <4>1, <4>2 DEF GopsAreWhole
    <3> QED
      BY <3>1, <3>2 DEF CachedTags
  <2>4. KeyOf(i) # 0 /\ \A j \in KeyOf(i)..i : tags[j] \in MediaKind => j \in Range(g)
    BY <1>2, <2>1, <2>3
  <2> QED
    BY <2>3, <2>4
<1> QED
  BY <1>1, <1>3, TypeAndCount, GopStep, PTL DEF Spec

-----------------------------------------------------------------------------
(* The FLV relay: the order of what is sent.                               *)

\* Tags that come later do not disturb the order of earlier ones.
LEMMA OrderGrows ==
  ASSUME NEW n \in Nat, NEW f, NEW h, \A i \in 1..n : f[i] = h[i]
  PROVE  /\ \A s \in Seq(1..n) : MediaInOrder(f, s) => MediaInOrder(h, s)
         /\ \A s, t \in Seq(1..n) : Before(f, s, t) => Before(h, s, t)
<1>1. \A s \in Seq(1..n) : \A i \in DOMAIN s : s[i] \in 1..n
  BY LenProperties, ElementOfSeq
<1>2. \A s \in Seq(1..n) : \A i \in Range(s) : i \in 1..n
  BY <1>1 DEF Range
<1>3. ASSUME NEW s \in Seq(1..n), MediaInOrder(f, s) PROVE MediaInOrder(h, s)
  BY <1>1, <1>3 DEF MediaInOrder
<1>4. ASSUME NEW s \in Seq(1..n), NEW t \in Seq(1..n), Before(f, s, t) PROVE Before(h, s, t)
  BY <1>2, <1>4 DEF Before
<1> QED
  BY <1>3, <1>4

\* A later tag may be appended.
LEMMA AppendInOrder ==
  ASSUME NEW n \in Nat, NEW s \in Seq(1..n), NEW x \in 1..n, NEW f, MediaInOrder(f, s),
         \A i \in Range(s) : i < x
  PROVE  MediaInOrder(f, Append(s, x))
<1> DEFINE t == Append(s, x)
<1>1. /\ t \in Seq(1..n) /\ Len(t) = Len(s) + 1 /\ t[Len(s) + 1] = x
      /\ \A i \in 1..Len(s) : t[i] = s[i]
  BY AppendProperties
<1> HIDE DEF t
<1>2. Len(s) \in Nat /\ DOMAIN s = 1..Len(s) /\ DOMAIN t = 1..(Len(s) + 1)
  BY <1>1, LenProperties
<1> SUFFICES ASSUME NEW i \in DOMAIN t, NEW j \in DOMAIN t, i < j, f[t[i]] \in MediaKind, f[t[j]] \in MediaKind
             PROVE  t[i] < t[j]
  BY DEF MediaInOrder, t
<1>3. i \in DOMAIN s /\ t[i] = s[i] /\ s[i] \in Range(s)
  <2>1. i \in 1..Len(s)
    BY <1>2
  <2> QED
    BY <1>1, <1>2, <2>1 DEF Range
<1>4. CASE j = Len(s) + 1
  BY <1>1, <1>3, <1>4
<1>5. CASE j # Len(s) + 1
  <2>1. j \in DOMAIN s
    BY <1>2, <1>5
  <2>2. t[j] = s[j]
    BY <1>1, <1>2, <2>1
  <2> QED
    BY <1>3, <2>1, <2>2 DEF MediaInOrder
<1> QED
  BY <1>4, <1>5

\* The cache stays ordered: headers are headers, and each GOP is in order and
\* comes before those after it.
LEMMA CacheOrderStep == TypeOK /\ IsOrdered(tags, cache) /\ [Next]_vars => IsOrdered(tags, cache)'
<1> SUFFICES ASSUME TypeOK, IsOrdered(tags, cache), [Next]_vars PROVE IsOrdered(tags', cache')
  BY DEF IsOrdered, Headers, MediaInOrder, Before, Range
<1>1. PullTypes
  BY FlvTypeParts
<1>2. /\ Len(tags) \in Nat /\ fed \in Nat /\ fed <= Len(tags) /\ cache \in Cache(fed)
      /\ cache.ring \in Seq(Seq(1..fed)) /\ cache.cur \in Seq(1..fed)
      /\ cache.head \in [HeaderKind -> 0..fed]
  BY <1>1, LenProperties DEF PullTypes, Cache
<1>3. \A i \in DOMAIN cache.ring : cache.ring[i] \in Seq(1..fed)
  BY <1>2, LenProperties, ElementOfSeq
<1>4. /\ \A i \in Headers(cache) : tags[i] \in HeaderKind
      /\ \A i \in DOMAIN cache.ring : MediaInOrder(tags, cache.ring[i]) /\ Before(tags, cache.ring[i], cache.cur)
      /\ \A i, j \in DOMAIN cache.ring : i < j => Before(tags, cache.ring[i], cache.ring[j])
      /\ MediaInOrder(tags, cache.cur)
  BY DEF IsOrdered
<1>5. ASSUME NEW k \in Kind, Broadcast(k) PROVE IsOrdered(tags', cache')
  <2>1. (\A i \in 1..Len(tags) : tags'[i] = tags[i]) /\ UNCHANGED <<cache, fed>>
    BY <1>1, <1>5, BroadcastAdds DEF Broadcast
  <2>2. \A i \in 1..fed : tags[i] = tags'[i]
    <3>1. fed \in Int /\ Len(tags) \in Int /\ fed <= Len(tags)
      BY <1>2
    <3>2. \A i \in 1..fed : i \in 1..Len(tags)
      BY <3>1
    <3> QED
      BY <2>1, <3>2
  <2>3. /\ \A s \in Seq(1..fed) : MediaInOrder(tags, s) => MediaInOrder(tags', s)
        /\ \A s, t \in Seq(1..fed) : Before(tags, s, t) => Before(tags', s, t)
    BY <1>2, <2>2, OrderGrows
  <2>4. \A i \in Headers(cache) : tags'[i] \in HeaderKind
    <3>1. \A i \in Headers(cache) : i \in 1..fed
      BY <1>2 DEF Headers
    <3> QED
      BY <1>4, <2>2, <3>1
  <2>5. IsOrdered(tags', cache)
    BY <1>2, <1>3, <1>4, <2>3, <2>4 DEF IsOrdered
  <2> QED
    BY <2>1, <2>5
<1>6. CASE FeedCache
  <2>1. /\ Len(tags) = fed + 1 /\ tags[fed + 1] \in HeaderKind \cup MediaKind
        /\ cache' = AddTag(cache, fed + 1, tags[fed + 1]) /\ UNCHANGED tags
    BY <1>1, <1>6, FeedIs DEF FeedCache
  <2> DEFINE kind == tags[fed + 1]
             r == cache'.ring
             u == cache'.cur
  <2>2. /\ kind \in HeaderKind => r = cache.ring /\ u = cache.cur
        /\ kind = "key" => r = FinalizeCurrentGop(cache) /\ u = <<fed + 1>>
        /\ kind \in {"inter", "audio"} => r = cache.ring /\ u = AddToCurrentGop(cache, fed + 1)
    BY <1>2, <2>1, AddTagIs
  <2>3. \A i \in Headers(cache') : tags[i] \in HeaderKind
    <3>1. \/ kind \in HeaderKind /\ cache'.head = [cache.head EXCEPT ![kind] = fed + 1]
          \/ cache'.head = cache.head
      BY <1>2, <2>1, AddTagHead
    <3>2. \A i \in Headers(cache') : i \in Headers(cache) \/ (i = fed + 1 /\ kind \in HeaderKind)
      BY <1>2, <3>1 DEF Headers
    <3> QED
      BY <1>4, <3>2
  <2>4. ASSUME \A i \in DOMAIN r : MediaInOrder(tags, r[i]) /\ Before(tags, r[i], u),
               \A i, j \in DOMAIN r : i < j => Before(tags, r[i], r[j]), MediaInOrder(tags, u)
        PROVE  IsOrdered(tags', cache')
    BY <2>1, <2>3, <2>4 DEF IsOrdered
  <2> HIDE DEF r, u
  <2>5. \A s \in Seq(1..fed) : \A i \in Range(s) : i < fed + 1
    BY <1>2, GopRange
  <2>6. CASE r = cache.ring /\ u = cache.cur
    BY <1>4, <2>4, <2>6
  <2>7. CASE kind = "key"
    <3>1. r = FinalizeCurrentGop(cache) /\ u = <<fed + 1>>
      BY <2>2, <2>7
    <3>2. PICK d \in Nat : \A i \in DOMAIN r : /\ i + d \in 1..(Len(cache.ring) + 1)
                                              /\ r[i] = Append(cache.ring, cache.cur)[i + d]
      BY <1>2, <3>1, FinalizeShifts
    <3> DEFINE full == Append(cache.ring, cache.cur)
               m == Len(cache.ring)
    <3>3. m \in Nat /\ DOMAIN cache.ring = 1..m
      BY <1>2, LenProperties
    <3>4. full[m + 1] = cache.cur /\ \A i \in 1..m : full[i] = cache.ring[i]
      BY <1>2, AppendProperties
    <3> HIDE DEF full
    <3>5. \A i \in 1..(m + 1) : i \in DOMAIN cache.ring \/ i = m + 1
      BY <3>3
    <3>6. \A i \in 1..(m + 1) : full[i] \in Seq(1..fed) /\ MediaInOrder(tags, full[i])
      BY <1>2, <1>3, <1>4, <3>3, <3>4, <3>5
    <3>7. ASSUME NEW i \in 1..(m + 1), NEW j \in 1..(m + 1), i < j PROVE Before(tags, full[i], full[j])
      <4>1. i \in DOMAIN cache.ring /\ i \in 1..m
        BY <3>3, <3>7
      <4>2. CASE j = m + 1
        BY <1>4, <3>4, <4>1, <4>2
      <4>3. CASE j \in DOMAIN cache.ring
        BY <1>4, <3>3, <3>4, <3>7, <4>1, <4>3
      <4> QED
        BY <3>5, <4>2, <4>3
    <3>8. \A i \in DOMAIN r : i + d \in 1..(m + 1) /\ r[i] = full[i + d]
      BY <3>2 DEF full
    <3>9. \A i, j \in DOMAIN r : i < j => Before(tags, r[i], r[j])
      <4> SUFFICES ASSUME NEW i \in DOMAIN r, NEW j \in DOMAIN r, i < j PROVE Before(tags, r[i], r[j])
        OBVIOUS
      <4>1. i \in Int /\ j \in Int
        <5>1. DOMAIN r \subseteq Int
          BY <1>2, <3>1, FinalizeIs, LenProperties
        <5> QED
          BY <5>1
      <4>2. i + d < j + d
        BY <4>1
      <4> QED
        BY <3>7, <3>8, <4>2
    <3>10. Range(u) = {fed + 1} /\ MediaInOrder(tags, u)
      <4>1. u[1] = fed + 1 /\ DOMAIN u = 1..1 /\ 1..1 = {1}
        BY <3>1
      <4>2. Range(u) = {fed + 1}
        BY <4>1 DEF Range
      <4>3. MediaInOrder(tags, u)
        BY <4>1 DEF MediaInOrder
      <4> QED
        BY <4>2, <4>3
    <3>11. \A i \in DOMAIN r : MediaInOrder(tags, r[i]) /\ Before(tags, r[i], u)
      BY <2>5, <3>6, <3>8, <3>10 DEF Before
    <3> QED
      BY <2>4, <3>9, <3>10, <3>11
  <2>8. CASE kind \in {"inter", "audio"} /\ ~(r = cache.ring /\ u = cache.cur)
    <3>1. r = cache.ring /\ u = Append(cache.cur, fed + 1)
      BY <2>2, <2>8 DEF AddToCurrentGop
    <3>2. cache.cur \in Seq(1..(fed + 1)) /\ fed + 1 \in 1..(fed + 1) /\ fed + 1 \in Nat
      <4>1. 1..fed \subseteq 1..(fed + 1) /\ fed + 1 \in 1..(fed + 1)
        BY <1>2
      <4> QED
        BY <1>2, <4>1, SeqMonotonic
    <3>3. MediaInOrder(tags, u)
      BY <1>2, <1>4, <2>5, <3>1, <3>2, AppendInOrder
    <3>4. Range(u) = Range(cache.cur) \cup {fed + 1}
      BY <3>1, <3>2, RangeAppend
    <3>5. \A i \in DOMAIN r : Before(tags, r[i], u)
      BY <1>3, <1>4, <2>5, <3>1, <3>4 DEF Before
    <3> QED
      BY <1>4, <2>4, <3>1, <3>3, <3>5
  <2> QED
    BY <2>1, <2>2, <2>6, <2>7, <2>8 DEF MediaKind
<1>7. CASE UNCHANGED <<tags, fed, cache>>
  BY <1>7
<1> QED
  BY <1>5, <1>6, <1>7
     DEF Next, ViewerStep, PullFails, Retry, StreamEnds, Stop, Connect, Reject, Close, Greet, GreetFails,
         RemoveClient, ReadStartup, Subscribe, StartupFails, Lagged, Drop, Send, SendFails, NoticeClose,
         vars, pullVars

LEMMA CacheIsOrdered == Spec => []IsOrdered(tags, cache)
<1>1. Init => IsOrdered(tags, cache)
  <2> SUFFICES ASSUME Init PROVE IsOrdered(tags, cache)
    OBVIOUS
  <2>1. cache.ring = << >> /\ cache.cur = << >> /\ cache.head = [k \in HeaderKind |-> 0]
    BY DEF Init, EmptyCache
  <2>2. DOMAIN cache.ring = {} /\ DOMAIN cache.cur = {} /\ Headers(cache) = {}
    BY <2>1 DEF Headers
  <2> QED
    BY <2>2 DEF IsOrdered, MediaInOrder
<1> QED
  BY <1>1, FlvTypeCorrect, CacheOrderStep, PTL DEF Spec

\* What a viewer was given from the cache comes before what it is given from
\* the channel, and that is behind the place its subscription has reached.
OrderOf(f, w, k, b, s) ==
    /\ MediaInOrder(f, b) /\ MediaInOrder(f, s) /\ Before(f, b, s)
    /\ \A i \in Range(s) : i < k
    /\ w = "live" => \A i \in Range(b) : i < k
    /\ w \in {"new", "counted", "greeted", "reading"} => s = << >>

OrderInv == \A v \in Viewer : OrderOf(tags, at[v], next[v], startup[v], sent[v])

LEMMA OrderStep == TypeOK /\ IsOrdered(tags, cache) /\ OrderInv /\ [Next]_vars => OrderInv'
<1> SUFFICES ASSUME TypeOK, IsOrdered(tags, cache), OrderInv, [Next]_vars, NEW w \in Viewer
             PROVE  OrderOf(tags', at'[w], next'[w], startup'[w], sent'[w])
  BY DEF OrderInv, OrderOf, MediaInOrder, Before, Range
<1>1. PullTypes /\ ViewerTypes
  BY FlvTypeParts
<1>2. Len(tags) \in Nat /\ at \in [Viewer -> Place] /\ next[w] \in 1..(Len(tags) + 1)
      /\ startup[w] \in Seq(1..Len(tags)) /\ sent[w] \in Seq(1..Len(tags))
  BY <1>1, LenProperties DEF PullTypes, ViewerTypes
<1>3. OrderOf(tags, at[w], next[w], startup[w], sent[w])
  BY DEF OrderInv
<1>4. (\A i \in Range(startup[w]) : i \in 1..Len(tags)) /\ (\A i \in Range(sent[w]) : i \in 1..Len(tags))
  BY <1>2, GopRange
<1>5. ASSUME NEW k \in Kind, Broadcast(k) PROVE OrderOf(tags', at'[w], next'[w], startup'[w], sent'[w])
  <2>1. (\A i \in 1..Len(tags) : tags[i] = tags'[i]) /\ UNCHANGED <<at, next, startup, sent>>
    BY <1>1, <1>5, BroadcastAdds DEF Broadcast, readVars, sentVars
  <2>2. OrderOf(tags', at[w], next[w], startup[w], sent[w])
    BY <1>2, <1>3, <2>1, OrderGrows DEF OrderOf
  <2> QED
    BY <2>1, <2>2
\* A viewer that another step is about, or whose task ends, or goes on to be greeted.
<1>6. ASSUME UNCHANGED <<tags, next, startup, sent>>,
             \/ at'[w] = at[w]
             \/ at'[w] \in {"gone", "leaked"}
             \/ at[w] = "new" /\ at'[w] = "counted"
             \/ at[w] = "counted" /\ at'[w] = "greeted"
      PROVE  OrderOf(tags', at'[w], next'[w], startup'[w], sent'[w])
  BY <1>3, <1>6 DEF OrderOf
<1>7. CASE FeedCache \/ PullFails \/ Retry \/ StreamEnds \/ Stop \/ UNCHANGED vars
  BY <1>6, <1>7 DEF FeedCache, PullFails, Retry, StreamEnds, Stop, vars, readVars, sentVars
<1>8. ASSUME NEW v \in Viewer, RemoveClient(v) PROVE OrderOf(tags', at'[w], next'[w], startup'[w], sent'[w])
  BY <1>2, <1>6, <1>8 DEF RemoveClient, pullVars, readVars, sentVars
<1>9. ASSUME NEW v \in Viewer, Connect(v) \/ Reject(v) \/ Close(v) \/ Greet(v) \/ (GreetFails(v) /\ v \notin WsViewer)
      PROVE  OrderOf(tags', at'[w], next'[w], startup'[w], sent'[w])
  BY <1>2, <1>6, <1>9 DEF Connect, Reject, Close, Greet, GreetFails, pullVars, readVars, sentVars
<1>10. ASSUME NEW v \in Viewer, v # w, UNCHANGED tags, at'[w] = at[w], next'[w] = next[w], startup'[w] = startup[w],
              sent'[w] = sent[w]
       PROVE  OrderOf(tags', at'[w], next'[w], startup'[w], sent'[w])
  BY <1>3, <1>10
\* The cache is read before anything is sent.
<1>11. ASSUME NEW v \in Viewer, ReadStartup(v) PROVE OrderOf(tags', at'[w], next'[w], startup'[w], sent'[w])
  <2>1. CASE v # w
    BY <1>1, <1>10, <1>11, <2>1 DEF ReadStartup, pullVars, readVars, ViewerTypes
  <2>2. CASE v = w
    <3>1. /\ at'[w] = "reading" /\ startup'[w] = GetStartupTags(cache) /\ UNCHANGED <<tags, next, sent>>
          /\ at[w] = "greeted"
      BY <1>1, <1>11, <2>2 DEF ReadStartup, pullVars, readVars, ViewerTypes
    <3>2. MediaInOrder(tags, GetStartupTags(cache))
      BY <1>1, StartupTagsAre DEF PullTypes
    <3>3. sent[w] = << >>
      BY <1>3, <3>1 DEF OrderOf
    <3>4. DOMAIN << >> = {}
      OBVIOUS
    <3>5. Range(sent[w]) = {}
      BY <3>3, <3>4 DEF Range
    <3>6. Before(tags, GetStartupTags(cache), sent[w])
      BY <3>5 DEF Before
    <3>7. MediaInOrder(tags, sent[w])
      BY <1>3 DEF OrderOf
    <3> QED
      BY <3>1, <3>2, <3>3, <3>5, <3>6, <3>7 DEF OrderOf
  <2> QED
    BY <2>1, <2>2
\* The subscription begins after all the tags there are.
<1>12. ASSUME NEW v \in Viewer, Subscribe(v) PROVE OrderOf(tags', at'[w], next'[w], startup'[w], sent'[w])
  <2>1. CASE v # w
    BY <1>1, <1>10, <1>12, <2>1 DEF Subscribe, pullVars, sentVars, ViewerTypes
  <2>2. CASE v = w
    <3>1. /\ at'[w] = "live" /\ next'[w] = Len(tags) + 1 /\ UNCHANGED <<tags, startup, sent>>
      BY <1>1, <1>12, <2>2 DEF Subscribe, pullVars, sentVars, ViewerTypes
    <3>2. (\A i \in Range(startup[w]) : i < Len(tags) + 1) /\ (\A i \in Range(sent[w]) : i < Len(tags) + 1)
      BY <1>2, <1>4
    <3> QED
      BY <1>3, <3>1, <3>2 DEF OrderOf
  <2> QED
    BY <2>1, <2>2
\* The place only moves on.
<1>13. ASSUME NEW v \in Viewer, Lagged(v) \/ Drop(v) PROVE OrderOf(tags', at'[w], next'[w], startup'[w], sent'[w])
  <2>1. CASE v # w
    BY <1>1, <1>10, <1>13, <2>1 DEF Lagged, Drop, pullVars, sentVars, ViewerTypes
  <2>2. CASE v = w
    <3>1. next'[w] \in Int /\ next[w] < next'[w] /\ UNCHANGED <<tags, at, startup, sent>>
      BY <1>1, <1>2, <1>13, <2>2, OldestIs DEF Lagged, Drop, pullVars, sentVars, ViewerTypes
    <3>2. \A i \in 1..Len(tags) : i < next[w] => i < next'[w]
      BY <1>2, <3>1
    <3>3. /\ \A i \in Range(sent[w]) : i < next'[w]
          /\ at[w] = "live" => \A i \in Range(startup[w]) : i < next'[w]
      BY <1>3, <1>4, <3>2 DEF OrderOf
    <3> QED
      BY <1>3, <3>1, <3>3 DEF OrderOf
  <2> QED
    BY <2>1, <2>2
<1>14. ASSUME NEW v \in Viewer, Send(v) PROVE OrderOf(tags', at'[w], next'[w], startup'[w], sent'[w])
  <2>1. CASE v # w
    BY <1>1, <1>10, <1>14, <2>1 DEF Send, pullVars, ViewerTypes
  <2>2. CASE v = w
    <3>1. /\ next'[w] = next[w] + 1 /\ sent'[w] = Append(sent[w], next[w]) /\ UNCHANGED <<tags, at, startup>>
          /\ at[w] = "live" /\ next[w] <= Len(tags)
      BY <1>1, <1>14, <2>2 DEF Send, Available, pullVars, ViewerTypes
    <3>2. next[w] \in 1..Len(tags)
      BY <1>2, <3>1
    <3>3. Range(sent'[w]) = Range(sent[w]) \cup {next[w]}
      BY <1>2, <3>1, <3>2, RangeAppend
    <3>4. (\A i \in Range(sent[w]) : i < next[w]) /\ (\A i \in Range(startup[w]) : i < next[w])
      BY <1>3, <3>1 DEF OrderOf
    <3>5. MediaInOrder(tags, sent'[w])
      BY <1>2, <1>3, <3>1, <3>2, <3>4, AppendInOrder DEF OrderOf
    <3>6. Before(tags, startup[w], sent'[w])
      BY <1>3, <3>3, <3>4 DEF OrderOf, Before
    <3>7. /\ \A i \in 1..Len(tags) : i < next[w] => i < next[w] + 1
          /\ next[w] < next[w] + 1
      BY <3>2
    <3>8. (\A i \in Range(sent'[w]) : i < next'[w]) /\ (\A i \in Range(startup[w]) : i < next'[w])
      BY <1>4, <3>1, <3>3, <3>4, <3>7
    <3> QED
      BY <1>3, <3>1, <3>5, <3>6, <3>8 DEF OrderOf
  <2> QED
    BY <2>1, <2>2
<1> QED
  BY <1>5, <1>7, <1>8, <1>9, <1>11, <1>12, <1>13, <1>14
     DEF Next, ViewerStep, GreetFails, StartupFails, SendFails, NoticeClose

\* For any viewers and sizes, no picture or sound is written to a viewer twice
\* or after a later one: the cache is read before the channel is subscribed
\* to, the puller gives a tag to the channel first, and a viewer that lags moves
\* forward only.
THEOREM SentIsInOrder == Spec => []SentInOrder
<1>1. Init => OrderInv
  <2> SUFFICES ASSUME Init, NEW v \in Viewer PROVE OrderOf(tags, at[v], next[v], startup[v], sent[v])
    BY DEF OrderInv
  <2>1. startup[v] = << >> /\ sent[v] = << >> /\ DOMAIN << >> = {}
    BY DEF Init
  <2>2. Range(startup[v]) = {} /\ Range(sent[v]) = {}
    BY <2>1 DEF Range
  <2> QED
    BY <2>1, <2>2 DEF OrderOf, MediaInOrder, Before
<1>2. TypeOK /\ OrderInv => SentInOrder
  <2> SUFFICES ASSUME TypeOK, OrderInv, NEW v \in Viewer PROVE MediaInOrder(tags, startup[v] \o sent[v])
    BY DEF SentInOrder
  <2>1. startup[v] \in Seq(1..Len(tags)) /\ sent[v] \in Seq(1..Len(tags))
    BY DEF TypeOK
  <2>2. MediaInOrder(tags, startup[v]) /\ MediaInOrder(tags, sent[v]) /\ Before(tags, startup[v], sent[v])
    BY DEF OrderInv, OrderOf
  <2> QED
    BY <2>1, <2>2, ConcatIs
<1> QED
  BY <1>1, <1>2, FlvTypeCorrect, CacheIsOrdered, OrderStep, PTL DEF Spec

\* For all sizes of the cache, what get_startup_tags returns is whole: headers,
\* and beginnings of GOPs from which nothing that was received is left out.
THEOREM StartupStaysWhole == Spec => []StartupIsWhole
<1>1. TypeOK /\ IsOrdered(tags, cache) /\ Whole(CachedTags(cache)) => StartupIsWhole
  <2> SUFFICES ASSUME TypeOK, IsOrdered(tags, cache), Whole(CachedTags(cache)) PROVE StartupIsWhole
    OBVIOUS
  <2>1. Range(GetStartupTags(cache)) = Headers(cache) \cup CachedTags(cache)
    BY StartupTagsAre DEF TypeOK
  <2>2. \A i \in Headers(cache) : tags[i] # "inter"
    BY DEF IsOrdered, HeaderKind
  <2>3. \A i \in CachedTags(cache) : tags[i] = "inter" =>
           KeyOf(i) # 0 /\ \A j \in KeyOf(i)..i : tags[j] \in MediaKind => j \in CachedTags(cache)
    BY DEF Whole
  <2> QED
    BY <2>1, <2>2, <2>3 DEF StartupIsWhole, Whole
<1> QED
  BY <1>1, CacheIsOrdered, CacheIsWhole, FlvTypeCorrect, PTL
=============================================================================
