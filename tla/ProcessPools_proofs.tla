-------------------------- MODULE ProcessPools_proofs --------------------------
(***************************************************************************)
(* Proofs about the process pools, for any number of children, sessions,   *)
(* clients, crashes and signals: of BalancePool, that no more connections  *)
(* are stranded than events were merged, messages lost and accepts failed, *)
(* and what the parent believes of the load of a child; of ProcessPool,    *)
(* how both its programs spread connections over their children.           *)
(***************************************************************************)
EXTENDS BalancePool, MCProcessPool, FiniteSetTheorems, SequenceTheorems, WellFoundedInduction,
  TLAPS
-----------------------------------------------------------------------------
(* BalancePool. *)

Byte == 0..255

Types ==
  /\ backlog \in Nat /\ listenEdge \in BOOLEAN
  /\ m_busy_ratio \in [Child -> Int]
  /\ batch \in Seq(0..N+1)
  /\ proc \in [Child -> {"running", "zombie", "reaped"}]
  /\ sessions \in [Child -> Nat] /\ \A c \in Child : sessions[c] <= ConnCnt
  /\ cbatch \in [Child -> SUBSET {"pipe", "sig"}]
  /\ toChild \in [Child -> Nat] /\ childEdge \in [Child -> BOOLEAN]
  /\ cpc \in [Child -> {"setup", "loop"}]
  /\ toParent \in [Child -> Seq(Byte)]
  /\ merged \in Nat /\ lost \in Nat /\ failed \in Nat

(* A child whose epoll_wait reported its pipe finds a message there, and    *)
(* another one if the pipe's event is pending again.                        *)
MessageThere ==
  \A c \in Child :
    /\ "pipe" \in cbatch[c] => toChild[c] > (IF childEdge[c] THEN 1 ELSE 0)
    /\ cpc[c] = "setup" => cbatch[c] = {}

(* The last report on its way to the parent is the child's load, and when   *)
(* none is on its way the ratio is at least that.                           *)
LastReportTrue ==
  \A c \in Child :
    LET reports == toParent[c]
    IN  /\ \A i \in 1..Len(reports) : reports[i] <= 2 * ConnCnt
        /\ proc[c] = "running" =>
             IF reports = <<>> THEN 2 * sessions[c] <= m_busy_ratio[c]
             ELSE reports[Len(reports)] = 2 * sessions[c]

BalanceInv ==
  /\ Types
  /\ MessageThere
  /\ BacklogAccounted
  /\ ConnCnt <= 63 => LastReportTrue
-----------------------------------------------------------------------------
(* Lemmas about the operators of the module. *)

(* The search for the least busy child ends at a child. *)
LEMMA FreestIsChild ==
  ASSUME Types PROVE get_most_free_srv \in Child
<1> DEFINE r == m_busy_ratio
           First(c, n) == /\ \A d \in 0..n : r[c] <= r[d]
                          /\ \A d \in 0..c-1 : r[c] < r[d]
           Missing == {n \in Child : ~ \E c \in 0..n : First(c, n)}
           R == {ss \in Nat \X Nat : ss[1] < ss[2]}
<1>1. N \in Nat \ {0} /\ Child = 0..N-1 /\ r \in [Child -> Int]
  BY PoolAssumption DEF PoolAssumption, Child, Types
<1>2. ASSUME NEW n \in Missing, \A k \in Missing : ~(k < n) PROVE FALSE
  <2>1. n # 0
    <3> SUFFICES ASSUME n = 0 PROVE FALSE
      OBVIOUS
    <3>1. First(0, 0)
      BY <1>1
    <3> QED
      BY <3>1, <1>2
  <2>2. n - 1 \in Child /\ n \in Child /\ n - 1 < n
    BY <1>1, <2>1
  <2>3. PICK c \in 0..n-1 : First(c, n - 1)
    BY <2>2, <1>2
  <2>4. c \in Int /\ c \in Child /\ \A d \in 0..n : d \in Child /\ r[d] \in Int /\ r[c] \in Int
    BY <1>1, <2>2
  <2>5. CASE r[c] <= r[n]
    <3>1. First(c, n)
      BY <2>2, <2>3, <2>5, <1>1
    <3> QED
      BY <3>1, <2>2, <2>3, <1>1, <1>2
  <2>6. CASE r[n] < r[c]
    <3>1. \A d \in 0..n-1 : r[n] < r[d]
      BY <2>2, <2>3, <2>4, <2>6, <1>1
    <3>2. First(n, n)
      BY <3>1, <2>2, <2>4, <1>1
    <3> QED
      BY <3>2, <2>2, <1>1, <1>2
  <2> QED
    BY <2>4, <2>5, <2>6, <2>2, <1>1
<1>3. Missing = {}
  <2> SUFFICES ASSUME Missing # {} PROVE FALSE
    OBVIOUS
  <2>1. IsWellFoundedOn(R, Nat)
    BY NatLessThanWellFounded DEF OpToRel
  <2>2. Missing \in SUBSET Nat
    BY <1>1
  <2>3. PICK n \in Missing : \A k \in Missing : ~(<<k, n>> \in R)
    <3> HIDE DEF R, Missing
    <3> QED
      BY <2>1, <2>2, WFMin
  <2>4. \A k \in Missing : ~(k < n)
    <3> HIDE DEF Missing
    <3> QED
      BY <2>2, <2>3
  <2> HIDE DEF Missing
  <2> QED
    BY <1>2, <2>4
<1>4. \E c \in 0..N-1 : First(c, N - 1)
  <2>1. N - 1 \in Child
    BY <1>1
  <2> QED
    BY <1>3, <2>1
<1>5. \E c \in Child : /\ \A d \in Child : m_busy_ratio[c] <= m_busy_ratio[d]
                       /\ \A d \in 0..c-1 : m_busy_ratio[c] < m_busy_ratio[d]
  BY <1>1, <1>4
<1> QED
  BY <1>5 DEF get_most_free_srv

(* What epoll_wait stores is the set of what has fired, in some order. *)
LEMMA OrderHasAll ==
  ASSUME NEW S, IsFiniteSet(S), NEW order \in SetToSeqs(S)
  PROVE  order \in Seq(S) /\ ToSet(order) = S
<1> DEFINE n == Cardinality(S)
           T == ToSet(order)
<1>1. n \in Nat
  BY FS_CardinalityType
<1>2. order \in [1..n -> S] /\ \A i, j \in 1..n : i # j => order[i] # order[j]
  BY DEF SetToSeqs
<1> HIDE DEF n
<1>3. order \in Seq(S)
  BY <1>1, <1>2
<1>4. T = {order[i] : i \in 1..n} /\ T \in SUBSET S
  BY <1>2 DEF ToSet
<1>5. order \in Injection(1..n, S)
  BY <1>2 DEF Injection, IsInjective
<1>6. Cardinality(1..n) = n
  BY <1>1, FS_Interval
<1>7. order \in Surjection(1..n, S)
  <2>1. IsFiniteSet(1..n) /\ Cardinality(1..n) = Cardinality(S)
    BY <1>1, <1>6, FS_Interval DEF n
  <2> DEFINE I == 1..n
  <2>2. order \in Injection(I, S) /\ Cardinality(I) = Cardinality(S)
    BY <1>5, <2>1
  <2>3. order \in Surjection(I, S)
    <3> HIDE DEF I
    <3> QED
      BY <2>2, FS_Injection
  <2> QED
    BY <2>3
<1>8. \A s \in S : \E i \in 1..n : order[i] = s
  BY <1>7 DEF Surjection
<1> QED
  BY <1>3, <1>4, <1>8

(* Sets of children are finite, and a child more or less counts one.        *)
LEMMA ChildrenCounted ==
  ASSUME NEW S \in SUBSET Child, NEW c \in Child
  PROVE  /\ Cardinality(S) \in Nat
         /\ Cardinality(S \cup {c}) = IF c \in S THEN Cardinality(S) ELSE Cardinality(S) + 1
         /\ Cardinality(S \ {c}) = IF c \in S THEN Cardinality(S) - 1 ELSE Cardinality(S)
<1>1. IsFiniteSet(Child)
  BY PoolAssumption, FS_Interval DEF PoolAssumption, Child
<1>2. IsFiniteSet(S)
  BY <1>1, FS_Subset
<1>3. Cardinality(S) \in Nat
  BY <1>2, FS_CardinalityType
<1>4. Cardinality(S \cup {c}) = IF c \in S THEN Cardinality(S) ELSE Cardinality(S) + 1
  BY <1>2, FS_AddElement
<1>5. Cardinality(S \ {c}) = IF c \in S THEN Cardinality(S) - 1 ELSE Cardinality(S)
  BY <1>2, FS_RemoveElement
<1> QED
  BY <1>3, <1>4, <1>5
-----------------------------------------------------------------------------
(* The steps. *)

(* The events of the children's pipes, pending and in hand.                 *)
Coming == Cardinality(Announced) + Cardinality(Reading)

(* The right-hand side of BacklogAccounted, of its parts. *)
Covered(edge, events, coming, m, l, f) ==
  (IF edge THEN 1 ELSE 0) + (IF Listener \in ToSet(events) THEN 1 ELSE 0)
    + coming + m + l + f

(* Both sets are counted by natural numbers.                                *)
LEMMA ComingIsNat ==
  /\ Announced \in SUBSET Child /\ Reading \in SUBSET Child
  /\ Cardinality(Announced) \in Nat /\ Cardinality(Reading) \in Nat
  /\ Coming \in Nat
<1>1. 0 \in Child
  BY PoolAssumption DEF PoolAssumption, Child
<1>2. Announced \in SUBSET Child /\ Reading \in SUBSET Child
  BY DEF Announced, Reading
<1>3. Cardinality(Announced) \in Nat /\ Cardinality(Reading) \in Nat
  BY <1>1, <1>2, ChildrenCounted
<1> QED
  BY <1>2, <1>3 DEF Coming

(* And in the next state.                                                   *)
LEMMA ComingNextIsNat ==
  Coming' \in Nat /\ Cardinality(Announced') \in Nat /\ Cardinality(Reading') \in Nat
<1>1. 0 \in Child
  BY PoolAssumption DEF PoolAssumption, Child
<1>2. Announced' \in SUBSET Child /\ Reading' \in SUBSET Child
  BY DEF Announced, Reading
<1>3. Cardinality(Announced') \in Nat /\ Cardinality(Reading') \in Nat
  BY <1>1, <1>2, ChildrenCounted
<1> QED
  BY <1>3 DEF Coming

(* BacklogAccounted in these terms. *)
LEMMA AccountedParts ==
  BacklogAccounted <=> backlog <= Covered(listenEdge, batch, Coming, merged, lost, failed)
<1>1. Cardinality(Announced) \in Nat /\ Cardinality(Reading) \in Nat
  BY ComingIsNat
<1> QED
  BY <1>1 DEF BacklogAccounted, Covered, Coming

(* The same of the next state. *)
LEMMA AccountedPartsNext ==
  BacklogAccounted' <=>
    backlog' <= Covered(listenEdge', batch', Coming', merged', lost', failed')
BY ComingNextIsNat DEF BacklogAccounted, Covered, Coming

(* Nothing waits at the start. *)
LEMMA BalanceInit == Init => BalanceInv
<1> SUFFICES ASSUME Init PROVE BalanceInv
  OBVIOUS
<1>1. N \in Nat \ {0} /\ Child = 0..N-1 /\ ConnCnt \in Nat
  BY PoolAssumption DEF PoolAssumption, Child
<1>2. Types
  BY <1>1 DEF Init, Types
<1>3. MessageThere
  BY DEF Init, MessageThere
<1>4. BacklogAccounted
  <2>1. backlog = 0 /\ listenEdge = FALSE /\ merged = 0 /\ lost = 0 /\ failed = 0
    BY DEF Init
  <2>2. Coming \in Nat
    BY ComingIsNat
  <2>3. backlog <= Covered(listenEdge, batch, Coming, merged, lost, failed)
    BY <2>1, <2>2 DEF Covered
  <2> QED
    BY <2>3, AccountedParts
<1>5. LastReportTrue
  <2>1. \A c \in Child : toParent[c] = <<>> /\ sessions[c] = 0 /\ m_busy_ratio[c] = 0
    BY DEF Init
  <2> QED
    BY <2>1, <1>1 DEF LastReportTrue
<1> QED
  BY <1>2, <1>3, <1>4, <1>5 DEF BalanceInv

(* A step that touches neither connections nor messages nor reports, and    *)
(* leaves the children as many events.                                      *)
LEMMA NothingMoves ==
  ASSUME BalanceInv,
         UNCHANGED <<listenVars, m_busy_ratio, batch, proc, sessions, toChild, toParent, ghostVars>>,
         cbatch' \in [Child -> SUBSET {"pipe", "sig"}], childEdge' \in [Child -> BOOLEAN],
         cpc' \in [Child -> {"setup", "loop"}],
         MessageThere', Coming' = Coming
  PROVE  BalanceInv'
<1>0. Types /\ MessageThere /\ BacklogAccounted /\ (ConnCnt <= 63 => LastReportTrue)
  BY DEF BalanceInv
<1>1. Types'
  BY <1>0 DEF Types, listenVars, ghostVars
<1>2. BacklogAccounted'
  <2>1. backlog <= Covered(listenEdge, batch, Coming, merged, lost, failed)
    BY <1>0, AccountedParts
  <2>2. backlog' <= Covered(listenEdge', batch', Coming', merged', lost', failed')
    BY <2>1 DEF listenVars, ghostVars
  <2> QED
    BY <2>2, AccountedPartsNext
<1>3. LastReportTrue => LastReportTrue'
  BY DEF LastReportTrue
<1> QED
  BY <1>0, <1>1, <1>2, <1>3 DEF BalanceInv

(* The children's events depend on nothing but their pipes, edges and where *)
(* they are.                                                                *)
LEMMA SameEvents ==
  ASSUME UNCHANGED <<toChild, childEdge, cpc, cbatch>>
  PROVE  Coming' = Coming /\ (MessageThere => MessageThere')
<1>1. Announced' = Announced /\ Reading' = Reading
  BY DEF Announced, Reading
<1> QED
  BY <1>1 DEF Coming, MessageThere

(* A new client raises the listener's edge, or finds it raised. *)
LEMMA BalanceConnects == ASSUME BalanceInv, ClientConnects PROVE BalanceInv'
<1>0. Types /\ MessageThere /\ BacklogAccounted /\ (ConnCnt <= 63 => LastReportTrue)
  BY DEF BalanceInv
<1>1. /\ backlog' = backlog + 1 /\ listenEdge' = TRUE
      /\ merged' = IF listenEdge THEN merged + 1 ELSE merged
      /\ UNCHANGED <<m_busy_ratio, batch, proc, sessions, toParent, lost, failed>>
      /\ UNCHANGED <<toChild, childEdge, cpc, cbatch>>
  BY DEF ClientConnects, parentVars, childVars, pipeVars
<1>2. Types'
  BY <1>0, <1>1 DEF Types
<1>3. MessageThere' /\ Coming' = Coming
  BY <1>0, <1>1, SameEvents
<1>4. BacklogAccounted'
  <2>1. backlog <= Covered(listenEdge, batch, Coming, merged, lost, failed)
    BY <1>0, AccountedParts
  <2>2. Coming \in Nat
    BY ComingIsNat
  <2>3. /\ backlog \in Nat /\ merged \in Nat /\ lost \in Nat /\ failed \in Nat
        /\ listenEdge \in BOOLEAN
    BY <1>0 DEF Types
  <2>4. backlog + 1 <= Covered(TRUE, batch, Coming, IF listenEdge THEN merged + 1 ELSE merged,
                               lost, failed)
    BY <2>1, <2>2, <2>3 DEF Covered
  <2>5. backlog' <= Covered(listenEdge', batch', Coming', merged', lost', failed')
    BY <2>4, <1>1, <1>3
  <2> QED
    BY <2>5, AccountedPartsNext
<1>5. LastReportTrue => LastReportTrue'
  BY <1>1 DEF LastReportTrue
<1> QED
  BY <1>0, <1>2, <1>3, <1>4, <1>5 DEF BalanceInv

(* What a child had not read when it died is lost. *)
LEMMA BalanceDies ==
  ASSUME BalanceInv, NEW c \in Child, Dies(c) PROVE BalanceInv'
<1>0. Types /\ MessageThere /\ BacklogAccounted /\ (ConnCnt <= 63 => LastReportTrue)
  BY DEF BalanceInv
<1>1. /\ proc' = [proc EXCEPT ![c] = "zombie"]
      /\ lost' = lost + toChild[c] /\ toChild' = [toChild EXCEPT ![c] = 0]
      /\ sessions' = [sessions EXCEPT ![c] = 0] /\ cbatch' = [cbatch EXCEPT ![c] = {}]
      /\ UNCHANGED <<backlog, listenEdge, m_busy_ratio, batch, toParent, merged, failed>>
      /\ UNCHANGED <<childEdge, cpc>>
  BY DEF Dies, listenVars, parentVars
<1>2. /\ toChild \in [Child -> Nat] /\ lost \in Nat /\ merged \in Nat /\ failed \in Nat
      /\ backlog \in Nat /\ ConnCnt \in Nat
  BY <1>0, PoolAssumption DEF Types, PoolAssumption
<1>3. Types'
  BY <1>0, <1>1, <1>2 DEF Types
<1>4. MessageThere'
  <2>1. \A d \in Child : cbatch'[d] = IF d = c THEN {} ELSE cbatch[d]
    BY <1>0, <1>1 DEF Types
  <2>2. \A d \in Child : d # c => toChild'[d] = toChild[d]
    BY <1>1, <1>2
  <2>3. childEdge' = childEdge /\ cpc' = cpc
    BY <1>1
  <2> QED
    BY <2>1, <2>2, <2>3, <1>0 DEF MessageThere
<1>5. BacklogAccounted'
  <2>1. backlog <= Covered(listenEdge, batch, Coming, merged, lost, failed)
    BY <1>0, AccountedParts
  <2>2. Announced' = Announced \ {c} /\ Reading' = Reading \ {c}
    BY <1>0, <1>1 DEF Announced, Reading, Types
  <2>3. /\ Cardinality(Announced) \in Nat /\ Cardinality(Reading) \in Nat
        /\ Announced \in SUBSET Child /\ Reading \in SUBSET Child
    BY ComingIsNat
  <2>4. /\ c \in Announced => toChild[c] > 0
        /\ c \in Reading => toChild[c] > 0
        /\ c \in Announced /\ c \in Reading => toChild[c] > 1
    BY <1>0, <1>2 DEF MessageThere, Announced, Reading, Types
  <2>5. toChild[c] \in Nat
    BY <1>2
  <2>6. /\ Cardinality(Announced') =
             IF c \in Announced THEN Cardinality(Announced) - 1 ELSE Cardinality(Announced)
        /\ Cardinality(Reading') =
             IF c \in Reading THEN Cardinality(Reading) - 1 ELSE Cardinality(Reading)
    BY <2>2, <2>3, ChildrenCounted
  <2>7. Coming <= Coming' + toChild[c] /\ Coming' \in Nat
    BY <2>3, <2>4, <2>5, <2>6, ComingNextIsNat DEF Coming
  <2>8. Coming \in Nat
    BY ComingIsNat
  <2>9. backlog <= Covered(listenEdge, batch, Coming', merged, lost + toChild[c], failed)
    BY <2>1, <2>5, <2>7, <2>8, <1>2 DEF Covered
  <2>10. backlog' <= Covered(listenEdge', batch', Coming', merged', lost', failed')
    BY <2>9, <1>1
  <2> QED
    BY <2>10, AccountedPartsNext
<1>6. LastReportTrue => LastReportTrue'
  <2>1. \A d \in Child : proc'[d] = "running" => proc[d] = "running" /\ sessions'[d] = sessions[d]
    BY <1>0, <1>1 DEF Types
  <2> QED
    BY <2>1, <1>1 DEF LastReportTrue
<1> QED
  BY <1>0, <1>3, <1>4, <1>5, <1>6 DEF BalanceInv

(* Taking the first event from the batch leaves the others in it. *)
LEMMA OthersStay ==
  ASSUME NEW S, NEW s \in Seq(S), s # <<>>, NEW x \in ToSet(s), x # Head(s)
  PROVE  x \in ToSet(Tail(s))
<1>1. PICK i \in 1..Len(s) : s[i] = x
  BY DEF ToSet
<1>2. i # 1 /\ i \in Int /\ Len(s) \in Nat
  BY <1>1
<1>3. /\ Tail(s) \in Seq(S) /\ Len(Tail(s)) = Len(s) - 1
      /\ \A k \in 1..Len(Tail(s)) : Tail(s)[k] = s[k + 1]
  BY HeadTailProperties
<1>4. i - 1 \in 1..Len(Tail(s)) /\ i - 1 + 1 = i
  BY <1>1, <1>2, <1>3
<1>5. Tail(s)[i - 1] = x
  BY <1>1, <1>3, <1>4
<1>6. DOMAIN Tail(s) = 1..Len(Tail(s))
  BY <1>3
<1> QED
  BY <1>4, <1>5, <1>6 DEF ToSet

(* A report is added behind those on their way: the child's load as one byte. *)
LEMMA ReportSent ==
  ASSUME Types, NEW c \in Child, Notify(c), sessions' \in [Child -> Nat],
         \A d \in Child : sessions'[d] <= ConnCnt
  PROVE  /\ toParent' \in [Child -> Seq(Byte)]
         /\ ConnCnt <= 63 =>
              \A d \in Child : d = c =>
                /\ toParent'[d] # <<>> /\ toParent'[d][Len(toParent'[d])] = 2 * sessions'[d]
                /\ \A i \in 1..Len(toParent'[d]) :
                     toParent'[d][i] <= 2 * ConnCnt \/ (i \in 1..Len(toParent[d]) /\ toParent'[d][i] = toParent[d][i])
         /\ \A d \in Child : d # c => toParent'[d] = toParent[d]
<1> DEFINE b == (2 * sessions'[c]) % 256
           s == toParent[c]
           r == Append(s, b)
<1>1. toParent' = [toParent EXCEPT ![c] = r] /\ toParent \in [Child -> Seq(Byte)] /\ ConnCnt \in Nat
  BY PoolAssumption DEF Notify, Types, PoolAssumption
<1>2. sessions'[c] \in Nat /\ sessions'[c] <= ConnCnt
  OBVIOUS
<1>3. b \in Byte
  <2>1. 2 * sessions'[c] \in Nat
    BY <1>2
  <2> QED
    BY <2>1 DEF Byte
<1>4. ConnCnt <= 63 => b = 2 * sessions'[c]
  <2> DEFINE x == sessions'[c]
  <2> SUFFICES ASSUME ConnCnt <= 63 PROVE (2 * x) % 256 = 2 * x
    OBVIOUS
  <2>1. x \in Nat /\ x <= 63
    BY <1>1, <1>2
  <2> HIDE DEF x
  <2> QED
    BY <2>1
<1>5. s \in Seq(Byte)
  BY <1>1
<1> HIDE DEF b, s
<1>6. /\ r \in Seq(Byte) /\ r # <<>> /\ Len(r) = Len(s) + 1
      /\ \A i \in 1..Len(s) : r[i] = s[i]
      /\ r[Len(s) + 1] = b
  BY <1>3, <1>5, AppendProperties
<1> HIDE DEF r
<1>7. Len(s) \in Nat
  BY <1>5
<1>8. toParent'[c] = r
  BY <1>1
<1>9. ConnCnt <= 63 => \A i \in 1..Len(r) : r[i] <= 2 * ConnCnt \/ (i \in 1..Len(s) /\ r[i] = s[i])
  BY <1>1, <1>2, <1>4, <1>6, <1>7
<1>10. ConnCnt <= 63 => r # <<>> /\ r[Len(r)] = 2 * sessions'[c]
  BY <1>4, <1>6
<1>11. toParent' \in [Child -> Seq(Byte)]
  BY <1>1, <1>6
<1>12. \A d \in Child : d # c => toParent'[d] = toParent[d]
  BY <1>1
<1> QED
  BY <1>8, <1>9, <1>10, <1>11, <1>12 DEF s

(* Reports that are sent after the load has changed are true. *)
LEMMA ReportTrue ==
  ASSUME Types, LastReportTrue, ConnCnt <= 63, NEW c \in Child, Notify(c),
         sessions' \in [Child -> Nat], \A d \in Child : sessions'[d] <= ConnCnt,
         \A d \in Child : d # c => sessions'[d] = sessions[d],
         UNCHANGED <<m_busy_ratio, proc>>
  PROVE  LastReportTrue'
<1> SUFFICES ASSUME NEW d \in Child
             PROVE  /\ \A i \in 1..Len(toParent'[d]) : toParent'[d][i] <= 2 * ConnCnt
                    /\ proc'[d] = "running" =>
                         IF toParent'[d] = <<>> THEN 2 * sessions'[d] <= m_busy_ratio'[d]
                         ELSE toParent'[d][Len(toParent'[d])] = 2 * sessions'[d]
  BY DEF LastReportTrue
<1>1. /\ \A i \in 1..Len(toParent[d]) : toParent[d][i] <= 2 * ConnCnt
      /\ proc[d] = "running" =>
           IF toParent[d] = <<>> THEN 2 * sessions[d] <= m_busy_ratio[d]
           ELSE toParent[d][Len(toParent[d])] = 2 * sessions[d]
  BY DEF LastReportTrue
<1>2. CASE d # c
  <2>1. toParent'[d] = toParent[d] /\ sessions'[d] = sessions[d]
    BY <1>2, ReportSent
  <2> QED
    BY <2>1, <1>1
<1>3. CASE d = c
  <2>1. /\ toParent'[d] # <<>> /\ toParent'[d][Len(toParent'[d])] = 2 * sessions'[d]
        /\ \A i \in 1..Len(toParent'[d]) :
             toParent'[d][i] <= 2 * ConnCnt \/ (i \in 1..Len(toParent[d]) /\ toParent'[d][i] = toParent[d][i])
    BY <1>3, ReportSent
  <2>2. \A i \in 1..Len(toParent'[d]) : toParent'[d][i] <= 2 * ConnCnt
    BY <2>1, <1>1
  <2> QED
    BY <2>1, <2>2
<1> QED
  BY <1>2, <1>3

(* One message is read for one connection, or in vain. *)
LEMMA BalanceAccepts ==
  ASSUME BalanceInv, NEW c \in Child, ChildAccepts(c) PROVE BalanceInv'
<1>0. Types /\ MessageThere /\ BacklogAccounted /\ (ConnCnt <= 63 => LastReportTrue)
  BY DEF BalanceInv
<1>1. /\ "pipe" \in cbatch[c]
      /\ cbatch' = [cbatch EXCEPT ![c] = @ \ {"pipe"}]
      /\ toChild' = [toChild EXCEPT ![c] = @ - 1]
      /\ \/ backlog > 0 /\ backlog' = backlog - 1 /\ failed' = failed
         \/ backlog > 0 /\ backlog' = backlog /\ failed' = failed + 1
         \/ ~(backlog > 0) /\ backlog' = backlog /\ failed' = failed
      /\ UNCHANGED <<listenEdge, m_busy_ratio, batch, proc, merged, lost, childEdge, cpc>>
      /\ cpc[c] = "loop"
  BY DEF ChildAccepts, InLoop, parentVars
<1>2. /\ toChild \in [Child -> Nat] /\ lost \in Nat /\ merged \in Nat /\ failed \in Nat
      /\ backlog \in Nat /\ ConnCnt \in Nat /\ toChild[c] > 0 /\ sessions \in [Child -> Nat]
      /\ \A d \in Child : sessions[d] <= ConnCnt
  BY <1>0, <1>1, PoolAssumption DEF Types, PoolAssumption, MessageThere
<1>3. \/ sessions[c] < ConnCnt /\ sessions' = [sessions EXCEPT ![c] = @ + 1] /\ Notify(c)
      \/ UNCHANGED <<sessions, toParent>>
  BY DEF ChildAccepts
<1>4. /\ sessions' \in [Child -> Nat] /\ \A d \in Child : sessions'[d] <= ConnCnt
      /\ \A d \in Child : d # c => sessions'[d] = sessions[d]
  BY <1>2, <1>3
<1>5. toParent' \in [Child -> Seq(Byte)]
  <2>1. CASE Notify(c)
    BY <1>0, <1>4, <2>1, ReportSent
  <2>2. CASE UNCHANGED toParent
    BY <1>0, <2>2 DEF Types
  <2> QED
    BY <1>3, <2>1, <2>2
<1>6. Types'
  <2>1. toChild' \in [Child -> Nat] /\ backlog' \in Nat /\ failed' \in Nat
    BY <1>1, <1>2
  <2>2. cbatch' \in [Child -> SUBSET {"pipe", "sig"}]
    BY <1>0, <1>1 DEF Types
  <2> QED
    BY <2>1, <2>2, <1>0, <1>1, <1>4, <1>5 DEF Types
<1>7. MessageThere'
  <2>1. \A d \in Child : /\ "pipe" \in cbatch'[d] => d # c /\ "pipe" \in cbatch[d]
                         /\ cbatch[d] = {} => cbatch'[d] = {}
    BY <1>0, <1>1 DEF Types
  <2>2. \A d \in Child : d # c => toChild'[d] = toChild[d]
    BY <1>1, <1>2
  <2>3. childEdge' = childEdge /\ cpc' = cpc
    BY <1>1
  <2>4. \A d \in Child :
          "pipe" \in cbatch'[d] => toChild'[d] > (IF childEdge'[d] THEN 1 ELSE 0)
    BY <2>1, <2>2, <2>3, <1>0 DEF MessageThere
  <2>5. \A d \in Child : cpc'[d] = "setup" => cbatch'[d] = {}
    BY <2>1, <2>3, <1>0 DEF MessageThere
  <2> QED
    BY <2>4, <2>5 DEF MessageThere
<1>8. BacklogAccounted'
  <2>1. backlog <= Covered(listenEdge, batch, Coming, merged, lost, failed)
    BY <1>0, AccountedParts
  <2>2. Announced' = Announced
    <3>1. \A d \in Child \ {c} : toChild'[d] = toChild[d]
      BY <1>1, <1>2
    <3>2. toChild'[c] = toChild[c] - 1
      BY <1>1, <1>2
    <3>3. childEdge[c] => toChild[c] > 1
      BY <1>0, <1>1 DEF MessageThere
    <3>4. c \in Announced' <=> c \in Announced
      BY <1>1, <1>2, <3>2, <3>3 DEF Announced
    <3> QED
      BY <1>1, <3>1, <3>4 DEF Announced
  <2>3. Reading' = Reading \ {c} /\ c \in Reading
    BY <1>0, <1>1 DEF Reading, Types
  <2>4. /\ Cardinality(Announced) \in Nat /\ Cardinality(Reading) \in Nat
        /\ Reading \in SUBSET Child /\ Coming \in Nat
    BY ComingIsNat
  <2>5. Cardinality(Reading') = Cardinality(Reading) - 1
    BY <2>3, <2>4, ChildrenCounted
  <2>6. Coming' = Coming - 1
    BY <2>2, <2>4, <2>5 DEF Coming
  <2>7. Coming' \in Nat
    BY ComingNextIsNat
  <2>8. backlog' <= Covered(listenEdge, batch, Coming', merged, lost, failed')
    BY <2>1, <2>4, <2>6, <2>7, <1>1, <1>2 DEF Covered
  <2>9. backlog' <= Covered(listenEdge', batch', Coming', merged', lost', failed')
    BY <2>8, <1>1
  <2> QED
    BY <2>9, AccountedPartsNext
<1>9. ConnCnt <= 63 => LastReportTrue'
  <2>1. CASE Notify(c)
    BY <1>0, <1>1, <1>4, <2>1, ReportTrue
  <2>2. CASE UNCHANGED <<sessions, toParent>>
    BY <1>0, <1>1, <2>2 DEF LastReportTrue
  <2> QED
    BY <1>3, <2>1, <2>2
<1> QED
  BY <1>6, <1>7, <1>8, <1>9 DEF BalanceInv

(* A session that ends is reported. *)
LEMMA BalanceFrees ==
  ASSUME BalanceInv, NEW c \in Child, ChildFrees(c) PROVE BalanceInv'
<1>0. Types /\ MessageThere /\ BacklogAccounted /\ (ConnCnt <= 63 => LastReportTrue)
  BY DEF BalanceInv
<1>1. /\ sessions[c] > 0 /\ sessions' = [sessions EXCEPT ![c] = @ - 1] /\ Notify(c)
      /\ UNCHANGED <<backlog, listenEdge, m_busy_ratio, batch, proc, merged, lost, failed>>
      /\ UNCHANGED <<toChild, childEdge, cpc, cbatch>>
  BY DEF ChildFrees, parentVars, ghostVars, listenVars
<1>2. /\ sessions \in [Child -> Nat] /\ ConnCnt \in Nat
      /\ \A d \in Child : sessions[d] <= ConnCnt
  BY <1>0, PoolAssumption DEF Types, PoolAssumption
<1>3. /\ sessions' \in [Child -> Nat] /\ \A d \in Child : sessions'[d] <= ConnCnt
      /\ \A d \in Child : d # c => sessions'[d] = sessions[d]
  BY <1>1, <1>2
<1>4. toParent' \in [Child -> Seq(Byte)]
  BY <1>0, <1>1, <1>3, ReportSent
<1>5. Types'
  BY <1>0, <1>1, <1>3, <1>4 DEF Types
<1>6. MessageThere' /\ Coming' = Coming
  BY <1>0, <1>1, SameEvents
<1>7. BacklogAccounted'
  <2>1. backlog <= Covered(listenEdge, batch, Coming, merged, lost, failed)
    BY <1>0, AccountedParts
  <2>2. backlog' <= Covered(listenEdge', batch', Coming', merged', lost', failed')
    BY <2>1, <1>1, <1>6
  <2> QED
    BY <2>2, AccountedPartsNext
<1>8. ConnCnt <= 63 => LastReportTrue'
  BY <1>0, <1>1, <1>3, ReportTrue
<1> QED
  BY <1>5, <1>6, <1>7, <1>8 DEF BalanceInv

(* The listener's event moves from the kernel to the batch. *)
LEMMA BalanceWait == ASSUME BalanceInv, ParentWait PROVE BalanceInv'
<1>0. Types /\ MessageThere /\ BacklogAccounted /\ (ConnCnt <= 63 => LastReportTrue)
  BY DEF BalanceInv
<1> DEFINE fired == {c \in Pipes : parentEdge[c] /\ (toParent[c] # <<>> \/ proc[c] # "running")}
                 \cup (IF listenEdge /\ backlog > 0 THEN {Listener} ELSE {})
                 \cup (IF psigEdge THEN {SigPipe} ELSE {})
<1>1. /\ batch = <<>> /\ batch' \in SetToSeqs(fired)
      /\ listenEdge' = (listenEdge /\ Listener \notin fired)
      /\ UNCHANGED <<backlog, m_busy_ratio, proc, sessions, toParent, merged, lost, failed>>
      /\ UNCHANGED <<toChild, childEdge, cpc, cbatch>>
  BY DEF ParentWait, childVars, ghostVars
<1>2. N \in Nat \ {0} /\ Child = 0..N-1
  BY PoolAssumption DEF PoolAssumption, Child
<1>3. fired \in SUBSET (0..N+1) /\ Listener \in 0..N+1
  BY <1>2 DEF Pipes, Listener, SigPipe
<1>4. IsFiniteSet(fired)
  <2>1. IsFiniteSet(0..N+1)
    BY <1>2, FS_Interval
  <2> HIDE DEF fired
  <2> DEFINE A == 0..N+1
  <2>2. IsFiniteSet(A) /\ fired \in SUBSET A
    BY <2>1, <1>3
  <2> HIDE DEF A
  <2> QED
    BY <2>2, FS_Subset
<1>5. listenEdge /\ backlog > 0 => Listener \in fired
  OBVIOUS
<1> HIDE DEF fired
<1>6. batch' \in Seq(fired) /\ ToSet(batch') = fired
  BY <1>1, <1>4, OrderHasAll
<1>7. Types'
  <2> DEFINE s == batch'
             A == 0..N+1
  <2>1. s \in Seq(A)
    <3>1. s \in Seq(fired) /\ fired \in SUBSET A
      BY <1>3, <1>6
    <3> HIDE DEF s, A
    <3>2. s \in [1..Len(s) -> fired] /\ Len(s) \in Nat
      BY <3>1
    <3>3. s \in [1..Len(s) -> A]
      BY <3>1, <3>2
    <3> QED
      BY <3>2, <3>3
  <2> QED
    BY <2>1, <1>0, <1>1 DEF Types
<1>8. MessageThere' /\ Coming' = Coming
  BY <1>0, <1>1, SameEvents
<1>9. BacklogAccounted'
  <2>1. backlog <= Covered(listenEdge, batch, Coming, merged, lost, failed)
    BY <1>0, AccountedParts
  <2>2. Coming \in Nat
    BY ComingIsNat
  <2>3. /\ backlog \in Nat /\ merged \in Nat /\ lost \in Nat /\ failed \in Nat
        /\ listenEdge \in BOOLEAN
    BY <1>0 DEF Types
  <2>4. Listener \notin ToSet(batch)
    BY <1>1 DEF ToSet
  <2>5. backlog' <= Covered(listenEdge', batch', Coming', merged', lost', failed')
    <3>1. CASE backlog = 0
      BY <3>1, <2>2, <2>3, <1>1, <1>8 DEF Covered
    <3>2. CASE backlog > 0 /\ listenEdge
      BY <3>2, <2>1, <2>2, <2>3, <2>4, <1>1, <1>8, <1>5, <1>6 DEF Covered
    <3>3. CASE ~listenEdge
      BY <3>3, <2>1, <2>2, <2>3, <2>4, <1>1, <1>8 DEF Covered
    <3> QED
      BY <3>1, <3>2, <3>3, <2>3
  <2> QED
    BY <2>5, AccountedPartsNext
<1>10. LastReportTrue => LastReportTrue'
  BY <1>1 DEF LastReportTrue
<1> QED
  BY <1>0, <1>7, <1>8, <1>9, <1>10 DEF BalanceInv

(* The number recv makes of up to four reports. *)
LEMMA AsIntIsInt ==
  ASSUME NEW bytes \in Seq(Byte) PROVE AsInt(bytes) \in Int
<1> DEFINE byte(i) == IF i \in DOMAIN bytes THEN bytes[i] ELSE 0
           top == IF byte(4) < 128 THEN byte(4) ELSE byte(4) - 256
<1>1. AsInt(bytes) = byte(1) + 256 * byte(2) + 65536 * byte(3) + 16777216 * top
  BY DEF AsInt
<1>2. \A i \in 1..4 : byte(i) \in Int
  <2>1. \A i \in DOMAIN bytes : bytes[i] \in Byte
    OBVIOUS
  <2>2. \A b \in Byte : b \in Int
    BY DEF Byte
  <2>3. \A i \in DOMAIN bytes : bytes[i] \in Int
    BY <2>1, <2>2
  <2> QED
    BY <2>3
<1> HIDE DEF byte
<1>3. top \in Int
  BY <1>2
<1> HIDE DEF top
<1> QED
  BY <1>1, <1>2, <1>3

(* It is not less than any of the reports, unless the fourth makes it       *)
(* negative.                                                                *)
LEMMA AsIntBounds ==
  ASSUME NEW bytes \in Seq(Byte), \A i \in 1..Len(bytes) : bytes[i] <= 126,
         Len(bytes) \in 1..4
  PROVE  bytes[Len(bytes)] <= AsInt(bytes)
<1> DEFINE byte(i) == IF i \in DOMAIN bytes THEN bytes[i] ELSE 0
           top == IF byte(4) < 128 THEN byte(4) ELSE byte(4) - 256
           n == Len(bytes)
<1>1. AsInt(bytes) = byte(1) + 256 * byte(2) + 65536 * byte(3) + 16777216 * top
  BY DEF AsInt
<1>2. \A i \in 1..4 : byte(i) \in Nat /\ byte(i) <= 126
  <2>0. \A i \in DOMAIN bytes : bytes[i] \in Byte /\ i \in 1..Len(bytes)
    OBVIOUS
  <2>2. \A b \in Byte : b \in Nat
    BY DEF Byte
  <2>1. \A i \in DOMAIN bytes : bytes[i] \in Nat /\ i \in 1..Len(bytes)
    BY <2>0, <2>2
  <2> QED
    BY <2>1
<1>3. n \in 1..4 /\ byte(n) = bytes[n]
  <2>1. n \in DOMAIN bytes
    OBVIOUS
  <2> QED
    BY <2>1
<1>4. top = byte(4)
  BY <1>2
<1> HIDE DEF byte, top, n
<1>5. byte(n) <= byte(1) + 256 * byte(2) + 65536 * byte(3) + 16777216 * byte(4)
  <2>1. byte(1) \in Nat /\ byte(2) \in Nat /\ byte(3) \in Nat /\ byte(4) \in Nat
    BY <1>2
  <2>2. n = 1 \/ n = 2 \/ n = 3 \/ n = 4
    BY <1>3
  <2> QED
    BY <2>1, <2>2
<1> QED
  BY <1>1, <1>3, <1>4, <1>5 DEF n

(* A connection's event is handled: its message is sent, or lost. *)
LEMMA BalanceDispatch == ASSUME BalanceInv, Dispatch PROVE BalanceInv'
<1>0. Types /\ MessageThere /\ BacklogAccounted /\ (ConnCnt <= 63 => LastReportTrue)
  BY DEF BalanceInv
<1>1. /\ batch # <<>> /\ batch' = Tail(batch)
      /\ UNCHANGED <<backlog, listenEdge, m_busy_ratio, proc, sessions, cbatch, cpc, toParent, failed>>
  BY DEF Dispatch, Handling, listenVars, childVars
<1>2. PICK idx \in Child :
        \/ /\ toChild' = [toChild EXCEPT ![idx] = @ + 1]
           /\ childEdge' = [childEdge EXCEPT ![idx] = cpc[idx] = "loop"]
           /\ merged' = (IF idx \in Announced THEN merged + 1 ELSE merged) /\ lost' = lost
        \/ lost' = lost + 1 /\ UNCHANGED <<toChild, childEdge, merged>>
  <2>1. get_most_free_srv \in Child
    BY <1>0, FreestIsChild
  <2> QED
    BY <2>1 DEF Dispatch
<1>3. /\ toChild \in [Child -> Nat] /\ childEdge \in [Child -> BOOLEAN]
      /\ cpc \in [Child -> {"setup", "loop"}]
      /\ lost \in Nat /\ merged \in Nat /\ failed \in Nat /\ backlog \in Nat
      /\ batch \in Seq(0..N+1)
  BY <1>0 DEF Types
<1>4. Types'
  <2>0. (cpc[idx] = "loop") \in BOOLEAN
    OBVIOUS
  <2>1. childEdge' \in [Child -> BOOLEAN]
    BY <2>0, <1>2, <1>3, Zenon
  <2>1a. toChild' \in [Child -> Nat] /\ lost' \in Nat /\ merged' \in Nat
    BY <1>2, <1>3
  <2>2. batch' \in Seq(0..N+1)
    <3> DEFINE s == batch
               A == 0..N+1
    <3>1. s \in Seq(A) /\ s # <<>>
      BY <1>1, <1>3
    <3> HIDE DEF s, A
    <3>2. Tail(s) \in Seq(A)
      BY <3>1, HeadTailProperties
    <3> QED
      BY <3>2, <1>1 DEF s, A
  <2> QED
    BY <2>1, <2>1a, <2>2, <1>0, <1>1 DEF Types
<1>5. MessageThere'
  <2>1. \A d \in Child :
          \/ toChild'[d] = toChild[d] /\ childEdge'[d] = childEdge[d]
          \/ toChild'[d] = toChild[d] + 1
    BY <1>2, <1>3
  <2>2. \A d \in Child : toChild[d] \in Nat
    BY <1>3
  <2> QED
    BY <2>1, <2>2, <1>0, <1>1 DEF MessageThere
<1>6. BacklogAccounted'
  <2>1. backlog <= Covered(listenEdge, batch, Coming, merged, lost, failed)
    BY <1>0, AccountedParts
  <2>2. /\ Cardinality(Announced) \in Nat /\ Cardinality(Reading) \in Nat
        /\ Announced \in SUBSET Child /\ Coming \in Nat
    BY ComingIsNat
  <2>3. Coming' + merged' + lost' = Coming + merged + lost + 1
    <3>1. Reading' = Reading
      BY <1>1 DEF Reading
    <3>2. CASE lost' = lost + 1 /\ UNCHANGED <<toChild, childEdge, merged>>
      <4>1. Coming' = Coming
        BY <3>2, <1>1, SameEvents
      <4> QED
        BY <4>1, <3>2, <2>2, <1>3
    <3>3. CASE /\ toChild' = [toChild EXCEPT ![idx] = @ + 1]
               /\ childEdge' = [childEdge EXCEPT ![idx] = cpc[idx] = "loop"]
               /\ merged' = (IF idx \in Announced THEN merged + 1 ELSE merged) /\ lost' = lost
      <4>1. \A d \in Child \ {idx} : toChild'[d] = toChild[d] /\ childEdge'[d] = childEdge[d]
        BY <3>3, <1>3
      <4>2. /\ toChild'[idx] > 0
            /\ cpc[idx] = "loop" => childEdge'[idx]
            /\ cpc[idx] # "loop" => cpc[idx] = "setup"
        <5>1. toChild'[idx] = toChild[idx] + 1 /\ toChild[idx] \in Nat
          BY <3>3, <1>3
        <5>2. childEdge'[idx] = (cpc[idx] = "loop")
          BY <3>3, <1>3, Zenon
        <5>3. cpc[idx] \in {"setup", "loop"}
          BY <1>3
        <5>4. toChild'[idx] > 0
          BY <5>1
        <5>5. cpc[idx] = "loop" => childEdge'[idx]
          BY <5>2, Zenon
        <5>6. cpc[idx] # "loop" => cpc[idx] = "setup"
          BY <5>3
        <5> QED
          BY <5>4, <5>5, <5>6, Zenon
      <4>3. idx \in Announced'
        BY <4>2, <1>1 DEF Announced
      <4>4. Announced' = Announced \cup {idx}
        BY <4>1, <4>3, <1>1 DEF Announced
      <4>5. Cardinality(Announced') =
              IF idx \in Announced THEN Cardinality(Announced) ELSE Cardinality(Announced) + 1
        BY <4>4, <2>2, ChildrenCounted
      <4> QED
        BY <4>5, <3>1, <3>3, <2>2, <1>3 DEF Coming
    <3> QED
      BY <1>2, <3>2, <3>3
  <2>4. Coming' \in Nat /\ merged' \in Nat /\ lost' \in Nat
    BY <1>4, ComingNextIsNat DEF Types
  <2>5. backlog <= Covered(listenEdge, batch', Coming', merged', lost', failed)
    <3> DEFINE edge == IF listenEdge THEN 1 ELSE 0
               here == IF Listener \in ToSet(batch) THEN 1 ELSE 0
               after == IF Listener \in ToSet(batch') THEN 1 ELSE 0
    <3>1. edge \in Nat /\ here \in 0..1 /\ after \in 0..1
      OBVIOUS
    <3>2. backlog <= edge + here + Coming + merged + lost + failed
      BY <2>1 DEF Covered
    <3>3. Covered(listenEdge, batch', Coming', merged', lost', failed)
            = edge + after + Coming' + merged' + lost' + failed
      BY DEF Covered
    <3> HIDE DEF edge, here, after
    <3>4. /\ Coming \in Nat /\ merged \in Nat /\ lost \in Nat /\ failed \in Nat
          /\ backlog \in Nat
      BY <2>2, <1>3
    <3>5. backlog <= edge + here + (Coming + merged + lost) + failed
      BY <3>1, <3>2, <3>4
    <3>6. backlog <= edge + (Coming' + merged' + lost') + failed
      BY <3>1, <3>4, <3>5, <2>3
    <3>7. edge + after + Coming' + merged' + lost' + failed
            = edge + (Coming' + merged' + lost') + failed + after
      BY <3>1, <3>4, <2>4
    <3>8. backlog <= edge + (Coming' + merged' + lost') + failed + after
      <4>1. Coming' + merged' + lost' \in Nat
        BY <2>2, <2>3, <1>3
      <4> QED
        BY <3>1, <3>4, <3>6, <4>1
    <3> QED
      BY <3>3, <3>7, <3>8
  <2>6. backlog' <= Covered(listenEdge', batch', Coming', merged', lost', failed')
    BY <2>5, <1>1
  <2> QED
    BY <2>6, AccountedPartsNext
<1>7. LastReportTrue => LastReportTrue'
  BY <1>1 DEF LastReportTrue
<1> QED
  BY <1>0, <1>4, <1>5, <1>6, <1>7 DEF BalanceInv

(* Another event is handled: the listener's stays in the batch. *)
LEMMA OthersHandled ==
  ASSUME BalanceInv, NEW source \in (0..N+1) \ {Listener}, Handling(source),
         UNCHANGED <<listenVars, toChild, childEdge, cpc, cbatch, ghostVars>>
  PROVE  batch' \in Seq(0..N+1) /\ BacklogAccounted'
<1>0. Types /\ BacklogAccounted
  BY DEF BalanceInv
<1>1. batch # <<>> /\ batch' = Tail(batch) /\ Head(batch) # Listener
  BY DEF Handling
<1> DEFINE s == batch
           A == 0..N+1
           T == Tail(s)
<1>2. s \in Seq(A) /\ s # <<>>
  BY <1>0, <1>1 DEF Types
<1> HIDE DEF A
<1>3. T \in Seq(A)
  <2> HIDE DEF s
  <2> QED
    BY <1>2, HeadTailProperties
<1>4. Listener \in ToSet(s) => Listener \in ToSet(T)
  <2> HIDE DEF s
  <2>1. Head(s) # Listener
    BY <1>1 DEF s
  <2> QED
    BY <1>2, <2>1, OthersStay
<1>5. backlog <= Covered(listenEdge, s, Coming, merged, lost, failed)
  BY <1>0, AccountedParts
<1>6. /\ Coming \in Nat /\ Coming' = Coming
      /\ merged \in Nat /\ lost \in Nat /\ failed \in Nat /\ backlog \in Nat
  BY <1>0, ComingIsNat, SameEvents DEF Types
<1> HIDE DEF s
<1>7. backlog <= Covered(listenEdge, T, Coming, merged, lost, failed)
  <2> HIDE DEF T
  <2> QED
    BY <1>4, <1>5, <1>6 DEF Covered
<1>8. backlog' <= Covered(listenEdge', batch', Coming', merged', lost', failed')
  BY <1>1, <1>6, <1>7 DEF s, T, listenVars, ghostVars
<1> QED
  BY <1>1, <1>3, <1>8, AccountedPartsNext DEF s, T, A

(* Up to four reports are taken for one number. *)
LEMMA BalanceReads ==
  ASSUME BalanceInv, NEW c \in Child, ReadRatio(c) PROVE BalanceInv'
<1>0. Types /\ MessageThere /\ BacklogAccounted /\ (ConnCnt <= 63 => LastReportTrue)
  BY DEF BalanceInv
<1> DEFINE s == toParent[c]
           k == Taken(c)
           taken == SubSeq(s, 1, k)
           rest == SubSeq(s, k + 1, Len(s))
           ratio == AsInt(taken)
<1>1. /\ Handling(c)
      /\ \/ k > 0 /\ m_busy_ratio' = [m_busy_ratio EXCEPT ![c] = ratio]
                  /\ toParent' = [toParent EXCEPT ![c] = rest]
         \/ UNCHANGED <<m_busy_ratio, toParent>>
      /\ UNCHANGED <<listenVars, proc, sessions, ghostVars>>
      /\ UNCHANGED <<toChild, childEdge, cpc, cbatch>>
  BY DEF ReadRatio, childVars
<1>2. /\ m_busy_ratio \in [Child -> Int] /\ toParent \in [Child -> Seq(Byte)]
      /\ sessions \in [Child -> Nat] /\ s \in Seq(Byte) /\ ConnCnt \in Nat
  BY <1>0, PoolAssumption DEF Types, PoolAssumption
<1>3. N \in Nat \ {0} /\ Child = 0..N-1
  BY PoolAssumption DEF PoolAssumption, Child
<1>4. batch' \in Seq(0..N+1) /\ BacklogAccounted'
  <2>1. c \in (0..N+1) \ {Listener}
    BY <1>3 DEF Listener
  <2> QED
    BY <1>1, <2>1, OthersHandled
<1>5. k = (IF Len(s) < 4 THEN Len(s) ELSE 4) /\ Len(s) \in Nat
  BY <1>2 DEF Taken
<1> HIDE DEF s, k
<1>5a. k \in Nat /\ k <= 4 /\ k <= Len(s) /\ (Len(s) > 0 => k > 0)
  <2>1. CASE Len(s) < 4
    BY <1>5, <2>1
  <2>2. CASE ~(Len(s) < 4)
    <3>1. k = 4
      BY <1>5, <2>2
    <3> QED
      BY <1>5, <2>2, <3>1
  <2> QED
    BY <2>1, <2>2
<1>6. ASSUME k > 0
      PROVE  /\ taken \in Seq(Byte) /\ Len(taken) = k
             /\ \A i \in 1..k : taken[i] = s[i]
             /\ rest \in Seq(Byte) /\ Len(rest) = Len(s) - k
             /\ \A i \in 1..Len(s) - k : rest[i] = s[k + i]
  <2>1. k \in 1..4 /\ k <= Len(s)
    BY <1>5a, <1>6
  <2>2. /\ taken \in Seq(Byte) /\ Len(taken) = k
        /\ \A i \in 1..k : taken[i] = s[i]
    <3>1. 1 \in 1..Len(s)+1 /\ k \in 0..Len(s)
      BY <2>1, <1>5
    <3>2. /\ SubSeq(s, 1, k) \in Seq(Byte)
          /\ Len(SubSeq(s, 1, k)) = IF 1 <= k THEN k - 1 + 1 ELSE 0
          /\ \A i \in 1..k - 1 + 1 : SubSeq(s, 1, k)[i] = s[1 + i - 1]
      BY <1>2, <3>1, <1>5, SubSeqProperties
    <3>3. k - 1 + 1 = k /\ 1 <= k /\ \A i \in 1..k : 1 + i - 1 = i
      BY <2>1
    <3> HIDE DEF taken
    <3> QED
      BY <3>2, <3>3 DEF taken
  <2>3. /\ rest \in Seq(Byte) /\ Len(rest) = Len(s) - k
        /\ \A i \in 1..Len(s) - k : rest[i] = s[k + i]
    <3> DEFINE m == k + 1
               n == Len(s)
    <3>1. m \in 1..Len(s)+1 /\ n \in m-1..Len(s)
      BY <2>1, <1>5
    <3> HIDE DEF m, n
    <3>2. /\ SubSeq(s, m, n) \in Seq(Byte)
          /\ Len(SubSeq(s, m, n)) = IF m <= n THEN n - m + 1 ELSE 0
          /\ \A i \in 1..n - m + 1 : SubSeq(s, m, n)[i] = s[m + i - 1]
      BY <1>2, <3>1, SubSeqProperties
    <3>3. /\ n - m + 1 = Len(s) - k /\ (~(m <= n) => Len(s) - k = 0)
          /\ \A i \in 1..Len(s) - k : m + i - 1 = k + i
      <4>1. k \in Int /\ n \in Int /\ m = k + 1 /\ n = Len(s)
        BY <2>1, <1>5 DEF m, n
      <4>2. \A i \in Int : m + i - 1 = k + i
        BY <4>1
      <4> QED
        BY <4>1, <4>2, <2>1
    <3>4. rest = SubSeq(s, m, n)
      BY DEF m, n
    <3> HIDE DEF rest
    <3> QED
      BY <3>2, <3>3, <3>4
  <2> QED
    BY <2>2, <2>3
<1> HIDE DEF taken, rest
<1>7. k > 0 => ratio \in Int
  BY <1>6, AsIntIsInt
<1> HIDE DEF ratio
<1>8. Types'
  <2>1. m_busy_ratio' \in [Child -> Int] /\ toParent' \in [Child -> Seq(Byte)]
    BY <1>1, <1>2, <1>6, <1>7
  <2> QED
    BY <2>1, <1>0, <1>1, <1>4 DEF Types, listenVars, ghostVars
<1>9. MessageThere'
  BY <1>0, <1>1, SameEvents
<1>10. ASSUME ConnCnt <= 63 PROVE LastReportTrue'
  <2>1. CASE UNCHANGED <<m_busy_ratio, toParent>>
    BY <2>1, <1>0, <1>1, <1>10 DEF LastReportTrue
  <2>2. CASE k > 0 /\ m_busy_ratio' = [m_busy_ratio EXCEPT ![c] = ratio]
                   /\ toParent' = [toParent EXCEPT ![c] = rest]
    <3>1. /\ \A i \in 1..Len(s) : s[i] <= 2 * ConnCnt
          /\ proc[c] = "running" =>
               IF s = <<>> THEN 2 * sessions[c] <= m_busy_ratio[c]
               ELSE s[Len(s)] = 2 * sessions[c]
      BY <1>0, <1>10 DEF LastReportTrue, s
    <3>2. s # <<>> /\ k \in 1..4 /\ k <= Len(s)
      <4>1. Len(s) > 0
        BY <2>2, <1>5a, <1>5
      <4> QED
        BY <4>1, <2>2, <1>5a
    <3>3. \A i \in 1..Len(rest) : rest[i] <= 2 * ConnCnt
      <4>1. \A i \in 1..Len(rest) : k + i \in 1..Len(s)
        BY <3>2, <1>5, <1>6, <2>2
      <4> QED
        BY <4>1, <3>1, <1>6, <2>2
    <3>4. CASE rest # <<>>
      <4>1. Len(rest) \in 1..Len(s) - k
        BY <3>4, <1>6, <2>2, <1>5
      <4>2. rest[Len(rest)] = s[Len(s)]
        BY <4>1, <1>6, <2>2, <1>5, <3>2
      <4>3. proc[c] = "running" => rest[Len(rest)] = 2 * sessions[c]
        BY <4>2, <3>1, <3>2
      <4> QED
        BY <4>3, <3>3, <3>4, <2>2, <1>0, <1>1, <1>2, <1>10 DEF LastReportTrue
    <3>5. CASE rest = <<>>
      <4>1. k = Len(s)
        BY <3>5, <1>6, <2>2, <1>5, <3>2
      <4>2. \A i \in 1..Len(taken) : taken[i] <= 126
        <5>0. \A i \in 1..Len(s) : s[i] \in Byte
          BY <1>2
        <5>1. \A i \in 1..k : s[i] \in Int /\ s[i] <= 2 * ConnCnt
          BY <3>1, <4>1, <5>0 DEF Byte
        <5>2. \A i \in 1..k : s[i] <= 126
          BY <5>1, <1>2, <1>10
        <5> QED
          BY <5>2, <1>6, <2>2
      <4>3. taken[Len(taken)] <= ratio
        BY <4>2, <1>6, <2>2, <3>2, AsIntBounds DEF ratio
      <4>4. proc[c] = "running" => 2 * sessions[c] <= ratio
        BY <4>1, <4>3, <3>1, <3>2, <1>6, <2>2
      <4> QED
        BY <4>4, <3>3, <3>5, <2>2, <1>0, <1>1, <1>2, <1>10 DEF LastReportTrue
    <3> QED
      BY <3>4, <3>5
  <2> QED
    BY <2>1, <2>2, <1>1
<1> QED
  BY <1>4, <1>8, <1>9, <1>10 DEF BalanceInv

(* Children that have ended are reaped; none begins to live. *)
LEMMA BalanceSignals == ASSUME BalanceInv, HandleSignals PROVE BalanceInv'
<1>0. Types /\ MessageThere /\ BacklogAccounted /\ (ConnCnt <= 63 => LastReportTrue)
  BY DEF BalanceInv
<1>1. /\ Handling(SigPipe)
      /\ \E reaped \in SUBSET Child : proc' = [c \in Child |-> IF c \in reaped THEN "reaped" ELSE proc[c]]
      /\ UNCHANGED <<listenVars, m_busy_ratio, sessions, toParent, ghostVars>>
      /\ UNCHANGED <<toChild, childEdge, cpc, cbatch>>
  BY DEF HandleSignals, ReapAndKill, Zombies, childVars, pipeVars
<1>2. batch' \in Seq(0..N+1) /\ BacklogAccounted'
  <2>1. SigPipe \in (0..N+1) \ {Listener}
    BY PoolAssumption DEF PoolAssumption, SigPipe, Listener
  <2> QED
    BY <1>1, <2>1, OthersHandled
<1>3. /\ proc' \in [Child -> {"running", "zombie", "reaped"}]
      /\ \A c \in Child : proc'[c] = "running" => proc[c] = "running"
  BY <1>0, <1>1 DEF Types
<1>4. Types'
  BY <1>0, <1>1, <1>2, <1>3 DEF Types, listenVars, ghostVars
<1>5. MessageThere'
  BY <1>0, <1>1, SameEvents
<1>6. LastReportTrue => LastReportTrue'
  BY <1>1, <1>3 DEF LastReportTrue
<1> QED
  BY <1>0, <1>2, <1>4, <1>5, <1>6 DEF BalanceInv

(* An event that announces a message comes into the child's hands.          *)
LEMMA BalanceChildWaits ==
  ASSUME BalanceInv, NEW c \in Child, ChildWait(c) PROVE BalanceInv'
<1>0. /\ cbatch \in [Child -> SUBSET {"pipe", "sig"}] /\ childEdge \in [Child -> BOOLEAN]
      /\ cpc \in [Child -> {"setup", "loop"}] /\ toChild \in [Child -> Nat]
      /\ MessageThere
  BY DEF BalanceInv, Types
<1> DEFINE ready == (IF childEdge[c] /\ toChild[c] > 0 THEN {"pipe"} ELSE {})
                      \cup (IF csigEdge[c] THEN {"sig"} ELSE {})
<1>1. /\ UNCHANGED <<listenVars, m_busy_ratio, batch, proc, sessions, toParent, ghostVars>>
      /\ UNCHANGED <<toChild, cpc>> /\ cbatch[c] = {} /\ cpc[c] = "loop"
      /\ cbatch' = [cbatch EXCEPT ![c] = ready]
      /\ childEdge' = [childEdge EXCEPT ![c] = FALSE]
  BY DEF ChildWait, InLoop, parentVars
<1>2. ready \in SUBSET {"pipe", "sig"} /\ ("pipe" \in ready <=> c \in Announced)
  BY <1>1 DEF Announced
<1> HIDE DEF ready
<1>3. cbatch' \in [Child -> SUBSET {"pipe", "sig"}] /\ childEdge' \in [Child -> BOOLEAN]
  BY <1>0, <1>1, <1>2
<1>4. /\ \A d \in Child \ {c} : cbatch'[d] = cbatch[d] /\ childEdge'[d] = childEdge[d]
      /\ cbatch'[c] = ready /\ ~childEdge'[c]
  BY <1>0, <1>1
<1>5. MessageThere'
  <2>1. c \in Announced => toChild[c] > 0
    BY DEF Announced
  <2> QED
    BY <1>0, <1>1, <1>2, <1>4, <2>1 DEF MessageThere
<1>6. c \notin Announced' /\ c \notin Reading /\ (c \in Reading' <=> c \in Announced)
  BY <1>1, <1>2, <1>4 DEF Announced, Reading
<1>7. /\ Announced' = Announced \ {c}
      /\ Reading' = IF c \in Announced THEN Reading \cup {c} ELSE Reading
  BY <1>1, <1>4, <1>6 DEF Announced, Reading
<1>8. /\ Cardinality(Announced) \in Nat /\ Cardinality(Reading) \in Nat
      /\ Announced \in SUBSET Child /\ Reading \in SUBSET Child
  BY ComingIsNat
<1>9. Coming' = Coming
  <2>1. Cardinality(Announced') =
          IF c \in Announced THEN Cardinality(Announced) - 1 ELSE Cardinality(Announced)
    BY <1>7, <1>8, ChildrenCounted
  <2>2. Cardinality(Reading') =
          IF c \in Announced THEN Cardinality(Reading) + 1 ELSE Cardinality(Reading)
    BY <1>6, <1>7, <1>8, ChildrenCounted
  <2> QED
    BY <2>1, <2>2, <1>8 DEF Coming
<1> QED
  BY <1>0, <1>1, <1>3, <1>5, <1>9, NothingMoves

(* Every step of the pool, of its clients and of the kernel keeps BalanceInv. *)
LEMMA BalanceNext == ASSUME BalanceInv, [Next]_vars PROVE BalanceInv'
<1>0. /\ cbatch \in [Child -> SUBSET {"pipe", "sig"}] /\ childEdge \in [Child -> BOOLEAN]
      /\ cpc \in [Child -> {"setup", "loop"}] /\ toChild \in [Child -> Nat]
      /\ MessageThere
  BY DEF BalanceInv, Types
<1>1. CASE ClientConnects
  BY <1>1, BalanceConnects
<1>2. ASSUME NEW c \in Child, Crash(c) \/ KilledEarly(c) \/ ChildExits(c) PROVE BalanceInv'
  <2>1. Dies(c)
    BY <1>2 DEF Crash, KilledEarly, ChildExits
  <2> QED
    BY <2>1, BalanceDies
<1>3. CASE Dispatch
  BY <1>3, BalanceDispatch
<1>4. CASE ParentWait
  BY <1>4, BalanceWait
<1>5. CASE HandleSignals
  BY <1>5, BalanceSignals
<1>6. ASSUME UNCHANGED <<listenVars, m_busy_ratio, batch, proc, sessions, toParent, ghostVars>>,
             UNCHANGED <<toChild, childEdge, cpc, cbatch>>
      PROVE  BalanceInv'
  BY <1>0, <1>6, NothingMoves, SameEvents
<1>7. ASSUME NEW c \in Child, ChildWait(c) PROVE BalanceInv'
  BY <1>7, BalanceChildWaits
<1>8. ASSUME NEW c \in Child, ChildSignalled(c) PROVE BalanceInv'
  <2>1. /\ UNCHANGED <<listenVars, m_busy_ratio, batch, proc, sessions, toParent, ghostVars>>
        /\ UNCHANGED <<toChild, childEdge, cpc>>
        /\ cbatch' = [cbatch EXCEPT ![c] = @ \ {"sig"}]
    BY <1>8 DEF ChildSignalled, parentVars, pipeVars
  <2>2. /\ cbatch' \in [Child -> SUBSET {"pipe", "sig"}]
        /\ \A d \in Child : "pipe" \in cbatch'[d] <=> "pipe" \in cbatch[d]
        /\ \A d \in Child : cbatch[d] = {} => cbatch'[d] = {}
    BY <1>0, <2>1
  <2>3. Announced' = Announced /\ Reading' = Reading
    BY <2>1, <2>2 DEF Announced, Reading
  <2>4. Coming' = Coming
    BY <2>3 DEF Coming
  <2>5. MessageThere'
    BY <1>0, <2>1, <2>2 DEF MessageThere
  <2> QED
    BY <1>0, <2>1, <2>2, <2>4, <2>5, NothingMoves
<1>9. ASSUME NEW c \in Child, ChildSetup(c) PROVE BalanceInv'
  <2>1. /\ UNCHANGED <<listenVars, m_busy_ratio, batch, proc, sessions, toParent, ghostVars>>
        /\ UNCHANGED <<toChild, cbatch>> /\ cpc[c] = "setup"
        /\ cpc' = [cpc EXCEPT ![c] = "loop"]
        /\ childEdge' = [childEdge EXCEPT ![c] = toChild[c] > 0]
    BY <1>9 DEF ChildSetup, parentVars
  <2>2. cpc' \in [Child -> {"setup", "loop"}] /\ childEdge' \in [Child -> BOOLEAN]
    BY <1>0, <2>1
  <2>3. /\ \A d \in Child \ {c} : cpc'[d] = cpc[d] /\ childEdge'[d] = childEdge[d]
        /\ cpc'[c] = "loop" /\ (childEdge'[c] <=> toChild[c] > 0)
    BY <1>0, <2>1
  <2>4. c \in Announced' <=> c \in Announced
    BY <2>1, <2>3 DEF Announced
  <2>5. Announced' = Announced /\ Reading' = Reading
    BY <2>1, <2>3, <2>4 DEF Announced, Reading
  <2>6. Coming' = Coming
    BY <2>5 DEF Coming
  <2>7. MessageThere'
    BY <1>0, <2>1, <2>3 DEF MessageThere
  <2> QED
    BY <1>0, <2>1, <2>2, <2>6, <2>7, NothingMoves
<1>9a. ASSUME NEW c \in Child, DeliverToChild(c) PROVE BalanceInv'
  BY <1>6, <1>9a DEF DeliverToChild, parentVars, childVars, pipeVars
<1>10. Terminate \/ (\E sig \in {"TERM", "CHLD"} : Deliver(sig)) \/ ParentSetup \/ ParentStops \/ UNCHANGED vars
         => BalanceInv'
  BY <1>6 DEF Terminate, Deliver, ParentSetup, ParentStops, vars, parentVars, childVars, pipeVars
<1>11. ParentStep => \/ ParentSetup \/ ParentWait \/ Dispatch \/ HandleSignals \/ ParentStops
                     \/ \E c \in Child : ReadRatio(c)
  BY DEF ParentStep
<1>12. \A c \in Child : ChildStep(c) =>
         ChildSetup(c) \/ ChildWait(c) \/ ChildAccepts(c) \/ ChildSignalled(c) \/ ChildExits(c)
  BY DEF ChildStep
<1> QED
  BY <1>1, <1>2, <1>3, <1>4, <1>5, <1>7, <1>8, <1>9, <1>9a, <1>10, <1>11, <1>12,
     BalanceReads, BalanceAccepts, BalanceFrees DEF Next, Kernel
-----------------------------------------------------------------------------
(* The invariant: what the parent and the children have on their way to     *)
(* each other accounts for every connection, and for the parent's ratios.   *)
THEOREM BalanceInvariant == Spec => []BalanceInv
<1>1. Init => BalanceInv
  BY BalanceInit
<1>2. BalanceInv /\ [Next]_vars => BalanceInv'
  BY BalanceNext
<1> QED
  BY <1>1, <1>2, PTL DEF Spec

(* However the edges of the listening socket, of the pipes and of the       *)
(* signals interleave, the connections that wait are no more than the       *)
(* events that are on their way to somebody who will accept for them, the   *)
(* events that were merged with others, the messages that died with a child *)
(* and the accepts that failed.                                             *)
THEOREM BacklogAccountedTheorem == Spec => []BacklogAccounted
<1>1. BalanceInv => BacklogAccounted
  BY DEF BalanceInv
<1> QED
  BY <1>1, BalanceInvariant, PTL

(* With up to 63 sessions per child the parent never takes a child for      *)
(* freer than it is once it has read its reports, whichever of them recv    *)
(* has run together.                                                        *)
THEOREM NeverUnderestimatedTheorem ==
  ASSUME ConnCnt <= 63 PROVE Spec => []NeverUnderestimated
<1>1. BalanceInv => NeverUnderestimated
  BY DEF BalanceInv, LastReportTrue, NeverUnderestimated
<1> QED
  BY <1>1, BalanceInvariant, PTL
-----------------------------------------------------------------------------
(* ProcessPool. *)

(* Of a child that is not reaped the parent has the pid. *)
Lives(c) == g_m_pid[c] # -1

SpreadTypes ==
  /\ g_m_pid \in [G!Child -> G!Child \cup {-1}]
  /\ g_sub_process_counter \in G!Child
  /\ g_sent \in [G!Child -> Nat]

(* Those behind the counter have been told of one connection more than      *)
(* those the counter has not come to in this turn; wherever it stands, and  *)
(* whoever it passes over, this is so of the children that live.            *)
TurnsTaken ==
  \A c, d \in G!Child : Lives(c) /\ Lives(d) =>
    g_sent[c] = g_sent[d] + (IF c < g_sub_process_counter THEN 1 ELSE 0)
                      - (IF d < g_sub_process_counter THEN 1 ELSE 0)

SpreadInv == SpreadTypes /\ TurnsTaken

(* A turn of the counter: the sum of two children modulo PROCESS_COUNT.     *)
LEMMA Turn ==
  ASSUME NEW a \in G!Child, NEW b \in G!Child
  PROVE  (a + b) % PROCESS_COUNT = IF a + b < PROCESS_COUNT THEN a + b ELSE a + b - PROCESS_COUNT
BY MCProcessPoolAssumption DEF MCProcessPoolAssumption, G!ProcessPoolAssumption, G!Child

(* Every set of children that has members has a least one. *)
LEMMA LeastChild ==
  ASSUME NEW Q \in SUBSET G!Child, Q # {}
  PROVE  \E x \in Q : \A y \in Q : x <= y
<1> DEFINE R == {ss \in Nat \X Nat : ss[1] < ss[2]}
<1>1. IsWellFoundedOn(R, Nat)
  BY NatLessThanWellFounded DEF OpToRel
<1>2. Q \in SUBSET Nat
  BY MCProcessPoolAssumption DEF MCProcessPoolAssumption, G!ProcessPoolAssumption, G!Child
<1>3. PICK x \in Q : \A y \in Q : ~(<<y, x>> \in R)
  <2> HIDE DEF R
  <2> QED
    BY <1>1, <1>2, WFMin
<1>4. \A y \in Q : ~(y < x)
  BY <1>2, <1>3
<1> HIDE DEF R
<1> QED
  BY <1>2, <1>4

(* The search from the counter on finds a child that lives, and between     *)
(* the counter and it there is none.                                        *)
LEMMA FirstFound ==
  ASSUME SpreadTypes, \E c \in G!Child : Lives(c)
  PROVE  /\ G!FirstLive \in G!Child /\ Lives(G!FirstLive)
         /\ \A c \in G!Child : Lives(c) =>
              IF G!FirstLive >= g_sub_process_counter
              THEN c >= G!FirstLive \/ c < g_sub_process_counter
              ELSE c >= G!FirstLive /\ c < g_sub_process_counter
<1> DEFINE s == g_sub_process_counter
           at(k) == (s + k) % PROCESS_COUNT
           rank(c) == IF c >= s THEN c - s ELSE c - s + PROCESS_COUNT
           Found(i) == g_m_pid[i] # -1 /\ \A k \in G!Child :
                         (\A j \in 0..k : at(j) # i) => g_m_pid[at(k)] = -1
<1>1. s \in G!Child /\ PROCESS_COUNT \in Nat /\ G!Child = 0..PROCESS_COUNT-1
  BY MCProcessPoolAssumption DEF MCProcessPoolAssumption, G!ProcessPoolAssumption, G!Child, SpreadTypes
<1> HIDE DEF s
<1>2. \A k \in G!Child : at(k) = IF s + k < PROCESS_COUNT THEN s + k ELSE s + k - PROCESS_COUNT
  BY <1>1, Turn
<1>3. \A k \in G!Child : at(k) \in G!Child /\ rank(at(k)) = k
  <2> HIDE DEF at
  <2> QED
    BY <1>1, <1>2
<1>4. \A c \in G!Child : rank(c) \in G!Child /\ at(rank(c)) = c
  <2>1. \A c \in G!Child : rank(c) \in G!Child
    BY <1>1
  <2> HIDE DEF at
  <2> QED
    BY <1>1, <1>2, <2>1
<1> HIDE DEF at, rank
<1> DEFINE K == {k \in G!Child : Lives(at(k))}
<1>5. PICK k \in K : \A j \in K : k <= j
  <2>1. K \in SUBSET G!Child /\ K # {}
    BY <1>4
  <2> HIDE DEF K
  <2> QED
    BY <2>1, LeastChild
<1>6. Found(at(k))
  <2> SUFFICES ASSUME NEW l \in G!Child, \A j \in 0..l : at(j) # at(k) PROVE g_m_pid[at(l)] = -1
    BY <1>5 DEF Lives
  <2>1. ~(k <= l)
    BY <1>1, <1>5
  <2> QED
    BY <2>1, <1>5 DEF Lives
<1>7. G!FirstLive = CHOOSE i \in {at(j) : j \in G!Child} : Found(i)
  BY DEF G!FirstLive, at, s
<1>8. at(k) \in {at(j) : j \in G!Child}
  BY <1>5
<1> DEFINE i == G!FirstLive
<1>9. i \in {at(j) : j \in G!Child} /\ Found(i)
  <2> HIDE DEF Found
  <2> QED
    BY <1>6, <1>7, <1>8
<1>10. i \in G!Child /\ Lives(i)
  BY <1>3, <1>9 DEF Lives
<1>11. \A c \in G!Child : Lives(c) => rank(i) <= rank(c)
  <2> SUFFICES ASSUME NEW c \in G!Child, Lives(c) PROVE rank(i) <= rank(c)
    OBVIOUS
  <2>1. PICK j \in 0..rank(c) : at(j) = i
    BY <1>4, <1>9 DEF Lives
  <2>2. rank(c) \in G!Child
    BY <1>4
  <2>3. j \in G!Child /\ j <= rank(c)
    BY <1>1, <2>1, <2>2
  <2> QED
    BY <2>1, <2>3, <1>3
<1> HIDE DEF i
<1>12. \A c \in G!Child : Lives(c) =>
         IF i >= s THEN c >= i \/ c < s ELSE c >= i /\ c < s
  <2> SUFFICES ASSUME NEW c \in G!Child, Lives(c)
               PROVE  IF i >= s THEN c >= i \/ c < s ELSE c >= i /\ c < s
    OBVIOUS
  <2>1. rank(i) <= rank(c)
    BY <1>11
  <2> QED
    BY <2>1, <1>1, <1>10 DEF rank
<1> QED
  BY <1>10, <1>12 DEF i, s

(* At the start nobody has been told of anything.                            *)
LEMMA SpreadInit == G!Init => SpreadInv
<1> SUFFICES ASSUME G!Init PROVE SpreadInv
  OBVIOUS
<1>1. PROCESS_COUNT \in Nat \ {0} /\ G!Child = 0..PROCESS_COUNT-1
  BY MCProcessPoolAssumption DEF MCProcessPoolAssumption, G!ProcessPoolAssumption, G!Child
<1>2. g_m_pid \in [G!Child -> G!Child \cup {-1}] /\ g_sub_process_counter = 0 /\ g_sent = [c \in G!Child |-> 0]
  BY DEF G!Init
<1>3. SpreadTypes
  BY <1>1, <1>2 DEF SpreadTypes
<1>4. \A c \in G!Child : g_sent[c] = 0 /\ ~(c < 0)
  BY <1>1, <1>2
<1>5. TurnsTaken
  BY <1>2, <1>4 DEF TurnsTaken
<1> QED
  BY <1>3, <1>5 DEF SpreadInv

(* A connection is told to the next child in turn.                          *)
LEMMA SpreadDispatch == ASSUME SpreadInv, G!Dispatch PROVE SpreadInv'
<1>0. SpreadTypes /\ TurnsTaken
  BY DEF SpreadInv
<1>1. PROCESS_COUNT \in Nat \ {0} /\ G!Child = 0..PROCESS_COUNT-1 /\ g_m_pid' = g_m_pid
  BY MCProcessPoolAssumption DEF MCProcessPoolAssumption, G!ProcessPoolAssumption, G!Child, G!Dispatch
<1>2. CASE UNCHANGED <<g_sub_process_counter, g_sent>>
  BY <1>0, <1>1, <1>2 DEF SpreadInv, SpreadTypes, TurnsTaken, Lives
<1>3. ASSUME NEW i \in G!Child,
             g_sent' = [g_sent EXCEPT ![i] = @ + 1], g_sub_process_counter' = (i + 1) % PROCESS_COUNT,
             \A c \in G!Child : Lives(c) =>
               IF i >= g_sub_process_counter
               THEN c >= i \/ c < g_sub_process_counter
               ELSE c >= i /\ c < g_sub_process_counter
      PROVE  SpreadInv'
  <2> DEFINE s == g_sub_process_counter
             b(c) == IF c < s THEN 1 ELSE 0
             n(c) == IF c < g_sub_process_counter' THEN 1 ELSE 0
  <2>1. g_sub_process_counter' = IF i = PROCESS_COUNT - 1 THEN 0 ELSE i + 1
    <3>1. CASE PROCESS_COUNT = 1
      BY <3>1, <1>1, <1>3
    <3>2. CASE PROCESS_COUNT # 1
      <4>1. 1 \in G!Child /\ i \in G!Child
        BY <3>2, <1>1
      <4>2. (i + 1) % PROCESS_COUNT = IF i + 1 < PROCESS_COUNT THEN i + 1 ELSE i + 1 - PROCESS_COUNT
        BY <4>1, Turn
      <4> QED
        BY <4>2, <1>1, <1>3
    <3> QED
      BY <3>1, <3>2
  <2>2. /\ \A c \in G!Child : g_sent'[c] = IF c = i THEN g_sent[c] + 1 ELSE g_sent[c]
        /\ g_sent' \in [G!Child -> Nat] /\ \A c \in G!Child : g_sent[c] \in Nat
    BY <1>0, <1>3 DEF SpreadTypes
  <2>3. SpreadTypes'
    BY <1>0, <1>1, <2>1, <2>2 DEF SpreadTypes
  <2>4. ASSUME NEW c \in G!Child, NEW d \in G!Child, Lives(c), Lives(d)
        PROVE  g_sent'[c] = g_sent'[d] + n(c) - n(d)
    <3>1. g_sent[c] = g_sent[d] + b(c) - b(d)
      BY <2>4, <1>0 DEF TurnsTaken
    <3>2. s \in Int /\ i \in Int /\ c \in Int /\ d \in Int /\ g_sent[c] \in Int /\ g_sent[d] \in Int
      BY <1>0, <1>1, <2>2 DEF SpreadTypes
    <3>3. /\ IF i >= s THEN c >= i \/ c < s ELSE c >= i /\ c < s
          /\ IF i >= s THEN d >= i \/ d < s ELSE d >= i /\ d < s
      BY <1>3, <2>4
    <3>4. /\ g_sent'[c] = g_sent[c] + (IF c = i THEN 1 ELSE 0)
          /\ g_sent'[d] = g_sent[d] + (IF d = i THEN 1 ELSE 0)
      BY <2>2, <3>2
    <3>5. c \in 0..PROCESS_COUNT-1 /\ d \in 0..PROCESS_COUNT-1 /\ i \in 0..PROCESS_COUNT-1 /\ s \in 0..PROCESS_COUNT-1 /\ PROCESS_COUNT \in Int
      BY <1>0, <1>1 DEF SpreadTypes
    <3> DEFINE w == g_sub_process_counter'
               x == g_sent[c]
               y == g_sent[d]
               x1 == g_sent'[c]
               y1 == g_sent'[d]
    <3>6. w = IF i = PROCESS_COUNT - 1 THEN 0 ELSE i + 1
      BY <2>1
    <3>7. n(c) = (IF c < w THEN 1 ELSE 0) /\ n(d) = (IF d < w THEN 1 ELSE 0)
      OBVIOUS
    <3>8. b(c) = (IF c < s THEN 1 ELSE 0) /\ b(d) = (IF d < s THEN 1 ELSE 0)
      OBVIOUS
    <3> HIDE DEF s, w, b, n, x, y, x1, y1
    <3>9. x1 = y1 + n(c) - n(d)
      <4>1. x = y + b(c) - b(d) /\ x \in Int /\ y \in Int
        BY <3>1, <3>2 DEF x, y
      <4>2. x1 = x + (IF c = i THEN 1 ELSE 0) /\ y1 = y + (IF d = i THEN 1 ELSE 0)
        BY <3>4 DEF x, y, x1, y1
      <4>3. CASE i >= s
        BY <4>1, <4>2, <4>3, <3>3, <3>5, <3>6, <3>7, <3>8
      <4>4. CASE i < s
        BY <4>1, <4>2, <4>4, <3>3, <3>5, <3>6, <3>7, <3>8
      <4> QED
        BY <4>3, <4>4, <3>5
    <3> QED
      BY <3>9 DEF x1, y1
  <2>5. TurnsTaken'
    BY <2>4, <1>1 DEF TurnsTaken, Lives
  <2> QED
    BY <2>3, <2>5 DEF SpreadInv
<1>4. CASE G!cgi /\ G!Send(g_sub_process_counter) /\ g_sub_process_counter' = (g_sub_process_counter + 1) % PROCESS_COUNT
  <2> DEFINE s == g_sub_process_counter
  <2>1. s \in G!Child
    BY <1>0 DEF SpreadTypes
  <2>2. \A c \in G!Child : Lives(c) => IF s >= s THEN c >= s \/ c < s ELSE c >= s /\ c < s
    BY <1>1, <2>1
  <2>3. g_sent' = [g_sent EXCEPT ![s] = @ + 1]
    BY <1>4 DEF G!Send
  <2>4. g_sub_process_counter' = (s + 1) % PROCESS_COUNT
    BY <1>4
  <2> QED
    BY <1>3, <2>1, <2>2, <2>3, <2>4
<1>5. CASE (\E c \in G!Child : Lives(c)) /\ G!Send(G!FirstLive) /\ g_sub_process_counter' = (G!FirstLive + 1) % PROCESS_COUNT
  <2>1. /\ G!FirstLive \in G!Child
        /\ \A c \in G!Child : Lives(c) =>
             IF G!FirstLive >= g_sub_process_counter
             THEN c >= G!FirstLive \/ c < g_sub_process_counter
             ELSE c >= G!FirstLive /\ c < g_sub_process_counter
    BY <1>0, <1>5, FirstFound
  <2> QED
    BY <1>3, <1>5, <2>1 DEF G!Send
<1> QED
  BY <1>2, <1>4, <1>5 DEF G!Dispatch, Lives

(* The other steps tell nobody of a connection; children die and are reaped *)
(* and none begins to live.                                                 *)
LEMMA SpreadStays ==
  ASSUME SpreadInv, UNCHANGED <<g_sub_process_counter, g_sent>>,
         g_m_pid' \in [G!Child -> G!Child \cup {-1}],
         \A c \in G!Child : g_m_pid'[c] # -1 => g_m_pid[c] # -1
  PROVE  SpreadInv'
BY DEF SpreadInv, SpreadTypes, TurnsTaken, Lives

(* Every step of a pool keeps the turns: only Dispatch moves the counter.    *)
LEMMA SpreadNext == ASSUME SpreadInv, [G!Next]_(G!vars) PROVE SpreadInv'
<1>1. CASE G!HandleSignals
  <2>1. UNCHANGED <<g_sub_process_counter, g_sent>>
    BY <1>1 DEF G!HandleSignals
  <2>2. g_m_pid' = [c \in G!Child |-> IF g_proc'[c] = "reaped" THEN -1 ELSE g_m_pid[c]]
    BY <1>1 DEF G!HandleSignals, G!Reap
  <2> QED
    BY <2>1, <2>2, SpreadStays DEF SpreadInv, SpreadTypes
<1>2. CASE G!Dispatch
  BY <1>2, SpreadDispatch
<1>3. CASE UNCHANGED <<g_m_pid, g_sub_process_counter, g_sent>>
  BY <1>3, SpreadStays DEF SpreadInv, SpreadTypes
<1>4. G!ParentStep => G!Dispatch \/ G!HandleSignals
                      \/ UNCHANGED <<g_m_pid, g_sub_process_counter, g_sent>>
  BY DEF G!ParentStep, G!ParentSetup, G!ParentWait, G!ParentStops, G!parentVars
<1>5. ASSUME NEW c \in G!Child,
             G!ChildStep(c) \/ G!ClientActs(c) \/ G!CgiEnds(c) \/ G!Crash(c) \/ G!DeliverToChild(c)
      PROVE  UNCHANGED <<g_m_pid, g_sub_process_counter, g_sent>>
  BY <1>5 DEF G!ChildStep, G!ChildSetup, G!ChildTests, G!ChildWakes, G!ChildAccepts, G!ChildSignalled,
     G!ChildServes, G!ClientActs, G!EpollReturns, G!CgiEnds, G!Crash, G!DeliverToChild, G!Dies, G!parentVars
<1>6. G!ClientConnects \/ G!Terminate \/ (\E sig \in {"TERM", "CHLD"} : G!Deliver(sig)) \/ UNCHANGED G!vars
        => UNCHANGED <<g_m_pid, g_sub_process_counter, g_sent>>
  BY DEF G!ClientConnects, G!Terminate, G!Deliver, G!vars, G!parentVars
<1> QED
  BY <1>1, <1>2, <1>3, <1>4, <1>5, <1>6 DEF G!Next, G!Kernel

(* In both pools the children that live have been told of connections in    *)
(* turn: those behind the counter of one more than those before it.         *)
THEOREM SpreadInvariant == G!Spec => []SpreadInv
<1>1. G!Init => SpreadInv
  BY SpreadInit
<1>2. SpreadInv /\ [G!Next]_(G!vars) => SpreadInv'
  BY SpreadNext
<1> QED
  BY <1>1, <1>2, PTL DEF G!Spec

(* Whichever children die and wherever the counter stands when they do, no  *)
(* child that lives is told of two connections more than another.           *)
THEOREM EvenlySpreadTheorem == G!Spec => []EvenlySpread
<1>1. SpreadInv => EvenlySpread
  <2> SUFFICES ASSUME SpreadInv, NEW c \in G!Child, NEW d \in G!Child, Lives(c), Lives(d)
               PROVE  g_sent[c] <= g_sent[d] + 1
    BY DEF EvenlySpread, G!EvenlySpread, Lives
  <2>1. g_sent[c] \in Nat /\ g_sent[d] \in Nat
    BY DEF SpreadInv, SpreadTypes
  <2> QED
    BY <2>1 DEF SpreadInv, TurnsTaken
<1> QED
  BY <1>1, SpreadInvariant, PTL
=============================================================================
