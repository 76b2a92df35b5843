------------------------ MODULE ExperimentRunProofs ------------------------
(***************************************************************************)
(* Theorems about ExperimentRun, for every plan, any number of workers and *)
(* any number of crashes: what holds of the evidence files whatever the    *)
(* executions answer and whatever the verdict makes of it; that the stage  *)
(* is READY exactly when nothing was wrong; that no contract refuses a     *)
(* record the runner builds; and that every failure stays with the one it  *)
(* belongs to.                                                             *)
(*                                                                         *)
(* All but the first rest on one invariant: what the process records is a  *)
(* function of the tasks done, in the order of the schedule, and of what   *)
(* the pairs are like (RunInv).  What is left is about that function: the  *)
(* plan and its schedule, sums over cases, what one execution yields, and  *)
(* then gate by gate and record by record.                                 *)
(***************************************************************************)
EXTENDS ExperimentRun, SharedProofs, FiniteSetTheorems, WellFoundedInduction, TLAPS

(* The phases in which the process may touch a file. *)
Writing == {"CONTRACT", "CONTRACT_OPEN", "REPORT", "REPORT_OPEN"}

(* One report at most, the file holds it or is torn, and whoever is about  *)
(* to write has that very report.  The last part is what Writable buys: it *)
(* is what makes the first two inductive.                                  *)
OneReport == \A r, s \in published : r = s
FileHoldsIt == \A r \in published : reportFile \in {Torn, Bytes(r)}
WriterHasIt == phase \in Writing => \A r \in published : r = report

EvidenceInv == semantics = "V2" => OneReport /\ FileHoldsIt /\ WriterHasIt

-----------------------------------------------------------------------------
(* The contents of a file differ from one another. *)
LEMMA ContentsDiffer ==
    /\ \A r : Bytes(r) # Absent /\ Bytes(r) # Torn
    /\ Torn # Absent
    /\ \A r, s : Bytes(r) = Bytes(s) => r = s
BY DEF Bytes, Absent, Torn

LEMMA InitEvidence == Init => EvidenceInv
BY DEF Init, EvidenceInv, OneReport, FileHoldsIt, WriterHasIt, Writing

(* What every step but a writer's leaves alone. *)
Aside ==
    /\ UNCHANGED <<semantics, published, reportFile>>
    /\ phase' \notin Writing

LEMMA AsideKeeps == EvidenceInv /\ Aside => EvidenceInv'
BY DEF EvidenceInv, Aside, OneReport, FileHoldsIt, WriterHasIt

(* Executions, verdict, analysis and restarts stay aside. *)
LEMMA WorkIsAside ==
    \/ Finish \/ Collect \/ RunReplays \/ RunCutoffs
    \/ DeriveDeltas \/ DeriveDegeneration \/ DeriveGates \/ Conclude \/ Check
    \/ FreezeSchedule \/ Diagnose \/ Restart
    => Aside
<1>1. Finish => Aside
  BY DEF Finish, Aside, Writing
<1>2. Collect => Aside
  BY DEF Collect, Aside, Writing
<1>3. RunReplays => Aside
  BY DEF RunReplays, Aside, Writing
<1>4. RunCutoffs => Aside
  BY DEF RunCutoffs, Aside, Writing
<1>5. DeriveDeltas => Aside
  BY DEF DeriveDeltas, Derive, Aside, Writing
<1>6. DeriveDegeneration => Aside
  BY DEF DeriveDegeneration, Derive, Aside, Writing
<1>7. DeriveGates => Aside
  BY DEF DeriveGates, Derive, Aside, Writing
<1>8. Conclude => Aside
  BY DEF Conclude, Aside, Writing
<1>9. Check => Aside
  BY DEF Check, Aside, Writing
<1>10. FreezeSchedule => Aside
  BY DEF FreezeSchedule, Aside, Writing
<1>11. Diagnose => Aside
  BY DEF Diagnose, Aside, Writing
<1>12. Restart => Aside
  BY DEF Restart, Fresh, Aside, Writing
<1> QED
  BY <1>1, <1>2, <1>3, <1>4, <1>5, <1>6, <1>7, <1>8, <1>9, <1>10, <1>11, <1>12

(* The preflight lets a report pass only over itself or over nothing. *)
LEMMA PreflightKeeps == EvidenceInv /\ Preflight => EvidenceInv'
<1> SUFFICES ASSUME EvidenceInv, Preflight, semantics = "V2"
             PROVE  EvidenceInv'
  BY DEF EvidenceInv, Preflight
<1>1. UNCHANGED <<semantics, published, reportFile, report>>
  BY DEF Preflight
<1>2. CASE Writable
  <2>1. reportFile \in {Absent, Bytes(report)}
    BY <1>2 DEF Writable
  <2>2. \A r \in published : r = report
    BY <2>1, ContentsDiffer DEF EvidenceInv, FileHoldsIt
  <2> QED
    BY <1>1, <2>2 DEF EvidenceInv, OneReport, FileHoldsIt, WriterHasIt
<1>3. CASE ~Writable
  <2>1. phase' \notin Writing
    BY <1>3 DEF Preflight, Writing
  <2> QED
    BY <1>1, <2>1 DEF EvidenceInv, OneReport, FileHoldsIt, WriterHasIt
<1> QED
  BY <1>2, <1>3

LEMMA WritersKeep ==
    EvidenceInv /\ (OpenContract \/ WriteContract \/ OpenReport \/ WriteReport) => EvidenceInv'
<1> SUFFICES ASSUME EvidenceInv, semantics = "V2",
                    OpenContract \/ WriteContract \/ OpenReport \/ WriteReport
             PROVE  EvidenceInv'
  BY DEF EvidenceInv, OpenContract, WriteContract, OpenReport, WriteReport
<1>1. phase \in Writing
  BY DEF OpenContract, WriteContract, OpenReport, WriteReport, Writing
<1>2. \A r \in published : r = report
  BY <1>1 DEF EvidenceInv, WriterHasIt
<1>3. CASE OpenContract \/ WriteContract
  BY <1>2, <1>3 DEF OpenContract, WriteContract, EvidenceInv, OneReport, FileHoldsIt, WriterHasIt
<1>4. CASE OpenReport
  BY <1>2, <1>4 DEF OpenReport, EvidenceInv, OneReport, FileHoldsIt, WriterHasIt
<1>5. CASE WriteReport
  <2>1. /\ published' = published \cup {report} /\ reportFile' = Bytes(report)
        /\ phase' \notin Writing
    BY <1>5 DEF WriteReport, Writing
  <2>2. \A r \in published' : r = report
    BY <1>2, <2>1
  <2> QED
    BY <2>1, <2>2 DEF EvidenceInv, OneReport, FileHoldsIt, WriterHasIt
<1> QED
  BY <1>3, <1>4, <1>5

LEMMA StutterKeeps == EvidenceInv /\ UNCHANGED vars => EvidenceInv'
BY DEF vars, EvidenceInv, OneReport, FileHoldsIt, WriterHasIt

LEMMA NextKeeps == EvidenceInv /\ [Next]_vars => EvidenceInv'
BY WorkIsAside, AsideKeeps, PreflightKeeps, WritersKeep, StutterKeeps DEF Next

(* Pairwise equal reports are one at most. *)
LEMMA OneReportCounts == OneReport => Cardinality(published) <= 1
<1> SUFFICES ASSUME OneReport PROVE Cardinality(published) <= 1
  OBVIOUS
<1>1. CASE published = {}
  BY <1>1, FS_EmptySet
<1>2. CASE published # {}
  <2>1. PICK r \in published : TRUE
    BY <1>2
  <2>2. published = {r}
    BY <2>1 DEF OneReport
  <2> QED
    BY <2>2, FS_Singleton
<1> QED
  BY <1>1, <1>2

-----------------------------------------------------------------------------
(* Whatever crashes, tears a file or is run again with another outcome, at *)
(* most one report of V2 is ever complete on disk                          *)
(* (_write_or_refuse_different and write_c008c_b_v2_evidence).             *)
THEOREM EvidenceIsAppendOnly == Spec => []EvidenceAppendOnly
<1>1. EvidenceInv => EvidenceAppendOnly
  BY OneReportCounts DEF EvidenceInv, EvidenceAppendOnly
<1> QED
  BY <1>1, InitEvidence, NextKeeps, PTL DEF Spec

(* A report V2 once completed stays where it is or is torn by a crash of   *)
(* the run that writes it again: no other report ever takes its place.     *)
THEOREM EvidenceIsNeverReplaced ==
    Spec => [](semantics = "V2" => FileHoldsIt)
<1>1. EvidenceInv => (semantics = "V2" => FileHoldsIt)
  BY DEF EvidenceInv
<1> QED
  BY <1>1, InitEvidence, NextKeeps, PTL DEF Spec

-----------------------------------------------------------------------------
(* The plan *)

LEMMA PlanFacts ==
    /\ Case \in Seq(Range(Case)) /\ Len(Case) \in Nat /\ DOMAIN Case = 1 .. Len(Case)
    /\ \A i, j \in 1 .. Len(Case) : Case[i] = Case[j] => i = j
    /\ Variant \in Seq(Range(Variant)) /\ Len(Variant) \in Nat \ {0}
    /\ DOMAIN Variant = 1 .. Len(Variant)
    /\ \A i, j \in 1 .. Len(Variant) : Variant[i] = Variant[j] => i = j
<1>1. Case \in Seq(DOMAIN SeedOf) /\ Variant \in Seq(Range(Variant)) /\ Variant # <<>>
  BY PlanAssumption
<1>2. Len(Case) \in Nat /\ DOMAIN Case = 1 .. Len(Case) /\ Case = [i \in 1 .. Len(Case) |-> Case[i]]
  BY <1>1
<1>3. Case \in Seq(Range(Case))
  <2>1. \A i \in 1 .. Len(Case) : Case[i] \in Range(Case)
    BY <1>2 DEF Range
  <2> QED
    BY <1>2, <2>1
<1>4. Len(Variant) \in Nat \ {0} /\ DOMAIN Variant = 1 .. Len(Variant)
  BY <1>1
<1> QED
  BY <1>1, <1>2, <1>3, <1>4, PlanAssumption DEF IsInjective

(* What CasesOf has selected of the first n cases, for every n up to m.    *)
Selects(chosen, partitions, m) ==
    chosen = [n \in 0 .. m |->
                 IF n = 0 THEN <<>>
                 ELSE IF PartitionOf(Case[n]) \in partitions
                      THEN Append(chosen[n - 1], Case[n]) ELSE chosen[n - 1]]

LEMMA SelectionExists ==
    ASSUME NEW partitions, NEW m \in Nat
    PROVE  \E chosen : Selects(chosen, partitions, m)
<1> DEFINE T == {k \in Nat : \E chosen : Selects(chosen, partitions, k)}
           More(s, n) == IF PartitionOf(Case[n]) \in partitions THEN Append(s, Case[n]) ELSE s
<1>1. 0 \in T
  <2> DEFINE none == [n \in 0 .. 0 |-> <<>>]
  <2>1. \A n \in 0 .. 0 : n = 0
    OBVIOUS
  <2>2. Selects(none, partitions, 0)
    BY <2>1 DEF Selects
  <2> QED
    BY <2>2
<1>2. ASSUME NEW k \in Nat, k \in T PROVE k + 1 \in T
  <2>1. PICK old : Selects(old, partitions, k)
    BY <1>2
  <2> DEFINE new == [n \in 0 .. k + 1 |-> IF n = k + 1 THEN More(old[k], k + 1) ELSE old[n]]
  <2>2. \A n \in 0 .. k : old[n] = IF n = 0 THEN <<>> ELSE More(old[n - 1], n)
    BY <2>1 DEF Selects
  <2>3. ASSUME NEW n \in 0 .. k + 1
        PROVE  new[n] = IF n = 0 THEN <<>> ELSE More(new[n - 1], n)
    <3>1. CASE n = k + 1
      <4>1. n - 1 = k /\ k \in 0 .. k + 1 /\ k # k + 1 /\ n # 0
        BY <3>1
      <4>2. new[n] = More(old[k], k + 1) /\ new[n - 1] = old[k]
        BY <3>1, <4>1
      <4> HIDE DEF new, More
      <4> QED
        BY <3>1, <4>1, <4>2
    <3>2. CASE n # k + 1
      <4>1. n \in 0 .. k /\ (n # 0 => n - 1 \in 0 .. k /\ n - 1 # k + 1)
        BY <3>2
      <4>2. new[n] = old[n] /\ (n # 0 => new[n - 1] = old[n - 1])
        BY <3>2, <4>1
      <4> HIDE DEF new, More
      <4> QED
        BY <2>2, <4>1, <4>2
    <3> QED
      BY <3>1, <3>2
  <2>4. new = [n \in 0 .. k + 1 |-> new[n]]
    OBVIOUS
  <2>5. Selects(new, partitions, k + 1)
    <3> HIDE DEF new
    <3> QED
      BY <2>3, <2>4 DEF Selects
  <2> HIDE DEF new
  <2> QED
    BY <2>5
<1> HIDE DEF T
<1>3. m \in T
  BY <1>1, <1>2, NatSetInduction
<1> QED
  BY <1>3 DEF T

(* The selected cases are those of the partitions, each of them once.      *)
Selection(s, partitions, n) ==
    /\ s \in Seq(Range(Case))
    /\ \A i \in 1 .. Len(s) : \E j \in 1 .. n : s[i] = Case[j] /\ PartitionOf(s[i]) \in partitions
    /\ \A j \in 1 .. n : PartitionOf(Case[j]) \in partitions => \E i \in 1 .. Len(s) : s[i] = Case[j]
    /\ \A i, j \in 1 .. Len(s) : s[i] = s[j] => i = j

LEMMA SelectionGrows ==
    ASSUME NEW partitions, NEW n \in Nat, n + 1 \in 1 .. Len(Case),
           NEW s, Selection(s, partitions, n), PartitionOf(Case[n + 1]) \in partitions
    PROVE  Selection(Append(s, Case[n + 1]), partitions, n + 1)
<1> DEFINE case == Case[n + 1]
           t == Append(s, case)
<1>1. s \in Seq(Range(Case)) /\ Len(s) \in Nat /\ case \in Range(Case) /\ Len(Case) \in Nat
  BY PlanFacts DEF Selection, Range
<1>2. /\ t \in Seq(Range(Case)) /\ Len(t) = Len(s) + 1
      /\ \A i \in 1 .. Len(s) : t[i] = s[i]
      /\ t[Len(s) + 1] = case
  BY <1>1
<1>3. \A i \in 1 .. Len(s) : s[i] # case
  <2> SUFFICES ASSUME NEW i \in 1 .. Len(s), s[i] = case PROVE FALSE
    OBVIOUS
  <2>1. PICK j \in 1 .. n : s[i] = Case[j]
    BY DEF Selection
  <2>2. j \in 1 .. Len(Case) /\ j # n + 1
    BY <1>1
  <2> QED
    BY <2>1, <2>2, PlanFacts
<1>4. PartitionOf(case) \in partitions
  OBVIOUS
<1> HIDE DEF case, t
<1>5. ASSUME NEW i \in 1 .. Len(t)
      PROVE  \E j \in 1 .. n + 1 : t[i] = Case[j] /\ PartitionOf(t[i]) \in partitions
  <2>1. CASE i = Len(s) + 1
    <3>1. t[i] = Case[n + 1] /\ n + 1 \in 1 .. n + 1 /\ PartitionOf(t[i]) \in partitions
      BY <1>2, <1>4, <2>1 DEF case
    <3> QED
      BY <3>1
  <2>2. CASE i # Len(s) + 1
    <3>1. i \in 1 .. Len(s) /\ t[i] = s[i]
      BY <1>1, <1>2, <2>2
    <3>2. PICK j \in 1 .. n : s[i] = Case[j] /\ PartitionOf(s[i]) \in partitions
      BY <3>1 DEF Selection
    <3>3. j \in 1 .. n + 1
      OBVIOUS
    <3> QED
      BY <3>1, <3>2, <3>3
  <2> QED
    BY <2>1, <2>2
<1>6. ASSUME NEW j \in 1 .. n + 1, PartitionOf(Case[j]) \in partitions
      PROVE  \E i \in 1 .. Len(t) : t[i] = Case[j]
  <2>1. CASE j = n + 1
    <3>1. Len(s) + 1 \in 1 .. Len(t)
      BY <1>1, <1>2
    <3> QED
      BY <1>2, <2>1, <3>1 DEF case
  <2>2. CASE j # n + 1
    <3>1. j \in 1 .. n
      BY <2>2
    <3>2. PICK i \in 1 .. Len(s) : s[i] = Case[j]
      BY <1>6, <3>1 DEF Selection
    <3>3. i \in 1 .. Len(t) /\ t[i] = s[i]
      BY <1>1, <1>2
    <3> QED
      BY <3>2, <3>3
  <2> QED
    BY <2>1, <2>2
<1>7. ASSUME NEW i \in 1 .. Len(t), NEW j \in 1 .. Len(t), t[i] = t[j] PROVE i = j
  <2>1. \A k \in 1 .. Len(t) : k = Len(s) + 1 \/ k \in 1 .. Len(s)
    BY <1>1, <1>2
  <2>2. CASE i \in 1 .. Len(s) /\ j \in 1 .. Len(s)
    BY <1>2, <1>7, <2>2 DEF Selection
  <2>3. CASE i = Len(s) + 1 /\ j \in 1 .. Len(s)
    BY <1>2, <1>3, <1>7, <2>3
  <2>4. CASE j = Len(s) + 1 /\ i \in 1 .. Len(s)
    BY <1>2, <1>3, <1>7, <2>4
  <2> QED
    BY <2>1, <2>2, <2>3, <2>4
<1>8. Selection(t, partitions, n + 1)
  BY <1>2, <1>5, <1>6, <1>7 DEF Selection
<1> QED
  BY <1>8 DEF t, case

LEMMA SelectionStays ==
    ASSUME NEW partitions, NEW n \in Nat,
           NEW s, Selection(s, partitions, n), PartitionOf(Case[n + 1]) \notin partitions
    PROVE  Selection(s, partitions, n + 1)
<1>1. \A j \in 1 .. n + 1 : j = n + 1 \/ j \in 1 .. n
  OBVIOUS
<1>2. \A j \in 1 .. n : j \in 1 .. n + 1
  OBVIOUS
<1> QED
  BY <1>1, <1>2 DEF Selection

LEMMA SelectedCases ==
    ASSUME NEW partitions
    PROVE  Selection(CasesOf(partitions), partitions, Len(Case))
<1> DEFINE n == Len(Case)
           chosen == CHOOSE f : Selects(f, partitions, n)
<1>1. n \in Nat
  BY PlanFacts
<1>2. Selects(chosen, partitions, n)
  <2> HIDE DEF n
  <2> QED
    BY <1>1, SelectionExists
<1>3. CasesOf(partitions) = chosen[n]
  BY DEF CasesOf, Selects
<1> HIDE DEF chosen
<1>4. \A k \in 0 .. n : chosen[k] =
          IF k = 0 THEN <<>>
          ELSE IF PartitionOf(Case[k]) \in partitions
               THEN Append(chosen[k - 1], Case[k]) ELSE chosen[k - 1]
  BY <1>2 DEF Selects
<1> DEFINE T == {k \in Nat : k > n \/ Selection(chosen[k], partitions, k)}
<1> HIDE DEF n
<1>5. 0 \in T
  <2>1. chosen[0] = <<>>
    BY <1>1, <1>4
  <2>2. Selection(<<>>, partitions, 0)
    BY DEF Selection
  <2> QED
    BY <2>1, <2>2
<1>6. ASSUME NEW k \in Nat, k \in T PROVE k + 1 \in T
  <2>1. CASE k + 1 > n
    BY <2>1
  <2>2. CASE k + 1 <= n
    <3>1. /\ k + 1 \in 0 .. n /\ k + 1 # 0 /\ (k + 1) - 1 = k /\ k + 1 \in 1 .. Len(Case)
          /\ ~(k > n)
      BY <1>1, <2>2 DEF n
    <3>2. Selection(chosen[k], partitions, k)
      BY <1>6, <3>1
    <3>3. CASE PartitionOf(Case[k + 1]) \in partitions
      <4>1. chosen[k + 1] = Append(chosen[k], Case[k + 1])
        BY <1>4, <3>1, <3>3
      <4>2. Selection(Append(chosen[k], Case[k + 1]), partitions, k + 1)
        BY <3>1, <3>2, <3>3, SelectionGrows
      <4>3. Selection(chosen[k + 1], partitions, k + 1)
        BY <4>1, <4>2, Zenon
      <4> QED
        BY <4>3
    <3>4. CASE PartitionOf(Case[k + 1]) \notin partitions
      <4>1. chosen[k + 1] = chosen[k]
        BY <1>4, <3>1, <3>4
      <4>2. Selection(chosen[k], partitions, k + 1)
        BY <3>2, <3>4, SelectionStays
      <4>3. Selection(chosen[k + 1], partitions, k + 1)
        BY <4>1, <4>2, Zenon
      <4> QED
        BY <4>3
    <3> QED
      BY <3>3, <3>4
  <2> QED
    BY <1>1, <2>1, <2>2
<1> HIDE DEF T
<1>7. n \in T
  BY <1>1, <1>5, <1>6, NatSetInduction
<1>8. Selection(chosen[n], partitions, n)
  BY <1>1, <1>7 DEF T
<1> QED
  BY <1>3, <1>8 DEF n

(* The index of a pair is made of those of its case and its variant.       *)
LEMMA Divided ==
    ASSUME NEW v \in Nat \ {0}, NEW k \in Nat
    PROVE  k \div v \in Nat /\ k % v \in 0 .. v - 1 /\ k = v * (k \div v) + (k % v)
OBVIOUS

LEMMA Composed ==
    ASSUME NEW v \in Nat \ {0}, NEW c \in Nat, NEW q \in 0 .. c - 1, NEW r \in 0 .. v - 1
    PROVE  /\ v * q + r \in 0 .. c * v - 1
           /\ (v * q + r) \div v = q /\ (v * q + r) % v = r
<1> DEFINE k == v * q + r
<1>1. k \in Nat /\ q \in Nat /\ r \in Nat
  OBVIOUS
<1>2. v * q + v <= c * v
  <2>1. q + 1 <= c /\ c - (q + 1) \in Nat
    OBVIOUS
  <2>2. v * (c - (q + 1)) >= 0
    BY <2>1
  <2>3. v * (c - (q + 1)) = c * v - (v * q + v)
    OBVIOUS
  <2> QED
    BY <2>2, <2>3
<1>3. k <= c * v - 1
  BY <1>1, <1>2
<1>4. k \div v \in Nat /\ k % v \in 0 .. v - 1 /\ k = v * (k \div v) + (k % v)
  BY <1>1, Divided
<1>5. \A a, b \in Nat : \A s, t \in 0 .. v - 1 : v * a + s = v * b + t => a = b /\ s = t
  <2> SUFFICES ASSUME NEW a \in Nat, NEW b \in Nat, NEW s \in 0 .. v - 1, NEW t \in 0 .. v - 1,
                      v * a + s = v * b + t
               PROVE  a = b
    OBVIOUS
  <2>1. ~(a < b)
    <3> SUFFICES ASSUME a < b PROVE FALSE
      OBVIOUS
    <3>1. v * (b - a) = s - t
      OBVIOUS
    <3>2. b - a >= 1 /\ v * (b - a) >= v
      OBVIOUS
    <3> QED
      BY <3>1, <3>2
  <2>2. ~(b < a)
    <3> SUFFICES ASSUME b < a PROVE FALSE
      OBVIOUS
    <3>1. v * (a - b) = t - s
      OBVIOUS
    <3>2. a - b >= 1 /\ v * (a - b) >= v
      OBVIOUS
    <3> QED
      BY <3>1, <3>2
  <2> QED
    BY <2>1, <2>2
<1>6. k \div v = q /\ k % v = r
  <2> DEFINE a == k \div v
             s == k % v
  <2>1. a \in Nat /\ s \in 0 .. v - 1 /\ v * a + s = v * q + r
    BY <1>4
  <2> HIDE DEF a, s, k
  <2>2. a = q /\ s = r
    BY <1>1, <1>5, <2>1
  <2> QED
    BY <2>2 DEF a, s
<1>7. k \in 0 .. c * v - 1
  BY <1>1, <1>3
<1> QED
  BY <1>6, <1>7

(* Every case with every variant, each pair once.                          *)
LEMMA PairsFacts ==
    ASSUME NEW cases \in Seq(Range(Case)), \A i, j \in 1 .. Len(cases) : cases[i] = cases[j] => i = j
    PROVE  LET n == Len(cases) * Len(Variant)
           IN  /\ n \in Nat /\ DOMAIN PairsOf(cases) = 1 .. n
               /\ Range(PairsOf(cases)) = [case : Range(cases), variant : Range(Variant)]
               /\ \A i, j \in 1 .. n : PairsOf(cases)[i] = PairsOf(cases)[j] => i = j
<1> DEFINE c == Len(cases)
           v == Len(Variant)
           n == c * v
           Pair(i) == [case |-> cases[((i - 1) \div v) + 1], variant |-> Variant[((i - 1) % v) + 1]]
<1>1. c \in Nat /\ v \in Nat \ {0} /\ DOMAIN cases = 1 .. c /\ DOMAIN Variant = 1 .. v
  BY PlanFacts
<1>2. PairsOf(cases) = [i \in 1 .. n |-> Pair(i)]
  BY DEF PairsOf
<1>3. n \in Nat
  BY <1>1
<1> HIDE DEF c, v
<1>4. ASSUME NEW i \in 1 .. n
      PROVE  /\ i - 1 \in Nat /\ (i - 1) \div v \in Nat /\ (i - 1) % v \in Nat
             /\ ((i - 1) \div v) + 1 \in 1 .. c /\ ((i - 1) % v) + 1 \in 1 .. v
             /\ i = v * ((i - 1) \div v) + ((i - 1) % v) + 1
  <2> DEFINE q == (i - 1) \div v
             r == (i - 1) % v
  <2>1. i - 1 \in Nat /\ q \in Nat /\ r \in 0 .. v - 1 /\ i - 1 = v * q + r
    <3> DEFINE k == i - 1
    <3>1. k \in Nat
      <4> HIDE DEF n
      <4> QED
        BY <1>3
    <3> HIDE DEF k
    <3>2. k \div v \in Nat /\ k % v \in 0 .. v - 1 /\ k = v * (k \div v) + (k % v)
      BY <1>1, <3>1, Divided
    <3> QED
      BY <3>1, <3>2 DEF k
  <2>2. i <= c * v
    BY <1>3
  <2> HIDE DEF q, r, n
  <2>3. q < c
    <3> SUFFICES ASSUME q >= c PROVE FALSE
      BY <1>1, <2>1
    <3>1. q - c \in Nat /\ v * (q - c) >= 0
      BY <1>1, <2>1
    <3>2. v * q >= c * v
      <4>1. v * (q - c) = v * q - c * v
        BY <1>1, <2>1
      <4> QED
        BY <1>1, <2>1, <3>1, <4>1
    <3> QED
      BY <1>1, <2>1, <2>2, <3>2
  <2>4. q + 1 \in 1 .. c /\ r + 1 \in 1 .. v /\ i = v * q + r + 1
    BY <1>1, <2>1, <2>3
  <2> QED
    BY <2>1, <2>4 DEF q, r
<1>5. Range(PairsOf(cases)) = {Pair(i) : i \in 1 .. n}
  BY <1>2 DEF Range
<1>6. ASSUME NEW i \in 1 .. n PROVE Pair(i) \in [case : Range(cases), variant : Range(Variant)]
  <2>1. ((i - 1) \div v) + 1 \in DOMAIN cases /\ ((i - 1) % v) + 1 \in DOMAIN Variant
    BY <1>1, <1>4
  <2> QED
    BY <2>1 DEF Range
<1>7. ASSUME NEW p \in [case : Range(cases), variant : Range(Variant)]
      PROVE  \E i \in 1 .. n : p = Pair(i)
  <2>1. PICK a \in 1 .. c : p.case = cases[a]
    BY <1>1 DEF Range
  <2>2. PICK b \in 1 .. v : p.variant = Variant[b]
    BY <1>1 DEF Range
  <2> DEFINE i == v * (a - 1) + (b - 1) + 1
  <2>3. a - 1 \in 0 .. c - 1 /\ b - 1 \in 0 .. v - 1
    BY <1>1
  <2>4. /\ v * (a - 1) + (b - 1) \in 0 .. c * v - 1
        /\ (v * (a - 1) + (b - 1)) \div v = a - 1 /\ (v * (a - 1) + (b - 1)) % v = b - 1
    BY <1>1, <2>3, Composed
  <2> DEFINE k == v * (a - 1) + (b - 1)
  <2> HIDE DEF k
  <2>5. i = k + 1 /\ k \in 0 .. n - 1 /\ k \div v = a - 1 /\ k % v = b - 1
    BY <2>4 DEF k
  <2> HIDE DEF i, n
  <2>6. i \in 1 .. n /\ i - 1 = k
    BY <1>3, <2>5
  <2>7. ((i - 1) \div v) + 1 = a /\ ((i - 1) % v) + 1 = b
    BY <2>3, <2>5, <2>6
  <2>8. p = [case |-> cases[a], variant |-> Variant[b]]
    BY <2>1, <2>2
  <2>9. p = Pair(i)
    BY <2>7, <2>8
  <2> QED
    BY <2>6, <2>9
<1>8. ASSUME NEW i \in 1 .. n, NEW j \in 1 .. n, Pair(i) = Pair(j) PROVE i = j
  <2>1. /\ cases[((i - 1) \div v) + 1] = cases[((j - 1) \div v) + 1]
        /\ Variant[((i - 1) % v) + 1] = Variant[((j - 1) % v) + 1]
    BY <1>8
  <2>2. ((i - 1) \div v) + 1 = ((j - 1) \div v) + 1 /\ ((i - 1) % v) + 1 = ((j - 1) % v) + 1
    <3>1. /\ \A a, b \in 1 .. c : cases[a] = cases[b] => a = b
          /\ \A a, b \in 1 .. v : Variant[a] = Variant[b] => a = b
      BY PlanFacts DEF c, v
    <3> QED
      BY <1>4, <2>1, <3>1, Zenon
  <2> DEFINE q == (i - 1) \div v
             r == (i - 1) % v
             s == (j - 1) \div v
             t == (j - 1) % v
  <2>3. /\ q + 1 = s + 1 /\ r + 1 = t + 1 /\ i = v * q + r + 1 /\ j = v * s + t + 1
        /\ q \in Nat /\ s \in Nat /\ r \in Nat /\ t \in Nat
    <3>1. /\ i = v * q + r + 1 /\ q \in Nat /\ r \in Nat
      BY <1>4, Zenon
    <3>2. /\ j = v * s + t + 1 /\ s \in Nat /\ t \in Nat
      BY <1>4, Zenon
    <3> QED
      BY <2>2, <3>1, <3>2, Zenon
  <2> HIDE DEF q, r, s, t
  <2>4. q = s /\ r = t
    BY <2>3
  <2>5. i = j
    BY <2>3, <2>4
  <2> QED
    BY <2>5
<1> HIDE DEF Pair, n
<1>9. /\ DOMAIN PairsOf(cases) = 1 .. n
      /\ \A i \in 1 .. n : PairsOf(cases)[i] = Pair(i)
  BY <1>2
<1>10. Range(PairsOf(cases)) = [case : Range(cases), variant : Range(Variant)]
  BY <1>5, <1>6, <1>7
<1>11. \A i, j \in 1 .. n : PairsOf(cases)[i] = PairsOf(cases)[j] => i = j
  BY <1>8, <1>9
<1>12. n = Len(cases) * Len(Variant)
  BY DEF n, c, v
<1> QED
  BY <1>3, <1>9, <1>10, <1>11, <1>12

-----------------------------------------------------------------------------
(* The schedule *)

LEMMA VariantFacts ==
    /\ Baseline \in Range(Variant) /\ Range(Others) \subseteq Range(Variant)
    /\ Range(Variant) = {Baseline} \cup Range(Others)
    /\ Others \in Seq(Range(Variant)) /\ Len(Others) = Len(Variant) - 1
    /\ \A i \in 1 .. Len(Others) : Others[i] = Variant[i + 1]
<1>1. /\ Variant \in Seq(Range(Variant)) /\ Len(Variant) \in Nat \ {0}
      /\ DOMAIN Variant = 1 .. Len(Variant)
  BY PlanFacts
<1>2. /\ Others \in Seq(Range(Variant)) /\ Len(Others) = Len(Variant) - 1
      /\ DOMAIN Others = 1 .. Len(Others)
      /\ \A i \in 1 .. Len(Others) : Others[i] = Variant[i + 1]
  <2>1. Variant # <<>>
    BY <1>1
  <2> QED
    BY <1>1, <2>1 DEF Others
<1>3. Baseline \in Range(Variant)
  BY <1>1 DEF Baseline, Range
<1>4. \A i \in 1 .. Len(Others) : i + 1 \in DOMAIN Variant
  BY <1>1, <1>2
<1>5. Range(Others) \subseteq Range(Variant)
  BY <1>2, <1>4 DEF Range
<1>6. ASSUME NEW v \in Range(Variant), v # Baseline PROVE v \in Range(Others)
  <2>1. PICK i \in 1 .. Len(Variant) : v = Variant[i]
    BY <1>1 DEF Range
  <2>2. i # 1
    BY <1>6, <2>1 DEF Baseline
  <2>3. i - 1 \in 1 .. Len(Others) /\ (i - 1) + 1 = i
    BY <1>1, <1>2, <2>2
  <2>4. Others[i - 1] = v
    BY <1>2, <2>1, <2>3
  <2> QED
    BY <1>2, <2>3, <2>4 DEF Range
<1> QED
  BY <1>2, <1>3, <1>5, <1>6

(* A list without repetitions is as long as what it holds is large.        *)
LEMMA RangeFacts ==
    ASSUME NEW T, NEW n \in Nat, NEW f \in [1 .. n -> T]
    PROVE  /\ IsFiniteSet(Range(f))
           /\ (\A i, j \in 1 .. n : f[i] = f[j] => i = j) => Cardinality(Range(f)) = n
<1>1. IsFiniteSet(1 .. n) /\ Cardinality(1 .. n) = n
  BY FS_Interval
<1>2. f \in Surjection(1 .. n, Range(f))
  BY DEF Surjection, Range
<1>3. /\ IsFiniteSet(Range(f))
      /\ Cardinality(Range(f)) = Cardinality(1 .. n) <=> f \in Injection(1 .. n, Range(f))
  BY <1>1, <1>2, FS_Surjection
<1>4. (\A i, j \in 1 .. n : f[i] = f[j] => i = j) => f \in Injection(1 .. n, Range(f))
  BY <1>2 DEF Surjection, Injection, IsInjective
<1> QED
  BY <1>1, <1>3, <1>4

LEMMA ListSize ==
    ASSUME NEW T, NEW n \in Nat, NEW f \in [1 .. n -> T],
           \A i \in 1 .. n : \A j \in 1 .. n : f[i] = f[j] => i = j
    PROVE  IsFiniteSet(Range(f)) /\ Cardinality(Range(f)) = n
<1>1. IsFiniteSet(1 .. n) /\ Cardinality(1 .. n) = n
  <2>1. Cardinality(1 .. n) = IF 1 > n THEN 0 ELSE n - 1 + 1
    BY FS_Interval
  <2> QED
    BY <2>1, FS_Interval
<1>2. f \in Surjection(1 .. n, Range(f))
  BY DEF Surjection, Range
<1>3. f \in Injection(1 .. n, Range(f))
  BY <1>2 DEF Surjection, Injection, IsInjective
<1> QED
  BY <1>1, <1>2, <1>3, FS_Surjection

Executed == {case \in Range(Case) : PartitionOf(case) # "OOS"}

LEMMA CaseFacts ==
    /\ IsFiniteSet(Range(Case)) /\ IsFiniteSet(Range(Variant))
    /\ \A case : PartitionOf(case) \in {"DEVELOPMENT", "VALIDATION", "OOS"}
    /\ Range(ExecutableCase) = Executed
    /\ ExecutableCase \in Seq(Range(Case))
    /\ \A i, j \in 1 .. Len(ExecutableCase) : ExecutableCase[i] = ExecutableCase[j] => i = j
<1>1. IsFiniteSet(Range(Case)) /\ IsFiniteSet(Range(Variant))
  <2>1. Case \in [1 .. Len(Case) -> Range(Case)] /\ Len(Case) \in Nat
    BY PlanFacts
  <2>2. Variant \in [1 .. Len(Variant) -> Range(Variant)] /\ Len(Variant) \in Nat
    BY PlanFacts
  <2> QED
    BY <2>1, <2>2, RangeFacts
<1>2. \A case : PartitionOf(case) \in {"DEVELOPMENT", "VALIDATION", "OOS"}
  BY DEF PartitionOf
<1>3. Selection(ExecutableCase, {"DEVELOPMENT", "VALIDATION"}, Len(Case))
  BY SelectedCases DEF ExecutableCase
<1>4. /\ ExecutableCase \in Seq(Range(Case)) /\ Len(ExecutableCase) \in Nat
      /\ DOMAIN ExecutableCase = 1 .. Len(ExecutableCase)
      /\ \A i, j \in 1 .. Len(ExecutableCase) : ExecutableCase[i] = ExecutableCase[j] => i = j
  BY <1>3 DEF Selection
<1>5. ASSUME NEW case \in Range(ExecutableCase) PROVE case \in Executed
  <2>1. PICK i \in 1 .. Len(ExecutableCase) : case = ExecutableCase[i]
    BY <1>4 DEF Range
  <2>2. case \in Range(Case) /\ PartitionOf(case) \in {"DEVELOPMENT", "VALIDATION"}
    BY <1>3, <1>4, <2>1 DEF Selection
  <2> QED
    BY <2>2 DEF Executed
<1>6. ASSUME NEW case \in Executed PROVE case \in Range(ExecutableCase)
  <2>1. PICK j \in 1 .. Len(Case) : case = Case[j]
    BY PlanFacts DEF Executed, Range
  <2>2. PartitionOf(Case[j]) \in {"DEVELOPMENT", "VALIDATION"}
    BY <1>2, <2>1 DEF Executed
  <2>3. PICK i \in 1 .. Len(ExecutableCase) : ExecutableCase[i] = case
    BY <1>3, <2>1, <2>2 DEF Selection
  <2> QED
    BY <1>4, <2>3 DEF Range
<1> QED
  BY <1>1, <1>2, <1>4, <1>5, <1>6

(* Every executable case with every variant is scheduled, once.            *)
LEMMA ScheduleFacts ==
    /\ \E n \in Nat : DOMAIN Schedule = 1 .. n
    /\ Pairs = [case : Executed, variant : Range(Variant)]
    /\ \A i \in DOMAIN Schedule : Schedule[i] \in Pairs
    /\ \A i, j \in DOMAIN Schedule : Schedule[i] = Schedule[j] => i = j
    /\ IsFiniteSet(Pairs)
<1>1. /\ ExecutableCase \in Seq(Range(Case)) /\ Range(ExecutableCase) = Executed
      /\ \A i, j \in 1 .. Len(ExecutableCase) : ExecutableCase[i] = ExecutableCase[j] => i = j
  BY CaseFacts
<1> DEFINE n == Len(ExecutableCase) * Len(Variant)
<1>2. /\ n \in Nat /\ DOMAIN Schedule = 1 .. n
      /\ Pairs = [case : Executed, variant : Range(Variant)]
      /\ \A i, j \in 1 .. n : Schedule[i] = Schedule[j] => i = j
  BY <1>1, PairsFacts DEF Schedule, ExecutionPair, Pairs
<1> HIDE DEF n
<1>3. Schedule = [i \in 1 .. n |-> Schedule[i]]
  BY <1>2 DEF Schedule, ExecutionPair, PairsOf
<1>4. \A i \in DOMAIN Schedule : Schedule[i] \in Pairs
  BY DEF Pairs, Range
<1>5. Schedule \in [1 .. n -> Pairs]
  BY <1>2, <1>3, <1>4
<1>6. IsFiniteSet(Pairs)
  BY <1>2, <1>5, RangeFacts DEF Pairs
<1> QED
  BY <1>2, <1>4, <1>6

(* What is replayed and what is cut off is scheduled.                      *)
LEMMA SamplesAreScheduled ==
    /\ ReplaySample \subseteq Pairs
    /\ \A pair \in Pairs : pair \in ReplaySample <=>
           pair.variant = Baseline \/ PartitionOf(pair.case) = "VALIDATION"
    /\ \A case \in Range(ExecutableCase) : BaselineOf(case) \in Pairs
    /\ \A case \in CasesIn("VALIDATION"), variant \in Range(Variant) :
           [case |-> case, variant |-> variant] \in Pairs
    /\ CasesIn("VALIDATION") \subseteq Executed /\ IsFiniteSet(CasesIn("VALIDATION"))
<1>1. Range(ExecutableCase) = Executed /\ IsFiniteSet(Range(Case))
  BY CaseFacts
<1>2. Pairs = [case : Executed, variant : Range(Variant)]
  BY ScheduleFacts
<1>3. /\ Baseline \in Range(Variant) /\ Range(Others) \subseteq Range(Variant)
      /\ Range(Variant) = {Baseline} \cup Range(Others)
  BY VariantFacts
<1>4. CasesIn("VALIDATION") \subseteq Executed /\ CasesIn("VALIDATION") \subseteq Range(Case)
  BY DEF CasesIn, Executed
<1>5. IsFiniteSet(CasesIn("VALIDATION"))
  BY <1>1, <1>4, FS_Subset
<1>6. ReplaySample \subseteq Pairs
  BY <1>1, <1>2, <1>3, <1>4 DEF ReplaySample, BaselineSample, VariantSample
<1>7. ASSUME NEW pair \in Pairs
      PROVE  pair \in ReplaySample <=>
                 pair.variant = Baseline \/ PartitionOf(pair.case) = "VALIDATION"
  <2>1. /\ pair = [case |-> pair.case, variant |-> pair.variant]
        /\ pair.case \in Executed /\ pair.variant \in Range(Variant)
    BY <1>2
  <2>2. pair \in BaselineSample <=> pair.variant = Baseline
    BY <1>1, <2>1 DEF BaselineSample
  <2>3. pair \in VariantSample <=>
            PartitionOf(pair.case) = "VALIDATION" /\ pair.variant \in Range(Others)
    BY <2>1 DEF VariantSample, CasesIn, Executed
  <2> QED
    BY <1>3, <2>1, <2>2, <2>3 DEF ReplaySample
<1>8. \A case \in Range(ExecutableCase) : BaselineOf(case) \in Pairs
  BY <1>1, <1>2, <1>3 DEF BaselineOf
<1>9. \A case \in CasesIn("VALIDATION"), variant \in Range(Variant) :
          [case |-> case, variant |-> variant] \in Pairs
  BY <1>2, <1>4
<1> QED
  BY <1>4, <1>5, <1>6, <1>7, <1>8, <1>9

-----------------------------------------------------------------------------
(* What the process records *)

IndexOf(pair) == CHOOSE index \in DOMAIN Schedule : Schedule[index] = pair
Of(pair) == Outcome(completed[IndexOf(pair)])

Results == [pair \in Pairs |-> Of(pair).result]
Repeats == [pair \in Pairs |-> Of(pair).repeat.status]
Sames == IF semantics = "V1" THEN None ELSE [pair \in Pairs |-> Of(pair).same.status]
Replays ==
    [sample \in ReplaySample |->
        ExecuteSample(Answer(sample, "NORMAL", FALSE), Answer(sample, "REPLAY", FALSE))]
Cutoffs ==
    [case \in Range(ExecutableCase) |->
        ExecuteCutoffs(Answer(BaselineOf(case), "NORMAL", FALSE),
                       CheckpointsOf[nature[BaselineOf(case)]])]
Basis == [results |-> Results, repeats |-> Repeats, sames |-> Sames,
          replays |-> Replays, cutoffs |-> Cutoffs]
Deltas == CalculateDeltas(Results)
Degeneration == EvaluateDegeneration(semantics, Basis, Deltas)
Gates == EvaluateGates(semantics, Basis, Degeneration)
Findings == [results |-> Results, repeats |-> Repeats, sames |-> Sames,
             replays |-> Replays, cutoffs |-> Cutoffs,
             deltas |-> Deltas, degeneration |-> Degeneration, gates |-> Gates]

(* The tasks done: while workers run in any order, then one per pair, each *)
(* at its place in the schedule.                                           *)
Task == [index : DOMAIN Schedule, drift : Execution]
Allowed(task) ==
    /\ task.drift = "B" => semantics = "V2"
    /\ task.drift # "NONE" => AnswerOf[nature[Schedule[task.index]]]["NORMAL"].ran
TaskInv ==
    /\ semantics \in {"V1", "V2"} /\ nature \in [Pairs -> Nature]
    /\ \A position \in DOMAIN completed :
           completed[position] \in Task /\ Allowed(completed[position])
    /\ phase = "PRIMARY" => completed \in Seq(Task)
    /\ phase # "PRIMARY" =>
           /\ DOMAIN completed = DOMAIN Schedule
           /\ \A index \in DOMAIN Schedule : completed[index].index = index

Part == {"results", "repeats", "sames", "replays", "cutoffs",
         "deltas", "degeneration", "gates"}

(* What the evidence holds from which phase on.                            *)
From(first) ==
    CASE first = "REPLAY" -> {"REPLAY", "CUTOFF", "DELTAS", "DEGENERATION", "GATES", "JUDGE"}
      [] first = "CUTOFF" -> {"CUTOFF", "DELTAS", "DEGENERATION", "GATES", "JUDGE"}
      [] first = "DELTAS" -> {"DELTAS", "DEGENERATION", "GATES", "JUDGE"}
      [] first = "DEGENERATION" -> {"DEGENERATION", "GATES", "JUDGE"}
      [] first = "GATES" -> {"GATES", "JUDGE"}
      [] OTHER -> {"JUDGE"}
RecordInv ==
    /\ phase \in From("REPLAY") =>
           /\ evidence = [part \in Part |-> evidence[part]]
           /\ evidence["results"] = Results
           /\ evidence["repeats"] = Repeats
           /\ evidence["sames"] = Sames
    /\ phase \in From("CUTOFF") => evidence["replays"] = Replays
    /\ phase \in From("DELTAS") => evidence["cutoffs"] = Cutoffs
    /\ phase \in From("DEGENERATION") => evidence["deltas"] = Deltas
    /\ phase \in From("GATES") => evidence["degeneration"] = Degeneration
    /\ phase \in From("JUDGE") => evidence["gates"] = Gates

(* What a report says once there is one.                                   *)
Unjudged == From("REPLAY") \cup {"PRIMARY", "RAISED"}
ReportInv == phase \notin Unjudged => report = Judge(semantics, Findings)

RunInv == TaskInv /\ RecordInv /\ ReportInv

(* What every step after the primary executions leaves alone.              *)
Settled == UNCHANGED <<semantics, nature, completed>>

LEMMA SettledRecords ==
    Settled => /\ Results' = Results /\ Repeats' = Repeats /\ Sames' = Sames
               /\ Replays' = Replays /\ Cutoffs' = Cutoffs /\ Basis' = Basis
               /\ Deltas' = Deltas /\ Degeneration' = Degeneration /\ Gates' = Gates
               /\ Findings' = Findings
<1> SUFFICES ASSUME Settled
             PROVE  /\ Results' = Results /\ Repeats' = Repeats /\ Sames' = Sames
                    /\ Replays' = Replays /\ Cutoffs' = Cutoffs /\ Basis' = Basis
                    /\ Deltas' = Deltas /\ Degeneration' = Degeneration /\ Gates' = Gates
                    /\ Findings' = Findings
  OBVIOUS
<1>1. semantics' = semantics /\ nature' = nature /\ completed' = completed
  BY DEF Settled
<1>2. \A pair : Of(pair)' = Of(pair)
  BY <1>1 DEF Of, Outcome, Answer
<1>3. Results' = Results
  BY <1>2 DEF Results
<1>4. Repeats' = Repeats /\ Sames' = Sames
  BY <1>1, <1>2 DEF Repeats, Sames
<1>5. Replays' = Replays
  BY <1>1 DEF Replays, Answer
<1>6. Cutoffs' = Cutoffs
  BY <1>1 DEF Cutoffs, Answer
<1>7. Basis' = Basis /\ Deltas' = Deltas
  BY <1>3, <1>4, <1>5, <1>6 DEF Basis, Deltas
<1>8. Degeneration' = Degeneration
  BY <1>1, <1>7 DEF Degeneration
<1>9. Gates' = Gates
  BY <1>1, <1>7, <1>8 DEF Gates
<1> QED
  BY <1>3, <1>4, <1>5, <1>6, <1>7, <1>8, <1>9 DEF Findings

LEMMA SettledTasks ==
    TaskInv /\ Settled /\ phase # "PRIMARY" /\ phase' # "PRIMARY" => TaskInv'
BY DEF TaskInv, Settled, Allowed, Task

(* A step that settles one part of the evidence.                           *)
LEMMA OnePart ==
    ASSUME NEW e, e = [part \in Part |-> e[part]], NEW part \in Part, NEW value
    PROVE  LET new == [e EXCEPT ![part] = value]
           IN  /\ new = [other \in Part |-> new[other]]
               /\ new[part] = value
               /\ \A other \in Part \ {part} : new[other] = e[other]
OBVIOUS

(* The next part only.                                                     *)
LEMMA NextPart ==
    ASSUME RunInv, Settled, phase \in From("REPLAY"), NEW part \in Part, NEW value,
           evidence' = [evidence EXCEPT ![part] = value], part \notin {"results", "repeats", "sames"}
    PROVE  /\ evidence' = [other \in Part |-> evidence'[other]]
           /\ evidence'[part] = value
           /\ \A other \in Part \ {part} : evidence'[other] = evidence[other]
           /\ evidence'["results"] = Results'
           /\ evidence'["repeats"] = Repeats'
           /\ evidence'["sames"] = Sames'
<1>1. evidence = [other \in Part |-> evidence[other]]
  BY DEF RunInv, RecordInv
<1>2. /\ evidence["results"] = Results /\ evidence["repeats"] = Repeats
      /\ evidence["sames"] = Sames
  BY DEF RunInv, RecordInv
<1>3. /\ evidence' = [other \in Part |-> evidence'[other]]
      /\ evidence'[part] = value
      /\ \A other \in Part \ {part} : evidence'[other] = evidence[other]
  BY <1>1, OnePart
<1>4. "results" \in Part /\ "repeats" \in Part /\ "sames" \in Part
  BY DEF Part
<1> QED
  BY <1>2, <1>3, <1>4, SettledRecords

LEMMA InitRun == Init => RunInv
<1> SUFFICES ASSUME Init PROVE RunInv
  OBVIOUS
<1>1. phase = "PRIMARY" /\ completed = <<>> /\ semantics \in {"V1", "V2"}
  BY DEF Init
<1>2. nature \in [Pairs -> Nature]
  <2>1. PICK dirty : \E flaw \in [dirty -> Nature \ {"CLEAN"}] :
            nature = [pair \in Pairs |-> IF pair \in dirty THEN flaw[pair] ELSE "CLEAN"]
    BY DEF Init
  <2>2. "CLEAN" \in Nature
    BY AnswerAssumption
  <2> QED
    BY <2>1, <2>2
<1>3. <<>> \in Seq(Task) /\ DOMAIN <<>> = {}
  OBVIOUS
<1>4. TaskInv
  BY <1>1, <1>2, <1>3 DEF TaskInv
<1> QED
  BY <1>1, <1>4 DEF RunInv, RecordInv, ReportInv, From, Unjudged

(* What a list holds with one more at its end.                             *)
LEMMA AppendedOne ==
    ASSUME NEW T, NEW s \in Seq(T), NEW x \in T
    PROVE  /\ Append(s, x) \in Seq(T)
           /\ \A position \in DOMAIN Append(s, x) :
                  \/ Append(s, x)[position] = x
                  \/ position \in DOMAIN s /\ Append(s, x)[position] = s[position]
OBVIOUS

LEMMA FinishKeeps == RunInv /\ Finish => RunInv'
<1> SUFFICES ASSUME RunInv, Finish PROVE RunInv'
  OBVIOUS
<1>1. /\ phase = "PRIMARY" /\ phase' = phase /\ semantics' = semantics /\ nature' = nature
      /\ report' = report /\ evidence' = evidence
  BY DEF Finish
<1>2. completed \in Seq(Task) /\ TaskInv
  BY <1>1 DEF RunInv, TaskInv
<1>3. PICK index \in Running, drift \in Execution :
          /\ drift = "B" => semantics = "V2"
          /\ drift # "NONE" => AnswerOf[nature[Schedule[index]]]["NORMAL"].ran
          /\ completed' = Append(completed, [index |-> index, drift |-> drift])
  BY DEF Finish
<1> DEFINE task == [index |-> index, drift |-> drift]
<1>4. task \in Task /\ Allowed(task)
  BY <1>3 DEF Running, Waiting, Task, Allowed
<1>5. /\ completed' \in Seq(Task)
      /\ \A position \in DOMAIN completed' :
             \/ completed'[position] = task
             \/ position \in DOMAIN completed /\ completed'[position] = completed[position]
  <2>1. completed' = Append(completed, task) /\ completed \in Seq(Task) /\ task \in Task
    BY <1>2, <1>3, <1>4
  <2> HIDE DEF task
  <2> QED
    BY <2>1, AppendedOne
<1> HIDE DEF task
<1>6. ASSUME NEW position \in DOMAIN completed'
      PROVE  completed'[position] \in Task /\ Allowed(completed'[position])
  BY <1>2, <1>4, <1>5 DEF TaskInv
<1>7. TaskInv'
  BY <1>1, <1>2, <1>5, <1>6 DEF TaskInv, Allowed, Task
<1> QED
  BY <1>1, <1>7 DEF RunInv, RecordInv, ReportInv, From, Unjudged

(* Every pair has its task, at its place.                                  *)
LEMMA YieldedTasks ==
    ASSUME TaskInv, Waiting = {}
    PROVE  /\ DOMAIN Yielded = DOMAIN Schedule
           /\ \A index \in DOMAIN Schedule :
                  /\ Yielded[index] \in Task /\ Allowed(Yielded[index])
                  /\ Yielded[index].index = index
<1>1. ASSUME NEW index \in DOMAIN Schedule
      PROVE  /\ Yielded[index] \in Task /\ Allowed(Yielded[index])
             /\ Yielded[index].index = index
  <2>1. index \in Done
    BY DEF Waiting
  <2>2. \E task \in Range(completed) : task.index = index
    BY <2>1 DEF Done, Range
  <2>3. Yielded[index] = CHOOSE task \in Range(completed) : task.index = index
    BY DEF Yielded
  <2>4. Yielded[index] \in Range(completed) /\ Yielded[index].index = index
    BY <2>2, <2>3
  <2>5. \A task \in Range(completed) : task \in Task /\ Allowed(task)
    BY DEF TaskInv, Range
  <2> QED
    BY <2>4, <2>5
<1> QED
  BY <1>1 DEF Yielded

LEMMA CollectKeeps == RunInv /\ Collect => RunInv'
<1> SUFFICES ASSUME RunInv, Collect PROVE RunInv'
  OBVIOUS
<1>1. /\ phase = "PRIMARY" /\ Waiting = {} /\ completed' = Yielded
      /\ semantics' = semantics /\ nature' = nature /\ TaskInv
      /\ phase' \in {"REPLAY", "RAISED"}
  BY DEF Collect, RunInv
<1>2. TaskInv'
  BY <1>1, YieldedTasks DEF TaskInv, Allowed, Task
<1> DEFINE Got(pair) == Outcome(Yielded[IndexOf(pair)])
<1>3. \A pair : Of(pair)' = Got(pair)
  BY <1>1 DEF Of, Outcome, Answer, IndexOf
<1>4. evidence' = [results |-> [pair \in Pairs |-> Got(pair).result],
                   repeats |-> [pair \in Pairs |-> Got(pair).repeat.status],
                   sames |-> IF semantics = "V1" THEN None
                             ELSE [pair \in Pairs |-> Got(pair).same.status],
                   replays |-> None, cutoffs |-> None,
                   deltas |-> None, degeneration |-> None, gates |-> None]
  BY DEF Collect, IndexOf
<1> HIDE DEF Got
<1>5. Results' = [pair \in Pairs |-> Got(pair).result]
  BY <1>3 DEF Results
<1>6. Repeats' = [pair \in Pairs |-> Got(pair).repeat.status]
  BY <1>3 DEF Repeats
<1>7. Sames' = IF semantics = "V1" THEN None ELSE [pair \in Pairs |-> Got(pair).same.status]
  BY <1>1, <1>3 DEF Sames
<1>8. evidence' = [part \in Part |-> evidence'[part]]
  BY <1>4 DEF Part
<1>9. evidence'["results"] = Results' /\ evidence'["repeats"] = Repeats'
      /\ evidence'["sames"] = Sames'
  BY <1>4, <1>5, <1>6, <1>7
<1> QED
  BY <1>1, <1>2, <1>8, <1>9 DEF RunInv, RecordInv, ReportInv, From, Unjudged

LEMMA RunReplaysKeeps == RunInv /\ RunReplays => RunInv'
<1> SUFFICES ASSUME RunInv, RunReplays PROVE RunInv'
  OBVIOUS
<1>1. /\ phase = "REPLAY" /\ phase' \in {"CUTOFF", "RAISED"} /\ Settled
      /\ evidence' = [evidence EXCEPT !["replays"] = Replays]
  BY DEF RunReplays, Settled, Replays
<1>2. TaskInv'
  BY <1>1, SettledTasks DEF RunInv
<1>3. phase \in From("REPLAY") /\ "replays" \in Part
  BY <1>1 DEF From, Part
<1>4. /\ evidence' = [other \in Part |-> evidence'[other]]
      /\ evidence'["replays"] = Replays
      /\ evidence'["results"] = Results' /\ evidence'["repeats"] = Repeats'
      /\ evidence'["sames"] = Sames'
  BY <1>1, <1>3, NextPart
<1>5. Replays' = Replays
  BY <1>1, SettledRecords
<1> QED
  BY <1>1, <1>2, <1>4, <1>5 DEF RunInv, RecordInv, ReportInv, From, Unjudged

LEMMA RunCutoffsKeeps == RunInv /\ RunCutoffs => RunInv'
<1> SUFFICES ASSUME RunInv, RunCutoffs PROVE RunInv'
  OBVIOUS
<1>1. /\ phase = "CUTOFF" /\ phase' \in {"DELTAS", "RAISED"} /\ Settled
      /\ evidence' = [evidence EXCEPT !["cutoffs"] = Cutoffs]
  BY DEF RunCutoffs, Settled, Cutoffs
<1>2. TaskInv'
  BY <1>1, SettledTasks DEF RunInv
<1>3. phase \in From("REPLAY") /\ {"replays", "cutoffs"} \subseteq Part
  BY <1>1 DEF From, Part
<1>4. /\ evidence' = [other \in Part |-> evidence'[other]]
      /\ evidence'["cutoffs"] = Cutoffs /\ evidence'["replays"] = evidence["replays"]
      /\ evidence'["results"] = Results' /\ evidence'["repeats"] = Repeats'
      /\ evidence'["sames"] = Sames'
  BY <1>1, <1>3, NextPart
<1>5. Cutoffs' = Cutoffs /\ Replays' = Replays
  BY <1>1, SettledRecords
<1>6. evidence["replays"] = Replays
  BY <1>1 DEF RunInv, RecordInv, From
<1> QED
  BY <1>1, <1>2, <1>4, <1>5, <1>6 DEF RunInv, RecordInv, ReportInv, From, Unjudged

LEMMA DeriveDeltasKeeps == RunInv /\ DeriveDeltas => RunInv'
<1> SUFFICES ASSUME RunInv, DeriveDeltas PROVE RunInv'
  OBVIOUS
<1>1. phase = "DELTAS" /\ phase' \in {"DEGENERATION", "RAISED"} /\ Settled
  BY DEF DeriveDeltas, Derive, Settled
<1>2. /\ evidence["results"] = Results /\ evidence["replays"] = Replays
      /\ evidence["cutoffs"] = Cutoffs
  BY <1>1 DEF RunInv, RecordInv, From
<1>3. evidence' = [evidence EXCEPT !["deltas"] = Deltas]
  BY <1>2 DEF DeriveDeltas, Derive, Deltas
<1>4. TaskInv'
  BY <1>1, SettledTasks DEF RunInv
<1>5. phase \in From("REPLAY") /\ {"replays", "cutoffs", "deltas"} \subseteq Part
  BY <1>1 DEF From, Part
<1>6. /\ evidence' = [other \in Part |-> evidence'[other]]
      /\ evidence'["deltas"] = Deltas /\ evidence'["replays"] = evidence["replays"]
      /\ evidence'["cutoffs"] = evidence["cutoffs"]
      /\ evidence'["results"] = Results' /\ evidence'["repeats"] = Repeats'
      /\ evidence'["sames"] = Sames'
  BY <1>1, <1>3, <1>5, NextPart
<1>7. Cutoffs' = Cutoffs /\ Replays' = Replays /\ Deltas' = Deltas
  BY <1>1, SettledRecords
<1> QED
  BY <1>1, <1>2, <1>4, <1>6, <1>7 DEF RunInv, RecordInv, ReportInv, From, Unjudged

(* What is derived depends on these parts of the evidence only.            *)
LEMMA SameDegeneration ==
    ASSUME NEW e, NEW f, NEW kind, NEW deltas,
           e.results = f.results, e.replays = f.replays, e.cutoffs = f.cutoffs
    PROVE  EvaluateDegeneration(kind, e, deltas) = EvaluateDegeneration(kind, f, deltas)
<1>1. \A variant : OwnTriggers(e, variant) = OwnTriggers(f, variant)
  BY DEF OwnTriggers
<1>2. \A variant : Triggered(kind, e, variant) = Triggered(kind, f, variant)
  BY <1>1 DEF Triggered
<1>3. \A variant : Insufficient(e, variant) = Insufficient(f, variant)
  BY DEF Insufficient
<1>4. \A variant : DegenerationSummary(kind, e, deltas, variant) =
                       DegenerationSummary(kind, f, deltas, variant)
  BY <1>2, <1>3 DEF DegenerationSummary
<1> QED
  BY <1>4 DEF EvaluateDegeneration

LEMMA SameGates ==
    ASSUME NEW e, NEW f, NEW kind, NEW degeneration,
           e.results = f.results, e.repeats = f.repeats, e.sames = f.sames,
           e.replays = f.replays, e.cutoffs = f.cutoffs
    PROVE  EvaluateGates(kind, e, degeneration) = EvaluateGates(kind, f, degeneration)
<1>1. \A gate : EvidenceHolds(e, gate) = EvidenceHolds(f, gate)
  BY DEF EvidenceHolds
<1>2. GlobalRewrite(e) = GlobalRewrite(f)
  BY DEF GlobalRewrite
<1>3. \A gate : HoldsV1(e, degeneration, gate) = HoldsV1(f, degeneration, gate)
  BY <1>1 DEF HoldsV1
<1>4. \A gate : HoldsV2(e, degeneration, gate) = HoldsV2(f, degeneration, gate)
  BY <1>1, <1>2 DEF HoldsV2
<1> QED
  BY <1>3, <1>4 DEF EvaluateGates

LEMMA SamePartitions ==
    ASSUME NEW e, NEW f, NEW deltas, NEW degeneration,
           e.results = f.results, e.replays = f.replays
    PROVE  PartitionSummaries(e, deltas, degeneration) = PartitionSummaries(f, deltas, degeneration)
BY DEF PartitionSummaries, VariantSummary

LEMMA DeriveDegenerationKeeps == RunInv /\ DeriveDegeneration => RunInv'
<1> SUFFICES ASSUME RunInv, DeriveDegeneration PROVE RunInv'
  OBVIOUS
<1>1. phase = "DEGENERATION" /\ phase' \in {"GATES", "RAISED"} /\ Settled
  BY DEF DeriveDegeneration, Derive, Settled
<1>2. /\ evidence["results"] = Results /\ evidence["replays"] = Replays
      /\ evidence["cutoffs"] = Cutoffs /\ evidence["deltas"] = Deltas
  BY <1>1 DEF RunInv, RecordInv, From
<1>3. EvaluateDegeneration(semantics, evidence, evidence.deltas) = Degeneration
  <2>1. /\ evidence.results = Basis.results /\ evidence.replays = Basis.replays
        /\ evidence.cutoffs = Basis.cutoffs
    BY <1>2 DEF Basis
  <2> QED
    BY <1>2, <2>1, SameDegeneration DEF Degeneration
<1>4. evidence' = [evidence EXCEPT !["degeneration"] = Degeneration]
  BY <1>3 DEF DeriveDegeneration, Derive
<1>5. TaskInv'
  BY <1>1, SettledTasks DEF RunInv
<1>6. phase \in From("REPLAY") /\ {"replays", "cutoffs", "deltas", "degeneration"} \subseteq Part
  BY <1>1 DEF From, Part
<1>7. /\ evidence' = [other \in Part |-> evidence'[other]]
      /\ evidence'["degeneration"] = Degeneration
      /\ evidence'["replays"] = evidence["replays"]
      /\ evidence'["cutoffs"] = evidence["cutoffs"]
      /\ evidence'["deltas"] = evidence["deltas"]
      /\ evidence'["results"] = Results' /\ evidence'["repeats"] = Repeats'
      /\ evidence'["sames"] = Sames'
  BY <1>1, <1>4, <1>6, NextPart
<1>8. /\ Cutoffs' = Cutoffs /\ Replays' = Replays /\ Deltas' = Deltas
      /\ Degeneration' = Degeneration
  BY <1>1, SettledRecords
<1> QED
  BY <1>1, <1>2, <1>5, <1>7, <1>8 DEF RunInv, RecordInv, ReportInv, From, Unjudged

LEMMA DeriveGatesKeeps == RunInv /\ DeriveGates => RunInv'
<1> SUFFICES ASSUME RunInv, DeriveGates PROVE RunInv'
  OBVIOUS
<1>1. phase = "GATES" /\ phase' \in {"JUDGE", "RAISED"} /\ Settled
  BY DEF DeriveGates, Derive, Settled
<1>2. /\ evidence["results"] = Results /\ evidence["repeats"] = Repeats
      /\ evidence["sames"] = Sames /\ evidence["replays"] = Replays
      /\ evidence["cutoffs"] = Cutoffs /\ evidence["deltas"] = Deltas
      /\ evidence["degeneration"] = Degeneration
  BY <1>1 DEF RunInv, RecordInv, From
<1>3. EvaluateGates(semantics, evidence, evidence.degeneration) = Gates
  <2>1. /\ evidence.results = Basis.results /\ evidence.repeats = Basis.repeats
        /\ evidence.sames = Basis.sames /\ evidence.replays = Basis.replays
        /\ evidence.cutoffs = Basis.cutoffs
    BY <1>2 DEF Basis
  <2> QED
    BY <1>2, <2>1, SameGates DEF Gates
<1>4. evidence' = [evidence EXCEPT !["gates"] = Gates]
  BY <1>3 DEF DeriveGates, Derive
<1>5. TaskInv'
  BY <1>1, SettledTasks DEF RunInv
<1>6. /\ phase \in From("REPLAY")
      /\ {"replays", "cutoffs", "deltas", "degeneration", "gates"} \subseteq Part
  BY <1>1 DEF From, Part
<1>7. /\ evidence' = [other \in Part |-> evidence'[other]]
      /\ evidence'["gates"] = Gates
      /\ evidence'["replays"] = evidence["replays"]
      /\ evidence'["cutoffs"] = evidence["cutoffs"]
      /\ evidence'["deltas"] = evidence["deltas"]
      /\ evidence'["degeneration"] = evidence["degeneration"]
      /\ evidence'["results"] = Results' /\ evidence'["repeats"] = Repeats'
      /\ evidence'["sames"] = Sames'
  BY <1>1, <1>4, <1>6, NextPart
<1>8. /\ Cutoffs' = Cutoffs /\ Replays' = Replays /\ Deltas' = Deltas
      /\ Degeneration' = Degeneration /\ Gates' = Gates
  BY <1>1, SettledRecords
<1> QED
  BY <1>1, <1>2, <1>5, <1>7, <1>8 DEF RunInv, RecordInv, ReportInv, From, Unjudged

LEMMA ConcludeKeeps == RunInv /\ Conclude => RunInv'
<1> SUFFICES ASSUME RunInv, Conclude PROVE RunInv'
  OBVIOUS
<1>1. /\ phase = "JUDGE" /\ phase' = "CHECK" /\ Settled
      /\ report' = Judge(semantics, evidence)
  BY DEF Conclude, Settled
<1>2. /\ evidence["results"] = Results /\ evidence["repeats"] = Repeats
      /\ evidence["sames"] = Sames /\ evidence["replays"] = Replays
      /\ evidence["cutoffs"] = Cutoffs /\ evidence["deltas"] = Deltas
      /\ evidence["degeneration"] = Degeneration /\ evidence["gates"] = Gates
  BY <1>1 DEF RunInv, RecordInv, From
<1>3. /\ evidence.results = Findings.results /\ evidence.repeats = Findings.repeats
      /\ evidence.sames = Findings.sames /\ evidence.replays = Findings.replays
      /\ evidence.cutoffs = Findings.cutoffs /\ evidence.deltas = Findings.deltas
      /\ evidence.degeneration = Findings.degeneration /\ evidence.gates = Findings.gates
  BY <1>2 DEF Findings
<1>4. PartitionSummaries(evidence, evidence.deltas, evidence.degeneration) =
          PartitionSummaries(Findings, Findings.deltas, Findings.degeneration)
  <2> HIDE DEF Findings
  <2> QED
    BY <1>3, SamePartitions
<1>5. GlobalRewrite(evidence) = GlobalRewrite(Findings)
  BY <1>3 DEF GlobalRewrite
<1>6. report' = Judge(semantics, Findings)
  BY <1>1, <1>3, <1>4, <1>5 DEF Judge
<1>7. TaskInv'
  BY <1>1, SettledTasks DEF RunInv
<1>8. semantics' = semantics /\ Findings' = Findings
  BY <1>1, SettledRecords DEF Settled
<1> QED
  BY <1>1, <1>6, <1>7, <1>8 DEF RunInv, RecordInv, ReportInv, From

(* What happens to a report once it is there.                              *)
LEMMA LaterKeeps ==
    RunInv /\ Settled /\ report' = report /\ phase \notin Unjudged
        /\ phase' \notin Unjudged \ {"RAISED"} => RunInv'
<1> SUFFICES ASSUME RunInv, Settled, report' = report, phase \notin Unjudged,
                    phase' \notin Unjudged \ {"RAISED"}
             PROVE  RunInv'
  OBVIOUS
<1>1. TaskInv'
  BY SettledTasks DEF RunInv, Unjudged
<1>2. report = Judge(semantics, Findings)
  BY DEF RunInv, ReportInv
<1>3. semantics' = semantics /\ Findings' = Findings
  BY SettledRecords DEF Settled
<1>4. ReportInv'
  BY <1>2, <1>3 DEF ReportInv
<1>5. RecordInv'
  BY DEF RecordInv, Unjudged, From
<1> QED
  BY <1>1, <1>4, <1>5 DEF RunInv

LEMMA LaterSteps ==
    RunInv /\ (\/ Check \/ Preflight \/ OpenContract \/ WriteContract \/ OpenReport
               \/ WriteReport \/ FreezeSchedule \/ Diagnose) => RunInv'
<1>1. Check => /\ Settled /\ report' = report /\ phase \notin Unjudged
               /\ phase' \notin Unjudged \ {"RAISED"}
  BY DEF Check, Settled, Unjudged, From
<1>2. Preflight \/ OpenContract \/ WriteContract \/ OpenReport \/ WriteReport =>
               /\ Settled /\ report' = report /\ phase \notin Unjudged
               /\ phase' \notin Unjudged \ {"RAISED"}
  BY DEF Preflight, OpenContract, WriteContract, OpenReport, WriteReport, Settled, Unjudged, From
<1>3. FreezeSchedule \/ Diagnose =>
               /\ Settled /\ report' = report /\ phase \notin Unjudged
               /\ phase' \notin Unjudged \ {"RAISED"}
  BY DEF FreezeSchedule, Diagnose, Settled, Unjudged, From
<1> QED
  BY <1>1, <1>2, <1>3, LaterKeeps

LEMMA RestartKeeps == RunInv /\ Restart => RunInv'
<1> SUFFICES ASSUME RunInv, Restart PROVE RunInv'
  OBVIOUS
<1>1. /\ phase' = "PRIMARY" /\ completed' = <<>>
      /\ semantics' = semantics /\ nature' = nature
  BY DEF Restart, Fresh
<1>2. <<>> \in Seq(Task) /\ DOMAIN <<>> = {}
  OBVIOUS
<1>3. TaskInv'
  BY <1>1, <1>2 DEF RunInv, TaskInv, Task
<1> QED
  BY <1>1, <1>3 DEF RunInv, RecordInv, ReportInv, From, Unjudged

LEMMA RunStutters == RunInv /\ UNCHANGED vars => RunInv'
<1> SUFFICES ASSUME RunInv, UNCHANGED vars PROVE RunInv'
  OBVIOUS
<1>1. /\ Settled /\ phase' = phase /\ report' = report /\ evidence' = evidence
      /\ semantics' = semantics /\ nature' = nature /\ completed' = completed
  BY DEF vars, Settled
<1>2. TaskInv'
  BY <1>1 DEF RunInv, TaskInv, Allowed, Task
<1>3. RecordInv'
  BY <1>1, SettledRecords DEF RunInv, RecordInv
<1>4. ReportInv'
  BY <1>1, SettledRecords DEF RunInv, ReportInv
<1> QED
  BY <1>2, <1>3, <1>4 DEF RunInv

LEMMA RunKeeps == RunInv /\ [Next]_vars => RunInv'
BY FinishKeeps, CollectKeeps, RunReplaysKeeps, RunCutoffsKeeps, DeriveDeltasKeeps,
   DeriveDegenerationKeeps, DeriveGatesKeeps, ConcludeKeeps, LaterSteps, RestartKeeps,
   RunStutters DEF Next

-----------------------------------------------------------------------------
(* One execution, one comparison, one case *)

(* An answer nothing can be held against.                                  *)
Flawless(answer) ==
    answer.ran /\ answer.audit = "PASSED" /\ Evaluates(answer) /\ answer.binds

LEMMA Passes ==
    ASSUME NEW answer \in AnswerRecord
    PROVE  /\ ExecutePair(answer).status = "PASSED" <=> Flawless(answer)
           /\ Flawless(answer) => Complete(ExecutePair(answer))
<1>1. StatusOf(answer) = "PASSED" <=> Flawless(answer)
  BY DEF StatusOf, Flawless, AnswerRecord
<1>2. ExecutePair(answer).status = StatusOf(answer)
  BY DEF ExecutePair
<1>3. StatusOf(answer) = "PASSED" => ExecutePair(answer).aggregates = answer.report.aggregates
  BY DEF ExecutePair
<1>4. DOMAIN answer.report.aggregates = Metric
  BY DEF AnswerRecord, Report
<1> QED
  BY <1>1, <1>2, <1>3, <1>4 DEF Complete

(* Flawless results are equal when everything they were made from is.      *)
LEMMA RepeatMatches ==
    ASSUME NEW a \in AnswerRecord, NEW b \in AnswerRecord, Flawless(a)
    PROVE  Determinism(ExecutePair(a), ExecutePair(b)).status = "MATCH" <=> b = a
<1>1. b = a => Determinism(ExecutePair(a), ExecutePair(b)).status = "MATCH"
  BY DEF Determinism
<1>2. ASSUME ExecutePair(a) = ExecutePair(b) PROVE b = a
  <2>1. ExecutePair(b).status = "PASSED" /\ ExecutePair(a).status = "PASSED"
    BY <1>2, Passes
  <2>2. Flawless(b)
    BY <2>1, Passes
  <2>3. /\ ExecutePair(a).run = a.run /\ ExecutePair(b).run = b.run
        /\ ExecutePair(a).metric = a.report /\ ExecutePair(b).metric = b.report
        /\ ExecutePair(a).boxes = a.boxes /\ ExecutePair(b).boxes = b.boxes
    BY <2>1 DEF ExecutePair
  <2>4. a.run = b.run /\ a.report = b.report /\ a.boxes = b.boxes
    BY <1>2, <2>3
  <2>5. /\ a.ran = b.ran /\ a.audit = b.audit /\ a.vouched = b.vouched
        /\ a.measured = b.measured /\ a.binds = b.binds
    BY <2>2 DEF Flawless, Evaluates, AnswerRecord
  <2> QED
    BY <2>4, <2>5 DEF AnswerRecord
<1>3. Determinism(ExecutePair(a), ExecutePair(b)).status = "MATCH" => ExecutePair(a) = ExecutePair(b)
  BY DEF Determinism
<1> QED
  BY <1>1, <1>2, <1>3

(* An execution that drifts is like no other.                              *)
LEMMA DriftShows ==
    ASSUME NEW a \in AnswerRecord, NEW b \in AnswerRecord
    PROVE  LET drifted == ExecutePair([a EXCEPT !.run = "drifted"])
           IN  /\ a.ran => Determinism(drifted, ExecutePair(b)).status # "MATCH"
               /\ b.ran => Determinism(ExecutePair(b), drifted).status # "MATCH"
<1> DEFINE d == [a EXCEPT !.run = "drifted"]
<1>1. d.run = "drifted" /\ d.ran = a.ran
  BY DEF AnswerRecord
<1>2. \A x : ExecutePair(x).run = IF ~x.ran THEN None ELSE x.run
  <2>1. \A x : StatusOf(x) = "PIPELINE_FAILED" <=> ~x.ran
    BY DEF StatusOf
  <2> QED
    BY <2>1 DEF ExecutePair
<1>3. b.run # "drifted" /\ None # "drifted" /\ b.run # None
  BY AnswerAssumption, NoneAssumption DEF AnswerRecord
<1>4. a.ran => ExecutePair(d).run # ExecutePair(b).run
  BY <1>1, <1>2, <1>3
<1>5. b.ran => ExecutePair(b).run # ExecutePair(d).run
  BY <1>1, <1>2, <1>3
<1> HIDE DEF d
<1>6. \A x, y : x.run # y.run => Determinism(x, y).status # "MATCH"
  BY DEF Determinism
<1>7. /\ a.ran => Determinism(ExecutePair(d), ExecutePair(b)).status # "MATCH"
      /\ b.ran => Determinism(ExecutePair(b), ExecutePair(d)).status # "MATCH"
  BY <1>4, <1>5, <1>6
<1> QED
  BY <1>7 DEF d

LEMMA SevenSteps ==
    ASSUME NEW s, NEW t, NEW u, NEW v, NEW w, NEW x, NEW y
    PROVE  (\A step \in Range(<<s, t, u, v, w, x, y>>) : step) =>
               s /\ t /\ u /\ v /\ w /\ x /\ y
<1> DEFINE steps == <<s, t, u, v, w, x, y>>
<1>1. DOMAIN steps = 1 .. 7
  OBVIOUS
<1>2. /\ steps[1] = s /\ steps[2] = t /\ steps[3] = u /\ steps[4] = v
      /\ steps[5] = w /\ steps[6] = x /\ steps[7] = y
  OBVIOUS
<1> HIDE DEF steps
<1>3. \A i \in 1 .. 7 : steps[i] \in Range(steps)
  BY <1>1 DEF Range
<1>4. /\ s \in Range(steps) /\ t \in Range(steps) /\ u \in Range(steps) /\ v \in Range(steps)
      /\ w \in Range(steps) /\ x \in Range(steps) /\ y \in Range(steps)
  BY <1>2, <1>3
<1>5. (\A step \in Range(steps) : step) => s /\ t /\ u /\ v /\ w /\ x /\ y
  BY <1>4, Zenon
<1> QED
  BY <1>5 DEF steps

LEMMA SevenHold ==
    ASSUME NEW s, NEW t, NEW u, NEW v, NEW w, NEW x, NEW y, s, t, u, v, w, x, y
    PROVE  \A step \in Range(<<s, t, u, v, w, x, y>>) : step
<1> DEFINE steps == <<s, t, u, v, w, x, y>>
<1>1. DOMAIN steps = 1 .. 7
  OBVIOUS
<1>2. /\ steps[1] = s /\ steps[2] = t /\ steps[3] = u /\ steps[4] = v
      /\ steps[5] = w /\ steps[6] = x /\ steps[7] = y
  OBVIOUS
<1> HIDE DEF steps
<1>3. \A i \in 1 .. 7 : i = 1 \/ i = 2 \/ i = 3 \/ i = 4 \/ i = 5 \/ i = 6 \/ i = 7
  OBVIOUS
<1>4. \A step \in Range(steps) :
          step = s \/ step = t \/ step = u \/ step = v \/ step = w \/ step = x \/ step = y
  BY <1>1, <1>2, <1>3 DEF Range
<1>5. \A step \in Range(steps) : step
  BY <1>4, Zenon
<1> QED
  BY <1>5 DEF steps

(* A sample of a flawless pair matches exactly when its replay answers the *)
(* same.                                                                   *)
LEMMA SampleMatches ==
    ASSUME NEW n \in Nature, Flawless(AnswerOf[n]["NORMAL"])
    PROVE  ExecuteSample(AnswerOf[n]["NORMAL"], AnswerOf[n]["REPLAY"]).status = "MATCH" <=>
               AnswerOf[n]["REPLAY"] = AnswerOf[n]["NORMAL"]
<1> DEFINE batch == AnswerOf[n]["NORMAL"]
           replay == AnswerOf[n]["REPLAY"]
           comparison == ExecuteSample(batch, replay)
           done == \A step \in Range(SampleSteps(batch, replay)) : step
<1>1. /\ batch \in AnswerRecord /\ replay \in AnswerRecord
      /\ batch.run = replay.run => batch.boxes = replay.boxes
      /\ batch.vouched = (batch.audit = "PASSED") /\ replay.vouched = (replay.audit = "PASSED")
  BY AnswerAssumption, AmbientAssumption
<1>2. Flawless(batch)
  OBVIOUS
<1> HIDE DEF batch, replay
<1>3. comparison.status = "MATCH" <=>
          done /\ batch.run = replay.run /\ batch.report = replay.report
               /\ ComparisonPasses(batch, replay)
  BY DEF ExecuteSample
<1>4. ASSUME comparison.status = "MATCH" PROVE replay = batch
  <2>1. /\ batch.run = replay.run /\ batch.report = replay.report
        /\ replay.audit = "PASSED" /\ done
    BY <1>3, <1>4 DEF ComparisonPasses
  <2>2. replay.ran /\ Evaluates(replay) /\ replay.binds
    BY <2>1, SevenSteps DEF SampleSteps
  <2>3. /\ batch.ran = replay.ran /\ batch.audit = replay.audit
        /\ batch.vouched = replay.vouched
        /\ batch.measured = replay.measured /\ batch.binds = replay.binds
    BY <1>1, <1>2, <2>1, <2>2 DEF Flawless, Evaluates, AnswerRecord
  <2> QED
    BY <1>1, <2>1, <2>3 DEF AnswerRecord
<1>5. ASSUME replay = batch PROVE comparison.status = "MATCH"
  <2>1. batch.ran /\ replay.ran /\ Evaluates(batch) /\ batch.binds /\ Evaluates(replay) /\ replay.binds
        /\ "ERROR" \notin {batch.audit, replay.audit}
    BY <1>2, <1>5 DEF Flawless
  <2>2. done
    BY <2>1, SevenHold DEF SampleSteps
  <2> QED
    BY <1>2, <1>3, <1>5, <2>2 DEF ComparisonPasses, Flawless
<1> QED
  BY <1>4, <1>5 DEF batch, replay

(* Nothing is found at any checkpoint.                                     *)
ChecksOut(checkpoints) ==
    \A index \in DOMAIN checkpoints :
        ~checkpoints[index].raises /\ Upheld(checkpoints[index])

LEMMA StableMeans ==
    ASSUME NEW checkpoint
    PROVE  CheckpointStable(checkpoint) <=> Upheld(checkpoint)
BY DEF CheckpointStable, ComparisonAudit, Upheld

LEMMA CaseIsStable ==
    ASSUME NEW answer, Flawless(answer), NEW checkpoints \in Seq(Checkpoint)
    PROVE  ExecuteCutoffs(answer, checkpoints).status = "STABLE" <=> ChecksOut(checkpoints)
<1> DEFINE n == Len(checkpoints)
           reached == Reached(checkpoints)
           unstable == {index \in reached : ~CheckpointStable(checkpoints[index])}
<1>1. n \in Nat /\ DOMAIN checkpoints = 1 .. n /\ \A i \in 1 .. n : checkpoints[i] \in Checkpoint
  OBVIOUS
<1>2. answer.ran /\ Evaluates(answer) /\ answer.binds
  BY DEF Flawless
<1>3. ExecuteCutoffs(answer, checkpoints).status = "STABLE" <=>
          ~(Cardinality(reached) < n) /\ unstable = {}
  BY <1>2 DEF ExecuteCutoffs
<1>4. /\ IsFiniteSet(1 .. n) /\ Cardinality(1 .. n) = n /\ reached \subseteq 1 .. n
      /\ IsFiniteSet(reached) /\ Cardinality(reached) \in Nat /\ Cardinality(reached) <= n
  <2> HIDE DEF n
  <2>1. IsFiniteSet(1 .. n) /\ Cardinality(1 .. n) = n
    <3>1. IsFiniteSet(1 .. n) /\ Cardinality(1 .. n) = IF 1 > n THEN 0 ELSE n - 1 + 1
      BY <1>1, FS_Interval
    <3> QED
      BY <1>1, <3>1
  <2>2. reached \subseteq 1 .. n
    BY DEF Reached, n
  <2> QED
    BY <2>1, <2>2, FS_Subset, FS_CardinalityType
<1>5. ~(Cardinality(reached) < n) <=> reached = 1 .. n
  BY <1>1, <1>4, FS_Subset
<1>6. reached = 1 .. n <=> \A i \in 1 .. n : ~checkpoints[i].raises
  BY <1>1 DEF Reached
<1>7. reached = 1 .. n => (unstable = {} <=> \A i \in 1 .. n : CheckpointStable(checkpoints[i]))
  OBVIOUS
<1>8. (\A i \in 1 .. n : ~checkpoints[i].raises /\ CheckpointStable(checkpoints[i]))
          <=> ChecksOut(checkpoints)
  BY <1>1, StableMeans DEF ChecksOut
<1> QED
  BY <1>3, <1>5, <1>6, <1>7, <1>8

-----------------------------------------------------------------------------
(* What the runner records of a pair *)

NatureOf(pair) == AnswerOf[nature[pair]]
DriftOf(pair) == completed[IndexOf(pair)].drift

LEMMA Answers ==
    ASSUME TaskInv, NEW pair \in Pairs
    PROVE  /\ nature[pair] \in Nature
           /\ NatureOf(pair)["NORMAL"] \in AnswerRecord
           /\ NatureOf(pair)["ALTERED"] \in AnswerRecord
           /\ NatureOf(pair)["REPLAY"] \in AnswerRecord
BY AnswerAssumption DEF TaskInv, NatureOf

LEMMA Places ==
    ASSUME TaskInv, phase # "PRIMARY", NEW pair \in Pairs
    PROVE  /\ IndexOf(pair) \in DOMAIN Schedule
           /\ Schedule[completed[IndexOf(pair)].index] = pair
           /\ completed[IndexOf(pair)] \in Range(completed)
           /\ DriftOf(pair) \in Execution
           /\ DriftOf(pair) = "B" => semantics = "V2"
           /\ DriftOf(pair) # "NONE" => NatureOf(pair)["NORMAL"].ran
<1>1. IndexOf(pair) \in DOMAIN Schedule /\ Schedule[IndexOf(pair)] = pair
  BY DEF IndexOf, Pairs, Range
<1>2. /\ completed[IndexOf(pair)].index = IndexOf(pair)
      /\ IndexOf(pair) \in DOMAIN completed
      /\ completed[IndexOf(pair)] \in Task /\ Allowed(completed[IndexOf(pair)])
  BY <1>1 DEF TaskInv
<1> QED
  BY <1>1, <1>2 DEF DriftOf, NatureOf, Allowed, Task, Range

LEMMA Recordings ==
    ASSUME TaskInv, phase # "PRIMARY", NEW pair \in Pairs
    PROVE  LET first == ExecutePair(Answer(pair, "NORMAL", DriftOf(pair) = "A"))
               second == ExecutePair(Answer(pair, "NORMAL", DriftOf(pair) = "B"))
               altered == ExecutePair(Answer(pair, "ALTERED", DriftOf(pair) = "ALTERED"))
           IN  /\ Results[pair] = first
               /\ Repeats[pair] = Determinism(first, altered).status
               /\ semantics = "V2" => Sames[pair] = Determinism(first, second).status
<1>1. Schedule[completed[IndexOf(pair)].index] = pair
  BY Places
<1>2. /\ Results[pair] = Of(pair).result /\ Repeats[pair] = Of(pair).repeat.status
      /\ semantics = "V2" => Sames[pair] = Of(pair).same.status
  BY DEF Results, Repeats, Sames
<1> QED
  BY <1>1, <1>2 DEF Of, Outcome, DriftOf

(* Only the run drifts.                                                    *)
LEMMA DriftKeeps ==
    ASSUME NEW a \in AnswerRecord
    PROVE  LET drifted == ExecutePair([a EXCEPT !.run = "drifted"])
               usual == ExecutePair(a)
           IN  /\ drifted.status = usual.status /\ drifted.aggregates = usual.aggregates
               /\ drifted.events = usual.events /\ drifted.boxes = usual.boxes
<1> DEFINE d == [a EXCEPT !.run = "drifted"]
<1>1. /\ d.ran = a.ran /\ d.audit = a.audit /\ d.vouched = a.vouched /\ d.measured = a.measured
      /\ d.binds = a.binds /\ d.report = a.report /\ d.boxes = a.boxes
  BY DEF AnswerRecord
<1> HIDE DEF d
<1>2. StatusOf(d) = StatusOf(a)
  BY <1>1 DEF StatusOf, Evaluates
<1>3. /\ ExecutePair(d).status = ExecutePair(a).status
      /\ ExecutePair(d).aggregates = ExecutePair(a).aggregates
      /\ ExecutePair(d).events = ExecutePair(a).events
      /\ ExecutePair(d).boxes = ExecutePair(a).boxes
  BY <1>1, <1>2 DEF ExecutePair
<1> QED
  BY <1>3 DEF d

LEMMA ResultFacts ==
    ASSUME TaskInv, phase # "PRIMARY", NEW pair \in Pairs
    PROVE  LET usual == ExecutePair(NatureOf(pair)["NORMAL"])
           IN  /\ Results[pair].status = usual.status
               /\ Results[pair].aggregates = usual.aggregates
               /\ Results[pair].events = usual.events /\ Results[pair].boxes = usual.boxes
<1>1. Results[pair] = ExecutePair(Answer(pair, "NORMAL", DriftOf(pair) = "A"))
  BY Recordings
<1>2. CASE DriftOf(pair) = "A"
  <2>1. Results[pair] = ExecutePair([NatureOf(pair)["NORMAL"] EXCEPT !.run = "drifted"])
    BY <1>1, <1>2 DEF Answer, NatureOf
  <2> QED
    BY <2>1, Answers, DriftKeeps
<1>3. CASE DriftOf(pair) # "A"
  BY <1>1, <1>3 DEF Answer, NatureOf
<1> QED
  BY <1>2, <1>3

LEMMA PassedIsFlawless ==
    ASSUME TaskInv, phase # "PRIMARY", NEW pair \in Pairs
    PROVE  /\ Results[pair].status = "PASSED" <=> Flawless(NatureOf(pair)["NORMAL"])
           /\ Flawless(NatureOf(pair)["NORMAL"]) => Complete(Results[pair])
BY ResultFacts, Passes, Answers DEF Complete

(* No drift goes unnoticed.                                                *)
LEMMA DriftFound ==
    ASSUME TaskInv, phase # "PRIMARY", NEW pair \in Pairs, DriftOf(pair) # "NONE"
    PROVE  Repeats[pair] # "MATCH" \/ (semantics = "V2" /\ Sames[pair] # "MATCH")
<1> DEFINE normal == NatureOf(pair)["NORMAL"]
           other == NatureOf(pair)["ALTERED"]
           Drifted1(a) == [a EXCEPT !.run = "drifted"]
<1>1. normal \in AnswerRecord /\ other \in AnswerRecord /\ normal.ran
  BY Answers, Places
<1>2. \/ DriftOf(pair) = "A"
      \/ DriftOf(pair) = "B" /\ semantics = "V2"
      \/ DriftOf(pair) = "ALTERED"
  BY Places DEF Execution
<1>3. CASE DriftOf(pair) = "A"
  <2>1. Repeats[pair] = Determinism(ExecutePair(Drifted1(normal)), ExecutePair(other)).status
    BY <1>3, Recordings DEF Answer, NatureOf
  <2> HIDE DEF normal, other
  <2> QED
    BY <1>1, <2>1, DriftShows
<1>4. CASE DriftOf(pair) = "B" /\ semantics = "V2"
  <2>1. Sames[pair] = Determinism(ExecutePair(normal), ExecutePair(Drifted1(normal))).status
    BY <1>4, Recordings DEF Answer, NatureOf
  <2> HIDE DEF normal, other
  <2> QED
    BY <1>1, <1>4, <2>1, DriftShows
<1>5. CASE DriftOf(pair) = "ALTERED"
  <2>1. Repeats[pair] = Determinism(ExecutePair(normal), ExecutePair(Drifted1(other))).status
    BY <1>5, Recordings DEF Answer, NatureOf
  <2> HIDE DEF normal, other
  <2> QED
    BY <1>1, <2>1, DriftShows
<1> QED
  BY <1>2, <1>3, <1>4, <1>5

LEMMA UndriftedRepeats ==
    ASSUME TaskInv, phase # "PRIMARY", NEW pair \in Pairs, DriftOf(pair) = "NONE",
           Flawless(NatureOf(pair)["NORMAL"])
    PROVE  /\ Repeats[pair] = "MATCH" <=> NatureOf(pair)["ALTERED"] = NatureOf(pair)["NORMAL"]
           /\ semantics = "V2" => Sames[pair] = "MATCH"
<1> DEFINE normal == NatureOf(pair)["NORMAL"]
           other == NatureOf(pair)["ALTERED"]
<1>1. normal \in AnswerRecord /\ other \in AnswerRecord
  BY Answers
<1>2. /\ Repeats[pair] = Determinism(ExecutePair(normal), ExecutePair(other)).status
      /\ semantics = "V2" =>
             Sames[pair] = Determinism(ExecutePair(normal), ExecutePair(normal)).status
  BY Recordings DEF Answer, NatureOf
<1>3. Flawless(normal)
  OBVIOUS
<1> HIDE DEF normal, other
<1>4. /\ Repeats[pair] = "MATCH" <=> other = normal
      /\ semantics = "V2" => Sames[pair] = "MATCH"
  BY <1>1, <1>2, <1>3, RepeatMatches
<1> QED
  BY <1>4 DEF normal, other

LEMMA SampleFacts ==
    ASSUME TaskInv, NEW pair \in ReplaySample, Flawless(NatureOf(pair)["NORMAL"])
    PROVE  Replays[pair].status = "MATCH" <=> NatureOf(pair)["REPLAY"] = NatureOf(pair)["NORMAL"]
<1>1. pair \in Pairs
  BY SamplesAreScheduled
<1>2. Replays[pair] = ExecuteSample(NatureOf(pair)["NORMAL"], NatureOf(pair)["REPLAY"])
  BY DEF Replays, Answer, NatureOf
<1>3. nature[pair] \in Nature
  BY <1>1, Answers
<1> QED
  BY <1>2, <1>3, SampleMatches DEF NatureOf

LEMMA CutoffFacts ==
    ASSUME TaskInv, NEW case \in Range(ExecutableCase), Flawless(NatureOf(BaselineOf(case))["NORMAL"])
    PROVE  Cutoffs[case].status = "STABLE" <=> ChecksOut(CheckpointsOf[nature[BaselineOf(case)]])
<1>1. Cutoffs[case] = ExecuteCutoffs(NatureOf(BaselineOf(case))["NORMAL"],
                                     CheckpointsOf[nature[BaselineOf(case)]])
  BY DEF Cutoffs, Answer, NatureOf
<1>2. nature[BaselineOf(case)] \in Nature
  BY SamplesAreScheduled, Answers
<1>3. CheckpointsOf[nature[BaselineOf(case)]] \in Seq(Checkpoint)
  BY <1>2, CheckpointAssumption
<1> QED
  BY <1>1, <1>3, CaseIsStable

-----------------------------------------------------------------------------
(* The stage *)

LEMMA ReadyIsEveryGate ==
    ASSUME NEW kind \in {"V1", "V2"}, NEW e, NEW degeneration
    PROVE  StageOf(EvaluateGates(kind, e, degeneration)) = "READY_FOR_LOCKED_OOS" <=>
               /\ \A pair \in DOMAIN e.results :
                      e.results[pair].status = "PASSED" /\ Complete(e.results[pair])
               /\ SamplesMatch(e.replays, BaselineSample) /\ SamplesMatch(e.replays, VariantSample)
               /\ ~CutoffRewrite(e.cutoffs)
               /\ AllMatch(e.repeats)
               /\ kind = "V2" => AllMatch(e.sames)
               /\ NoneDegenerated(degeneration)
<1> DEFINE Passing(gate) == IF kind = "V1" THEN HoldsV1(e, degeneration, gate)
                            ELSE HoldsV2(e, degeneration, gate)
           gates == EvaluateGates(kind, e, degeneration)
<1>1. \A gate : PassOf(gate) # "FAIL"
  BY DEF PassOf
<1>2. \A gate \in Gate : gates[gate] = IF Passing(gate) THEN PassOf(gate) ELSE "FAIL"
  BY DEF EvaluateGates
<1> HIDE DEF gates
<1>3. \A gate \in Gate : gates[gate] = "FAIL" <=> ~Passing(gate)
  BY <1>1, <1>2
<1>4. StageOf(gates) = "READY_FOR_LOCKED_OOS" <=> \A gate \in Gate : Passing(gate)
  BY <1>3 DEF StageOf
<1>5. GlobalRewrite(e) = "NOT_DEGENERATED" <=> ~CutoffRewrite(e.cutoffs)
  BY DEF GlobalRewrite
<1>6. /\ Passing("FROZEN_AUTHORITY") /\ Passing("ALL_CASES_MUST_EXECUTE")
      /\ Passing("OOS_SAMPLE_COVERAGE") /\ Passing("FREEZE_SOURCE_BOUND")
  BY DEF HoldsV1, HoldsV2, EvidenceHolds
<1>7. /\ Passing("ALL_CORE_RUNS_MUST_AUDIT") <=>
             \A pair \in DOMAIN e.results : e.results[pair].status = "PASSED"
      /\ Passing("ALL_METRIC_REPORTS_MUST_SOURCE_BIND") <=>
             \A pair \in DOMAIN e.results : e.results[pair].status = "PASSED"
      /\ Passing("TEN_AGGREGATES_ALWAYS_PRESENT") <=>
             \A pair \in DOMAIN e.results : Complete(e.results[pair])
  BY DEF HoldsV1, HoldsV2, EvidenceHolds
<1>8. /\ Passing("BASELINE_BATCH_REPLAY_PARITY") <=> SamplesMatch(e.replays, BaselineSample)
      /\ Passing("VARIANT_REPLAY_SAMPLE_PARITY") <=> SamplesMatch(e.replays, VariantSample)
      /\ Passing("FIXED_CUTOFF_STABILITY") <=> ~CutoffRewrite(e.cutoffs)
      /\ Passing("DECIMAL_CONTEXT_INDEPENDENCE") <=> AllMatch(e.repeats)
  BY DEF HoldsV1, HoldsV2, EvidenceHolds
<1>9. /\ kind = "V1" => (Passing("DETERMINISTIC_REPEAT") <=> AllMatch(e.repeats))
      /\ kind = "V2" => (Passing("DETERMINISTIC_REPEAT") <=> AllMatch(e.sames))
      /\ kind = "V1" => (Passing("NO_NEIGHBORHOOD_DEGENERATION") <=> NoneDegenerated(degeneration))
      /\ kind = "V2" => (Passing("NO_NEIGHBORHOOD_DEGENERATION") <=>
                            NoneDegenerated(degeneration) /\ ~CutoffRewrite(e.cutoffs))
  BY <1>5 DEF HoldsV1, HoldsV2
<1> HIDE DEF Passing
<1>10. (\A gate \in Gate : Passing(gate)) <=>
          /\ Passing("ALL_CORE_RUNS_MUST_AUDIT") /\ Passing("ALL_METRIC_REPORTS_MUST_SOURCE_BIND")
          /\ Passing("TEN_AGGREGATES_ALWAYS_PRESENT") /\ Passing("BASELINE_BATCH_REPLAY_PARITY")
          /\ Passing("VARIANT_REPLAY_SAMPLE_PARITY") /\ Passing("FIXED_CUTOFF_STABILITY")
          /\ Passing("DECIMAL_CONTEXT_INDEPENDENCE") /\ Passing("DETERMINISTIC_REPEAT")
          /\ Passing("NO_NEIGHBORHOOD_DEGENERATION")
  BY <1>6 DEF Gate, DeferredGate, PartialGate
<1>11. StageOf(gates) = "READY_FOR_LOCKED_OOS" <=>
               /\ \A pair \in DOMAIN e.results :
                      e.results[pair].status = "PASSED" /\ Complete(e.results[pair])
               /\ SamplesMatch(e.replays, BaselineSample) /\ SamplesMatch(e.replays, VariantSample)
               /\ ~CutoffRewrite(e.cutoffs)
               /\ AllMatch(e.repeats)
               /\ kind = "V2" => AllMatch(e.sames)
               /\ NoneDegenerated(degeneration)
  BY <1>4, <1>7, <1>8, <1>9, <1>10
<1> QED
  BY <1>11 DEF gates

-----------------------------------------------------------------------------
(* What a variant sees, and what is made of it *)

(* What the pairs of a variant would add up to on the validation cases.    *)
UsualOf(case, variant) == NatureOf([case |-> case, variant |-> variant])["NORMAL"]
Events(variant) == SumFunction([case \in CasesIn("VALIDATION") |-> UsualOf(case, variant).report.events])
Boxes(variant) == SumFunction([case \in CasesIn("VALIDATION") |-> UsualOf(case, variant).boxes])
Eligible(variant, metric) ==
    SumFunction([case \in CasesIn("VALIDATION") |->
        UsualOf(case, variant).report.aggregates[metric].eligible])
Matured(variant, metric) ==
    SumFunction([case \in CasesIn("VALIDATION") |->
        UsualOf(case, variant).report.aggregates[metric].matured])

LEMMA WithersMeans ==
    ASSUME NEW variant
    PROVE  Withers(variant) <=>
               \/ Events(variant) = 0 /\ Events(Baseline) >= EventFloor
               \/ Boxes(variant) = 0 /\ Boxes(Baseline) >= BoxFloor
               \/ Cardinality({metric \in Metric :
                      \/ 10 * Eligible(variant, metric) < Eligible(Baseline, metric)
                      \/ 10 * Matured(variant, metric) < Matured(Baseline, metric)})
                      >= LeastCollapsed
BY DEF Withers, Seen, Events, Boxes, Eligible, Matured, UsualOf, NatureOf

LEMMA SeenAreNumbers ==
    ASSUME TaskInv, NEW variant \in Range(Variant), NEW metric \in Metric
    PROVE  Eligible(variant, metric) \in Nat /\ Matured(variant, metric) \in Nat
<1>1. IsFiniteSet(CasesIn("VALIDATION"))
  BY SamplesAreScheduled
<1>2. \A case \in CasesIn("VALIDATION") :
          /\ UsualOf(case, variant).report.aggregates[metric].eligible \in Nat
          /\ UsualOf(case, variant).report.aggregates[metric].matured \in Nat
  <2>1. \A case \in CasesIn("VALIDATION") : UsualOf(case, variant) \in AnswerRecord
    BY SamplesAreScheduled, Answers DEF UsualOf
  <2>2. \A answer \in AnswerRecord : answer.report.aggregates[metric] \in Aggregate
    BY DEF AnswerRecord, Report
  <2>3. \A aggregate \in Aggregate : aggregate.eligible \in Nat /\ aggregate.matured \in Nat
    BY DEF Aggregate
  <2> QED
    BY <2>1, <2>2, <2>3
<1>3. Eligible(variant, metric) \in Nat
  <2> DEFINE f == [case \in CasesIn("VALIDATION") |->
                      UsualOf(case, variant).report.aggregates[metric].eligible]
  <2>1. DOMAIN f = CasesIn("VALIDATION") /\ \A case \in DOMAIN f : f[case] \in Nat
    BY <1>2
  <2>2. Eligible(variant, metric) = SumFunction(f)
    BY DEF Eligible
  <2> HIDE DEF f
  <2> QED
    BY <1>1, <2>1, <2>2, SumIsNat
<1>4. Matured(variant, metric) \in Nat
  <2> DEFINE f == [case \in CasesIn("VALIDATION") |->
                      UsualOf(case, variant).report.aggregates[metric].matured]
  <2>1. DOMAIN f = CasesIn("VALIDATION") /\ \A case \in DOMAIN f : f[case] \in Nat
    BY <1>2
  <2>2. Matured(variant, metric) = SumFunction(f)
    BY DEF Matured
  <2> HIDE DEF f
  <2> QED
    BY <1>1, <2>1, <2>2, SumIsNat
<1> QED
  BY <1>3, <1>4

(* What the results of a variant add up to once all of them passed.        *)
ResultsOf(variant) == ValidationResults(Results, variant)
LEMMA TotalsAreSeen ==
    ASSUME TaskInv, phase # "PRIMARY", NEW variant \in Range(Variant),
           \A pair \in Pairs : Results[pair].status = "PASSED"
    PROVE  /\ DOMAIN ResultsOf(variant) = CasesIn("VALIDATION")
           /\ SumFunction([case \in CasesIn("VALIDATION") |-> ResultsOf(variant)[case].events])
                  = Events(variant)
           /\ SumFunction([case \in CasesIn("VALIDATION") |-> ResultsOf(variant)[case].boxes])
                  = Boxes(variant)
           /\ \A metric \in Metric :
                  /\ SumFunction([case \in CasesIn("VALIDATION") |->
                         ResultsOf(variant)[case].aggregates[metric].eligible])
                         = Eligible(variant, metric)
                  /\ SumFunction([case \in CasesIn("VALIDATION") |->
                         ResultsOf(variant)[case].aggregates[metric].matured])
                         = Matured(variant, metric)
<1>1. ASSUME NEW case \in CasesIn("VALIDATION")
      PROVE  /\ ResultsOf(variant)[case].events = UsualOf(case, variant).report.events
             /\ ResultsOf(variant)[case].boxes = UsualOf(case, variant).boxes
             /\ ResultsOf(variant)[case].aggregates = UsualOf(case, variant).report.aggregates
  <2> DEFINE pair == [case |-> case, variant |-> variant]
             usual == ExecutePair(NatureOf(pair)["NORMAL"])
  <2>1. pair \in Pairs
    BY SamplesAreScheduled
  <2>2. ResultsOf(variant)[case] = Results[pair]
    BY DEF ResultsOf, ValidationResults
  <2> HIDE DEF pair
  <2>3. /\ usual.status = "PASSED" /\ Results[pair].aggregates = usual.aggregates
        /\ Results[pair].events = usual.events /\ Results[pair].boxes = usual.boxes
    BY <2>1, ResultFacts
  <2>4. \A answer : ExecutePair(answer).status = "PASSED" =>
            /\ ExecutePair(answer).events = answer.report.events
            /\ ExecutePair(answer).boxes = answer.boxes
            /\ ExecutePair(answer).aggregates = answer.report.aggregates
    BY DEF ExecutePair
  <2>5. UsualOf(case, variant) = NatureOf(pair)["NORMAL"]
    BY DEF UsualOf, pair
  <2> QED
    BY <2>2, <2>3, <2>4, <2>5
<1>2. DOMAIN ResultsOf(variant) = CasesIn("VALIDATION")
  BY DEF ResultsOf, ValidationResults
<1>3. SumFunction([case \in CasesIn("VALIDATION") |-> ResultsOf(variant)[case].events])
          = Events(variant)
  BY <1>1 DEF Events
<1>4. SumFunction([case \in CasesIn("VALIDATION") |-> ResultsOf(variant)[case].boxes])
          = Boxes(variant)
  BY <1>1 DEF Boxes
<1>5. ASSUME NEW metric \in Metric
      PROVE  /\ SumFunction([case \in CasesIn("VALIDATION") |->
                    ResultsOf(variant)[case].aggregates[metric].eligible])
                    = Eligible(variant, metric)
             /\ SumFunction([case \in CasesIn("VALIDATION") |->
                    ResultsOf(variant)[case].aggregates[metric].matured])
                    = Matured(variant, metric)
  BY <1>1 DEF Eligible, Matured
<1> QED
  BY <1>2, <1>3, <1>4, <1>5

LEMMA DeclineMeans ==
    ASSUME NEW before \in Nat, NEW after \in Nat
    PROVE  Declines(before, after) <=> 10 * after < before
BY DEF Declines

LEMMA CollapsesMean ==
    ASSUME TaskInv, phase # "PRIMARY", NEW variant \in Range(Variant),
           \A pair \in Pairs : Results[pair].status = "PASSED"
    PROVE  /\ Vanishes(ResultsOf(Baseline), ResultsOf(variant),
                       LAMBDA result : result.events, EventFloor) <=>
                  Events(Baseline) >= EventFloor /\ Events(variant) = 0
           /\ Vanishes(ResultsOf(Baseline), ResultsOf(variant),
                       LAMBDA result : result.boxes, BoxFloor) <=>
                  Boxes(Baseline) >= BoxFloor /\ Boxes(variant) = 0
           /\ CollapsedMetrics(ResultsOf(Baseline), ResultsOf(variant)) =
                  {metric \in Metric :
                      \/ 10 * Eligible(variant, metric) < Eligible(Baseline, metric)
                      \/ 10 * Matured(variant, metric) < Matured(Baseline, metric)}
<1>1. Baseline \in Range(Variant)
  BY VariantFacts
<1>2. /\ DOMAIN ResultsOf(Baseline) = CasesIn("VALIDATION")
      /\ DOMAIN ResultsOf(variant) = CasesIn("VALIDATION")
  BY <1>1, TotalsAreSeen
<1>3. Vanishes(ResultsOf(Baseline), ResultsOf(variant),
               LAMBDA result : result.events, EventFloor) <=>
          Events(Baseline) >= EventFloor /\ Events(variant) = 0
  BY <1>1, <1>2, TotalsAreSeen DEF Vanishes, Total
<1>4. Vanishes(ResultsOf(Baseline), ResultsOf(variant),
               LAMBDA result : result.boxes, BoxFloor) <=>
          Boxes(Baseline) >= BoxFloor /\ Boxes(variant) = 0
  BY <1>1, <1>2, TotalsAreSeen DEF Vanishes, Total
<1>5. ASSUME NEW metric \in Metric
      PROVE  metric \in CollapsedMetrics(ResultsOf(Baseline), ResultsOf(variant)) <=>
                 \/ 10 * Eligible(variant, metric) < Eligible(Baseline, metric)
                 \/ 10 * Matured(variant, metric) < Matured(Baseline, metric)
  <2>1. metric \in CollapsedMetrics(ResultsOf(Baseline), ResultsOf(variant)) <=>
            \/ Declines(Eligible(Baseline, metric), Eligible(variant, metric))
            \/ Declines(Matured(Baseline, metric), Matured(variant, metric))
    BY <1>1, <1>2, TotalsAreSeen DEF CollapsedMetrics, Total
  <2>2. /\ Eligible(Baseline, metric) \in Nat /\ Eligible(variant, metric) \in Nat
        /\ Matured(Baseline, metric) \in Nat /\ Matured(variant, metric) \in Nat
    BY <1>1, SeenAreNumbers
  <2> QED
    BY <2>1, <2>2, DeclineMeans
<1>6. CollapsedMetrics(ResultsOf(Baseline), ResultsOf(variant)) \subseteq Metric
  BY DEF CollapsedMetrics
<1> QED
  BY <1>3, <1>4, <1>5, <1>6

(* When nothing else is wrong, what triggers is what withers.              *)
LEMMA TriggersMean ==
    ASSUME TaskInv, phase # "PRIMARY", NEW variant \in Range(Others),
           \A pair \in Pairs : Results[pair].status = "PASSED",
           SamplesMatch(Replays, VariantSample), ~CutoffRewrite(Cutoffs)
    PROVE  /\ Triggered(semantics, Basis, variant) = {} <=> ~Withers(variant)
           /\ Insufficient(Basis, variant) = {}
<1>1. Baseline \in Range(Variant) /\ variant \in Range(Variant)
  BY VariantFacts
<1>2. \A v \in Range(Variant) : Covered(ResultsOf(v))
  <2>1. \A pair \in Pairs : Complete(Results[pair])
    BY PassedIsFlawless
  <2> QED
    BY <2>1, SamplesAreScheduled DEF Covered, ResultsOf, ValidationResults
<1>3. \A case \in DOMAIN ResultsOf(variant) : ResultsOf(variant)[case].status = "PASSED"
  BY <1>1, SamplesAreScheduled DEF ResultsOf, ValidationResults
<1>4. \A sample \in VariantSample : Replays[sample].status = "MATCH"
  BY DEF SamplesMatch
<1>5. /\ ResultsOf(Baseline) = ValidationResults(Basis.results, Baseline)
      /\ ResultsOf(variant) = ValidationResults(Basis.results, variant)
      /\ Basis.replays = Replays /\ Basis.cutoffs = Cutoffs
  BY DEF ResultsOf, Basis
<1>6. Insufficient(Basis, variant) = {}
  BY <1>1, <1>2, <1>5 DEF Insufficient
<1>7. Triggered(semantics, Basis, variant) = OwnTriggers(Basis, variant)
  BY <1>5 DEF Triggered, RewriteCounts
<1> DEFINE events == Vanishes(ResultsOf(Baseline), ResultsOf(variant),
                              LAMBDA result : result.events, EventFloor)
           boxes == Vanishes(ResultsOf(Baseline), ResultsOf(variant),
                             LAMBDA result : result.boxes, BoxFloor)
           metrics == Cardinality(CollapsedMetrics(ResultsOf(Baseline), ResultsOf(variant)))
                          >= LeastCollapsed
<1>8. OwnTriggers(Basis, variant) = {} <=> ~events /\ ~boxes /\ ~metrics
  <2>1. "STRUCTURE_EVENT_COLLAPSE" \in OwnTriggers(Basis, variant) <=> events
    BY <1>5 DEF OwnTriggers, RuleCode
  <2>2. "BOX_EPISODE_COLLAPSE" \in OwnTriggers(Basis, variant) <=> boxes
    BY <1>5 DEF OwnTriggers, RuleCode
  <2>3. "MULTI_METRIC_COVERAGE_COLLAPSE" \in OwnTriggers(Basis, variant) <=> metrics
    BY <1>1, <1>2, <1>5 DEF OwnTriggers, RuleCode
  <2>4. ASSUME NEW rule \in OwnTriggers(Basis, variant)
        PROVE  rule \in {"STRUCTURE_EVENT_COLLAPSE", "BOX_EPISODE_COLLAPSE",
                         "MULTI_METRIC_COVERAGE_COLLAPSE"}
    BY <1>1, <1>2, <1>3, <1>4, <1>5 DEF OwnTriggers, RuleCode
  <2> QED
    BY <2>1, <2>2, <2>3, <2>4
<1> QED
  BY <1>1, <1>6, <1>7, <1>8, CollapsesMean, WithersMeans

LEMMA DegeneratedMeans ==
    ASSUME TaskInv, phase # "PRIMARY",
           \A pair \in Pairs : Results[pair].status = "PASSED",
           SamplesMatch(Replays, VariantSample), ~CutoffRewrite(Cutoffs)
    PROVE  NoneDegenerated(Degeneration) <=> \A variant \in Range(Others) : ~Withers(variant)
<1>1. ASSUME NEW variant \in Range(Others)
      PROVE  Degeneration[variant].status \notin {"DEGENERATED", "INSUFFICIENT_EVIDENCE"}
                 <=> ~Withers(variant)
  <2>1. /\ Triggered(semantics, Basis, variant) = {} <=> ~Withers(variant)
        /\ Insufficient(Basis, variant) = {}
    BY TriggersMean
  <2>2. \E amount : Degeneration[variant].status =
            DegenerationStatus(Triggered(semantics, Basis, variant),
                               Insufficient(Basis, variant), amount)
    BY DEF Degeneration, EvaluateDegeneration, DegenerationSummary
  <2>3. \A triggered, amount :
            DegenerationStatus(triggered, {}, amount) \in {"DEGENERATED", "INSUFFICIENT_EVIDENCE"}
                <=> triggered # {}
    BY DEF DegenerationStatus
  <2> QED
    BY <2>1, <2>2, <2>3
<1> QED
  BY <1>1 DEF NoneDegenerated

LEMMA FaultlessMeans ==
    ASSUME TaskInv, NEW pair \in Pairs
    PROVE  Faultless(pair) <=>
               /\ Flawless(NatureOf(pair)["NORMAL"])
               /\ NatureOf(pair)["ALTERED"] = NatureOf(pair)["NORMAL"]
               /\ pair \in ReplaySample => NatureOf(pair)["REPLAY"] = NatureOf(pair)["NORMAL"]
               /\ pair.variant = Baseline => ChecksOut(CheckpointsOf[nature[pair]])
<1>1. pair \in ReplaySample <=>
          pair.variant = Baseline \/ PartitionOf(pair.case) = "VALIDATION"
  BY SamplesAreScheduled
<1>2. Flawless(NatureOf(pair)["NORMAL"]) <=>
          /\ NatureOf(pair)["NORMAL"].ran /\ NatureOf(pair)["NORMAL"].audit = "PASSED"
          /\ NatureOf(pair)["NORMAL"].measured /\ NatureOf(pair)["NORMAL"].binds
  <2>1. NatureOf(pair)["NORMAL"].vouched = (NatureOf(pair)["NORMAL"].audit = "PASSED")
    BY Answers, AmbientAssumption DEF NatureOf
  <2> QED
    BY <2>1 DEF Flawless, Evaluates
<1>3. ChecksOut(CheckpointsOf[nature[pair]]) <=>
          \A index \in DOMAIN CheckpointsOf[nature[pair]] :
              ~CheckpointsOf[nature[pair]][index].raises /\ Upheld(CheckpointsOf[nature[pair]][index])
  BY DEF ChecksOut
<1> QED
  BY <1>1, <1>2, <1>3 DEF Faultless, NatureOf

(* Which of the schedule's pairs are at fault, part by part.               *)
LEMMA NoDrift ==
    ASSUME TaskInv, phase # "PRIMARY"
    PROVE  Drifted = {} <=> \A pair \in Pairs : DriftOf(pair) = "NONE"
<1>1. ASSUME NEW pair \in Pairs, DriftOf(pair) # "NONE" PROVE Drifted # {}
  BY <1>1, Places DEF Drifted, DriftOf
<1>2. ASSUME NEW task \in Range(completed), task.drift # "NONE"
      PROVE  \E pair \in Pairs : DriftOf(pair) # "NONE"
  <2>1. PICK index \in DOMAIN Schedule : task = completed[index]
    BY DEF TaskInv, Range
  <2>2. /\ Schedule[index] \in Pairs
        /\ \A i, j \in DOMAIN Schedule : Schedule[i] = Schedule[j] => i = j
    BY ScheduleFacts
  <2>3. IndexOf(Schedule[index]) = index
    BY <2>2 DEF IndexOf
  <2> QED
    BY <1>2, <2>1, <2>2, <2>3 DEF DriftOf
<1> QED
  BY <1>1, <1>2 DEF Drifted

LEMMA RepeatsMean ==
    ASSUME TaskInv, phase # "PRIMARY",
           \A pair \in Pairs : Flawless(NatureOf(pair)["NORMAL"])
    PROVE  AllMatch(Repeats) /\ (semantics = "V2" => AllMatch(Sames)) <=>
               /\ Drifted = {}
               /\ \A pair \in Pairs : NatureOf(pair)["ALTERED"] = NatureOf(pair)["NORMAL"]
<1>1. AllMatch(Repeats) <=> \A pair \in Pairs : Repeats[pair] = "MATCH"
  BY DEF AllMatch, Repeats
<1>2. semantics = "V2" => (AllMatch(Sames) <=> \A pair \in Pairs : Sames[pair] = "MATCH")
  BY DEF AllMatch, Sames
<1>3. ASSUME AllMatch(Repeats), semantics = "V2" => AllMatch(Sames), NEW pair \in Pairs
      PROVE  DriftOf(pair) = "NONE" /\ NatureOf(pair)["ALTERED"] = NatureOf(pair)["NORMAL"]
  BY <1>1, <1>2, <1>3, DriftFound, UndriftedRepeats
<1>4. ASSUME Drifted = {}, NEW pair \in Pairs,
             NatureOf(pair)["ALTERED"] = NatureOf(pair)["NORMAL"]
      PROVE  Repeats[pair] = "MATCH" /\ (semantics = "V2" => Sames[pair] = "MATCH")
  BY <1>4, NoDrift, UndriftedRepeats
<1> QED
  BY <1>1, <1>2, <1>3, <1>4, NoDrift

LEMMA SamplesMean ==
    ASSUME TaskInv, \A pair \in Pairs : Flawless(NatureOf(pair)["NORMAL"])
    PROVE  SamplesMatch(Replays, BaselineSample) /\ SamplesMatch(Replays, VariantSample) <=>
               \A pair \in ReplaySample : NatureOf(pair)["REPLAY"] = NatureOf(pair)["NORMAL"]
<1>1. \A pair \in ReplaySample : Replays[pair].status = "MATCH" <=>
                                     NatureOf(pair)["REPLAY"] = NatureOf(pair)["NORMAL"]
  BY SampleFacts, SamplesAreScheduled
<1> QED
  BY <1>1 DEF SamplesMatch, ReplaySample

LEMMA CutoffsMean ==
    ASSUME TaskInv, \A pair \in Pairs : Flawless(NatureOf(pair)["NORMAL"])
    PROVE  ~CutoffRewrite(Cutoffs) <=>
               \A pair \in Pairs : pair.variant = Baseline => ChecksOut(CheckpointsOf[nature[pair]])
<1>1. \A case \in Range(ExecutableCase) :
          Cutoffs[case].status = "STABLE" <=> ChecksOut(CheckpointsOf[nature[BaselineOf(case)]])
  BY CutoffFacts, SamplesAreScheduled
<1>2. DOMAIN Cutoffs = Range(ExecutableCase)
  BY DEF Cutoffs
<1>3. \A pair \in Pairs : pair.variant = Baseline =>
          pair.case \in Range(ExecutableCase) /\ pair = BaselineOf(pair.case)
  BY ScheduleFacts, CaseFacts DEF BaselineOf
<1>4. \A case \in Range(ExecutableCase) :
          BaselineOf(case) \in Pairs /\ BaselineOf(case).variant = Baseline
  BY SamplesAreScheduled DEF BaselineOf
<1> QED
  BY <1>1, <1>2, <1>3, <1>4 DEF CutoffRewrite

LEMMA StageIsRight ==
    ASSUME TaskInv, phase # "PRIMARY"
    PROVE  StageOf(Gates) = "READY_FOR_LOCKED_OOS" <=>
               /\ Drifted = {}
               /\ \A pair \in Pairs : Faultless(pair)
               /\ \A variant \in Range(Others) : ~Withers(variant)
<1> DEFINE AllPassed == \A pair \in Pairs : Results[pair].status = "PASSED"
           AllFlawless == \A pair \in Pairs : Flawless(NatureOf(pair)["NORMAL"])
           Replayed == SamplesMatch(Replays, BaselineSample) /\ SamplesMatch(Replays, VariantSample)
           Repeated == AllMatch(Repeats) /\ (semantics = "V2" => AllMatch(Sames))
           Fine == /\ \A pair \in Pairs : NatureOf(pair)["ALTERED"] = NatureOf(pair)["NORMAL"]
                   /\ \A pair \in ReplaySample : NatureOf(pair)["REPLAY"] = NatureOf(pair)["NORMAL"]
                   /\ \A pair \in Pairs :
                          pair.variant = Baseline => ChecksOut(CheckpointsOf[nature[pair]])
<1>1. AllPassed <=> AllFlawless
  BY PassedIsFlawless
<1>2. AllPassed => \A pair \in Pairs : Complete(Results[pair])
  BY PassedIsFlawless
<1>3. StageOf(Gates) = "READY_FOR_LOCKED_OOS" <=>
          /\ AllPassed /\ Replayed /\ ~CutoffRewrite(Cutoffs) /\ Repeated
          /\ NoneDegenerated(Degeneration)
  <2>1. /\ Basis.results = Results /\ Basis.repeats = Repeats /\ Basis.sames = Sames
        /\ Basis.replays = Replays /\ Basis.cutoffs = Cutoffs
        /\ DOMAIN Results = Pairs /\ semantics \in {"V1", "V2"}
    BY DEF Basis, Results, TaskInv
  <2>2. StageOf(EvaluateGates(semantics, Basis, Degeneration)) = "READY_FOR_LOCKED_OOS" <=>
            /\ \A pair \in DOMAIN Basis.results :
                   Basis.results[pair].status = "PASSED" /\ Complete(Basis.results[pair])
            /\ SamplesMatch(Basis.replays, BaselineSample)
            /\ SamplesMatch(Basis.replays, VariantSample)
            /\ ~CutoffRewrite(Basis.cutoffs)
            /\ AllMatch(Basis.repeats)
            /\ semantics = "V2" => AllMatch(Basis.sames)
            /\ NoneDegenerated(Degeneration)
    BY <2>1, ReadyIsEveryGate
  <2> QED
    BY <1>2, <2>1, <2>2 DEF Gates
<1>4. AllPassed /\ Replayed /\ ~CutoffRewrite(Cutoffs) =>
          (NoneDegenerated(Degeneration) <=> \A variant \in Range(Others) : ~Withers(variant))
  BY DegeneratedMeans
<1>5. AllFlawless => (Repeated /\ Replayed /\ ~CutoffRewrite(Cutoffs) <=> Drifted = {} /\ Fine)
  BY RepeatsMean, SamplesMean, CutoffsMean
<1>6. (\A pair \in Pairs : Faultless(pair)) <=> AllFlawless /\ Fine
  BY FaultlessMeans, SamplesAreScheduled
<1> HIDE DEF AllPassed, AllFlawless, Replayed, Repeated, Fine
<1> QED
  BY <1>1, <1>3, <1>4, <1>5, <1>6

LEMMA RunIsReady == RunInv => ReadyIffNothingWrong
<1> SUFFICES ASSUME RunInv, phase = "WRITE" PROVE ReadyIffNothingWrong
  BY DEF ReadyIffNothingWrong
<1>1. report = Judge(semantics, Findings)
  BY DEF RunInv, ReportInv, Unjudged, From
<1>2. report.stage = StageOf(Gates)
  BY <1>1 DEF Judge, Findings
<1>3. TaskInv /\ phase # "PRIMARY"
  BY DEF RunInv
<1> QED
  BY <1>2, <1>3, StageIsRight DEF ReadyIffNothingWrong

(* The locked cases are opened exactly when nothing was found wrong, for   *)
(* every plan, whatever the executions answer, whichever of them drifts    *)
(* and in whatever order the workers finish.                               *)
THEOREM ReadyExactlyWhenNothingIsWrong == Spec => []ReadyIffNothingWrong
BY InitRun, RunKeeps, RunIsReady, PTL DEF Spec

-----------------------------------------------------------------------------
(* Every record meets its contract *)

LEMMA NormalAnswers ==
    ASSUME TaskInv, NEW pair \in Pairs, NEW drifts \in BOOLEAN
    PROVE  LET answer == Answer(pair, "NORMAL", drifts)
           IN  /\ answer.run # None /\ answer.report \in Report /\ answer.report # None
               /\ answer.audit \in {"PASSED", "FAILED", "ERROR"}
               /\ answer.ran \in BOOLEAN /\ answer.binds \in BOOLEAN
<1> DEFINE a == NatureOf(pair)["NORMAL"]
<1>1. a \in AnswerRecord
  BY Answers
<1>2. Answer(pair, "NORMAL", drifts) = IF drifts THEN [a EXCEPT !.run = "drifted"] ELSE a
  BY DEF Answer, NatureOf
<1> HIDE DEF a
<1> QED
  BY <1>1, <1>2, AnswerAssumption, NoneAssumption DEF AnswerRecord

LEMMA PairAccepted ==
    ASSUME NEW answer, answer.run # None, answer.report \in Report, answer.report # None,
           answer.audit \in {"PASSED", "FAILED", "ERROR"}
    PROVE  CaseAccepted(ExecutePair(answer))
<1> DEFINE result == ExecutePair(answer)
           status == StatusOf(answer)
<1>1. /\ status = "PIPELINE_FAILED" \/ status = "CAUSAL_AUDIT_FAILED"
             \/ status = "METRIC_EVALUATION_FAILED" \/ status = "METRIC_SOURCE_BIND_FAILED"
             \/ status = "PASSED"
      /\ status = "CAUSAL_AUDIT_FAILED" => answer.audit # "PASSED"
      /\ status \in {"METRIC_EVALUATION_FAILED", "METRIC_SOURCE_BIND_FAILED", "PASSED"} =>
             answer.audit = "PASSED"
  BY DEF StatusOf
<1>2. DOMAIN answer.report.aggregates = Metric
  BY DEF Report
<1>3. /\ result.status = status
      /\ result.run = IF status = "PIPELINE_FAILED" THEN None ELSE answer.run
      /\ result.audit = IF status = "PIPELINE_FAILED" \/ answer.audit = "ERROR"
                        THEN None ELSE answer.audit
      /\ result.metric = IF status \in {"PASSED", "METRIC_SOURCE_BIND_FAILED"}
                         THEN answer.report ELSE None
      /\ result.aggregates = IF status = "PASSED"
                             THEN answer.report.aggregates ELSE NoAggregates
  BY DEF ExecutePair
<1> HIDE DEF result, status
<1>4. CaseAccepted(result)
  BY <1>1, <1>2, <1>3 DEF CaseAccepted, Complete
<1> QED
  BY <1>4 DEF result

LEMMA OutcomesAreSound ==
    ASSUME TaskInv, Waiting = {}, NEW pair \in Pairs
    PROVE  Sound(Outcome(Yielded[IndexOf(pair)]))
<1> DEFINE task == Yielded[IndexOf(pair)]
<1>1. /\ IndexOf(pair) \in DOMAIN Schedule /\ Schedule[IndexOf(pair)] = pair
      /\ task.index = IndexOf(pair)
  BY YieldedTasks DEF IndexOf, Pairs, Range
<1> HIDE DEF task
<1>2. Outcome(task).result = ExecutePair(Answer(pair, "NORMAL", task.drift = "A"))
  BY <1>1 DEF Outcome
<1>3. (task.drift = "A") \in BOOLEAN
  OBVIOUS
<1>4. CaseAccepted(Outcome(task).result)
  <2> DEFINE answer == Answer(pair, "NORMAL", task.drift = "A")
  <2>1. /\ answer.run # None /\ answer.report \in Report /\ answer.report # None
        /\ answer.audit \in {"PASSED", "FAILED", "ERROR"}
    BY <1>3, NormalAnswers
  <2>2. Outcome(task).result = ExecutePair(answer)
    BY <1>2
  <2> HIDE DEF answer
  <2> QED
    BY <2>1, <2>2, PairAccepted
<1>5. \A a, b : DeterminismAccepted(Determinism(a, b))
  BY DEF DeterminismAccepted, Determinism
<1>6. DeterminismAccepted(Outcome(task).repeat) /\ DeterminismAccepted(Outcome(task).same)
  BY <1>5 DEF Outcome
<1> QED
  BY <1>4, <1>6 DEF Sound, task

(* A mismatch is never one of the audit alone: the evaluator audits too.   *)
LEMMA SamplesAreAccepted ==
    ASSUME TaskInv, NEW sample \in ReplaySample
    PROVE  SampleAccepted(ExecuteSample(Answer(sample, "NORMAL", FALSE),
                                        Answer(sample, "REPLAY", FALSE)))
<1> DEFINE batch == NatureOf(sample)["NORMAL"]
           replay == NatureOf(sample)["REPLAY"]
           comparison == ExecuteSample(batch, replay)
           done == \A step \in Range(SampleSteps(batch, replay)) : step
<1>1. sample \in Pairs
  BY SamplesAreScheduled
<1>2. batch.vouched = (batch.audit = "PASSED") /\ replay.vouched = (replay.audit = "PASSED")
  BY <1>1, Answers, AmbientAssumption DEF NatureOf
<1>3. comparison = ExecuteSample(Answer(sample, "NORMAL", FALSE), Answer(sample, "REPLAY", FALSE))
  BY DEF Answer, NatureOf
<1> HIDE DEF batch, replay
<1>4. done => batch.audit = "PASSED" /\ replay.audit = "PASSED"
  <2>1. done => Evaluates(batch) /\ Evaluates(replay)
    BY SevenSteps DEF SampleSteps
  <2> QED
    BY <1>2, <2>1 DEF Evaluates
<1>5. /\ comparison.complete = done
      /\ comparison.runEqual = (done /\ batch.run = replay.run)
      /\ comparison.metricEqual = (done /\ batch.run = replay.run /\ batch.report = replay.report)
      /\ comparison.status = "MATCH" =>
             done /\ batch.run = replay.run /\ batch.report = replay.report
      /\ comparison.status = "MISMATCH" =>
             /\ done
             /\ ~(batch.run = replay.run /\ batch.report = replay.report
                  /\ ComparisonPasses(batch, replay))
  BY DEF ExecuteSample
<1> HIDE DEF comparison, done
<1>6. SampleAccepted(comparison)
  BY <1>4, <1>5 DEF SampleAccepted, ComparisonPasses
<1> QED
  BY <1>3, <1>6

LEMMA CutoffsAreAccepted ==
    ASSUME NEW answer, NEW checkpoints \in Seq(Checkpoint) \ {<<>>}
    PROVE  CutoffAccepted(ExecuteCutoffs(answer, checkpoints))
<1> DEFINE n == Len(checkpoints)
           reached == IF answer.ran /\ Evaluates(answer) /\ answer.binds
                      THEN Reached(checkpoints) ELSE {}
           unstable == {index \in reached : ~CheckpointStable(checkpoints[index])}
           comparison == ExecuteCutoffs(answer, checkpoints)
<1>1. n \in Nat \ {0}
  OBVIOUS
<1>2. reached \subseteq 1 .. n
  BY DEF Reached
<1>3. /\ comparison.checkpoints = Cardinality(reached)
      /\ comparison.rewrites = Cardinality(unstable)
      /\ comparison.status = "STABLE" => ~(Cardinality(reached) < n) /\ unstable = {}
      /\ comparison.status = "REWRITE_DETECTED" =>
             ~(~(Cardinality(reached) < n) /\ unstable = {}) /\ ~(Cardinality(reached) < n)
  BY DEF ExecuteCutoffs
<1>4. unstable \subseteq reached
  OBVIOUS
<1> HIDE DEF n, reached, unstable, comparison
<1>5. /\ Cardinality(reached) \in Nat /\ Cardinality(unstable) \in Nat
      /\ Cardinality({}) = 0
      /\ unstable # {} => Cardinality(unstable) # 0
  <2>1. IsFiniteSet(1 .. n)
    BY <1>1, FS_Interval
  <2>2. IsFiniteSet(reached) /\ IsFiniteSet(unstable)
    BY <1>2, <1>4, <2>1, FS_Subset
  <2> QED
    BY <2>2, FS_CardinalityType, FS_EmptySet
<1>6. ASSUME comparison.status = "STABLE"
      PROVE  comparison.checkpoints > 0 /\ comparison.rewrites = 0
  <2>1. ~(Cardinality(reached) < n) /\ unstable = {}
    BY <1>3, <1>6
  <2>2. Cardinality(reached) > 0
    BY <1>1, <1>5, <2>1
  <2> QED
    BY <1>3, <1>5, <2>1, <2>2
<1>7. ASSUME comparison.status = "REWRITE_DETECTED"
      PROVE  comparison.rewrites > 0
  <2>1. unstable # {}
    BY <1>3, <1>7
  <2>2. Cardinality(unstable) > 0
    BY <1>5, <2>1
  <2> QED
    BY <1>3, <2>2
<1>8. CutoffAccepted(comparison)
  BY <1>6, <1>7 DEF CutoffAccepted
<1> QED
  BY <1>8 DEF comparison

LEMMA PartsAddUp ==
    ASSUME NEW S, IsFiniteSet(S), NEW A, NEW B, A \cup B = S, A \cap B = {}
    PROVE  /\ Cardinality(A) \in Nat /\ Cardinality(B) \in Nat /\ Cardinality(S) \in Nat
           /\ Cardinality(A) + Cardinality(B) = Cardinality(S)
<1>1. IsFiniteSet(A) /\ IsFiniteSet(B)
  BY FS_Subset
<1>2. Cardinality(A \cup B) = Cardinality(A) + Cardinality(B) - Cardinality(A \cap B)
  BY <1>1, FS_Union
<1>3. Cardinality(A \cap B) = 0
  BY FS_EmptySet
<1>4. Cardinality(A) \in Nat /\ Cardinality(B) \in Nat /\ Cardinality(S) \in Nat
  BY <1>1, FS_CardinalityType
<1> QED
  BY <1>2, <1>3, <1>4

LEMMA PartitionFacts ==
    ASSUME NEW partition \in Partition
    PROVE  /\ CasesIn(partition) \subseteq Executed /\ IsFiniteSet(CasesIn(partition))
           /\ Cardinality(CasesIn(partition)) \in Nat
           /\ \A case \in CasesIn(partition), variant \in Range(Variant) :
                  [case |-> case, variant |-> variant] \in Pairs
<1>1. CasesIn(partition) \subseteq Executed /\ CasesIn(partition) \subseteq Range(Case)
  BY DEF CasesIn, Executed, Partition
<1>2. IsFiniteSet(CasesIn(partition))
  BY <1>1, CaseFacts, FS_Subset
<1> QED
  BY <1>1, <1>2, FS_CardinalityType, ScheduleFacts

LEMMA ValuesAreKnown ==
    ASSUME TaskInv, phase # "PRIMARY", NEW pair \in Pairs, NEW metric \in Metric
    PROVE  ValueOf(Results[pair], metric) \in Int \cup {None}
<1> DEFINE a == NatureOf(pair)["NORMAL"]
<1>1. a \in AnswerRecord
  BY Answers
<1>2. Results[pair].aggregates = ExecutePair(a).aggregates
  BY ResultFacts
<1>3. Results[pair].aggregates = a.report.aggregates \/ Results[pair].aggregates = <<>>
  BY <1>2 DEF ExecutePair, NoAggregates
<1>4. DOMAIN <<>> = {}
  OBVIOUS
<1>5. a.report.aggregates[metric].value \in Int \cup {None}
  <2>1. a.report.aggregates[metric] \in Aggregate
    BY <1>1 DEF AnswerRecord, Report
  <2> QED
    BY <2>1 DEF Aggregate
<1> HIDE DEF a
<1> QED
  BY <1>3, <1>4, <1>5 DEF ValueOf, Complete

LEMMA DeltaIsAccepted ==
    ASSUME TaskInv, phase # "PRIMARY", NEW partition \in Partition, NEW variant \in Range(Others),
           NEW case \in CasesIn(partition), NEW metric \in Metric
    PROVE  DeltaAccepted(Delta(Results, case, variant, metric))
<1> DEFINE baseline == ValueOf(Results[[case |-> case, variant |-> Baseline]], metric)
           other == ValueOf(Results[[case |-> case, variant |-> variant]], metric)
           delta == Delta(Results, case, variant, metric)
<1>1. baseline \in Int \cup {None} /\ other \in Int \cup {None}
  <2>1. /\ [case |-> case, variant |-> Baseline] \in Pairs
        /\ [case |-> case, variant |-> variant] \in Pairs
    BY PartitionFacts, VariantFacts
  <2> QED
    BY <2>1, ValuesAreKnown
<1>2. /\ delta.status = DeltaStatus(baseline, other)
      /\ delta.absolute = IF DeltaStatus(baseline, other) = "COMPARABLE"
                          THEN other - baseline ELSE None
  BY DEF Delta
<1> HIDE DEF baseline, other, delta
<1>3. DeltaStatus(baseline, other) = "COMPARABLE" <=> baseline # None /\ other # None
  BY DEF DeltaStatus
<1>4. ASSUME baseline # None, other # None PROVE other - baseline # None
  <2>1. other - baseline \in Int
    BY <1>1, <1>4
  <2> QED
    BY <2>1, NoneAssumption
<1>5. (delta.status = "COMPARABLE") <=> (delta.absolute # None)
  BY <1>2, <1>3, <1>4
<1> QED
  BY <1>5 DEF DeltaAccepted, delta

LEMMA SummaryIsAccepted ==
    ASSUME TaskInv, phase # "PRIMARY", NEW partition \in Partition, NEW variant \in Range(Others)
    PROVE  DeltaSummaryAccepted(DeltaSummary(Results, partition, variant))
<1> DEFINE keys == CasesIn(partition) \X Metric
           summary == DeltaSummary(Results, partition, variant)
           comparable == {key \in keys : summary.deltas[key].status = "COMPARABLE"}
           equal == {key \in keys : summary.deltas[key].status = "COMPARABLE"
                                    /\ summary.deltas[key].absolute = 0}
           nonZero == {key \in keys : summary.deltas[key].status = "COMPARABLE"
                                      /\ summary.deltas[key].absolute # 0}
           unavailable == {key \in keys : summary.deltas[key].status # "COMPARABLE"}
<1>1. /\ DOMAIN summary.deltas = keys
      /\ \A key \in keys : summary.deltas[key] = Delta(Results, key[1], variant, key[2])
  BY DEF DeltaSummary
<1>2. /\ summary.comparable = Cardinality(comparable) /\ summary.equal = Cardinality(equal)
      /\ summary.nonZero = Cardinality(nonZero)
      /\ summary.unavailable = Cardinality(unavailable)
  BY DEF DeltaSummary, Count
<1>3. IsFiniteSet(keys)
  BY PartitionFacts, PlanAssumption, FS_Product
<1>4. ASSUME NEW key \in keys PROVE DeltaAccepted(summary.deltas[key])
  <2>1. key[1] \in CasesIn(partition) /\ key[2] \in Metric
    OBVIOUS
  <2> HIDE DEF summary, keys
  <2> QED
    BY <1>1, <2>1, DeltaIsAccepted
<1>5. Cardinality(comparable) + Cardinality(unavailable) = Cardinality(keys)
  <2>1. comparable \cup unavailable = keys /\ comparable \cap unavailable = {}
    OBVIOUS
  <2> HIDE DEF keys, comparable, unavailable
  <2> QED
    BY <1>3, <2>1, PartsAddUp
<1>6. Cardinality(equal) + Cardinality(nonZero) = Cardinality(comparable)
  <2>1. equal \cup nonZero = comparable /\ equal \cap nonZero = {} /\ comparable \subseteq keys
    OBVIOUS
  <2> HIDE DEF keys, comparable, equal, nonZero
  <2>2. IsFiniteSet(comparable)
    BY <1>3, <2>1, FS_Subset
  <2> QED
    BY <2>1, <2>2, PartsAddUp
<1> HIDE DEF keys, summary, comparable, equal, nonZero, unavailable
<1>7. DeltaSummaryAccepted(summary)
  BY <1>1, <1>2, <1>4, <1>5, <1>6 DEF DeltaSummaryAccepted
<1> QED
  BY <1>7 DEF summary

LEMMA AllDeltasAccepted ==
    ASSUME TaskInv, phase # "PRIMARY"
    PROVE  DeltasAccepted(Deltas)
<1>1. /\ DOMAIN Deltas = Partition \X Range(Others)
      /\ \A key \in Partition \X Range(Others) : Deltas[key] = DeltaSummary(Results, key[1], key[2])
  BY DEF Deltas, CalculateDeltas
<1>2. ASSUME NEW key \in Partition \X Range(Others) PROVE DeltaSummaryAccepted(Deltas[key])
  <2>1. key[1] \in Partition /\ key[2] \in Range(Others)
    OBVIOUS
  <2> QED
    BY <1>1, <2>1, SummaryIsAccepted
<1> QED
  BY <1>1, <1>2 DEF DeltasAccepted

(* A summary of the degeneration: the findings spell out what triggers and *)
(* what is insufficient, and no rule is both.                              *)
LEMMA TriggersAreRules ==
    ASSUME NEW kind \in {"V1", "V2"}, NEW e, NEW variant
    PROVE  /\ Triggered(kind, e, variant) \subseteq RuleCode
           /\ kind = "V2" => "FUTURE_PREFIX_REWRITE" \notin Triggered(kind, e, variant)
           /\ Insufficient(e, variant) \subseteq {"MULTI_METRIC_COVERAGE_COLLAPSE"}
           /\ Triggered(kind, e, variant) \cap Insufficient(e, variant) = {}
<1>1. OwnTriggers(e, variant) \subseteq RuleCode \ {"FUTURE_PREFIX_REWRITE"}
  BY DEF OwnTriggers, RuleCode
<1>2. "MULTI_METRIC_COVERAGE_COLLAPSE" \in OwnTriggers(e, variant) =>
          /\ Covered(ValidationResults(e.results, Baseline))
          /\ Covered(ValidationResults(e.results, variant))
  BY DEF OwnTriggers, RuleCode
<1>3. "FUTURE_PREFIX_REWRITE" \in RuleCode
  BY DEF RuleCode
<1> QED
  BY <1>1, <1>2, <1>3 DEF Triggered, RewriteCounts, Insufficient

LEMMA DegenerationIsAccepted ==
    ASSUME NEW kind \in {"V1", "V2"}, NEW e, NEW deltas
    PROVE  DegenerationAccepted(kind, EvaluateDegeneration(kind, e, deltas))
<1> DEFINE degeneration == EvaluateDegeneration(kind, e, deltas)
<1>1. ASSUME NEW variant \in Range(Others)
      PROVE  IF kind = "V1" THEN DegenerationAcceptedV1(degeneration[variant])
             ELSE DegenerationAcceptedV2(degeneration[variant])
  <2> DEFINE summary == degeneration[variant]
             triggered == Triggered(kind, e, variant)
             insufficient == Insufficient(e, variant)
  <2>1. /\ triggered \subseteq RuleCode
        /\ kind = "V2" => "FUTURE_PREFIX_REWRITE" \notin triggered
        /\ insufficient \subseteq {"MULTI_METRIC_COVERAGE_COLLAPSE"}
        /\ triggered \cap insufficient = {}
    BY TriggersAreRules
  <2>2. /\ \A rule \in RuleCode :
               /\ summary.findings[rule] = FindingStatus(triggered, insufficient, rule)
               /\ summary.scopes[rule] = ScopeOf(insufficient, rule)
        /\ summary.triggered = triggered
        /\ summary.status = DegenerationStatus(triggered, insufficient, summary.nonZero)
    BY DEF EvaluateDegeneration, DegenerationSummary
  <2> HIDE DEF triggered, insufficient, summary
  <2>3. \A rule :
            /\ FindingAccepted(FindingStatus(triggered, insufficient, rule))
            /\ FindingStatus(triggered, insufficient, rule) = "DEGENERATED" <=> rule \in triggered
            /\ FindingStatus(triggered, insufficient, rule) = "INSUFFICIENT_EVIDENCE" <=>
                   rule \in insufficient
    BY <2>1 DEF FindingStatus, FindingAccepted
  <2>4. \A rule :
            /\ ScopeOf(insufficient, rule) = "NOT_APPLICABLE_GLOBAL_RULE" <=>
                   rule = "FUTURE_PREFIX_REWRITE"
            /\ ScopeOf(insufficient, rule) = "TRUE_INSUFFICIENT_EVIDENCE" <=> rule \in insufficient
    BY <2>1 DEF ScopeOf
  <2>5. insufficient \subseteq RuleCode
    BY <2>1 DEF RuleCode
  <2>6. /\ RulesFound(summary, "DEGENERATED") = triggered
        /\ RulesFound(summary, "INSUFFICIENT_EVIDENCE") = insufficient
    <3>1. \A rule \in RuleCode :
              /\ summary.findings[rule] = "DEGENERATED" <=> rule \in triggered
              /\ summary.findings[rule] = "INSUFFICIENT_EVIDENCE" <=> rule \in insufficient
      BY <2>2, <2>3
    <3>2. RulesFound(summary, "DEGENERATED") = triggered
      BY <2>1, <3>1 DEF RulesFound
    <3>3. RulesFound(summary, "INSUFFICIENT_EVIDENCE") = insufficient
      BY <2>5, <3>1 DEF RulesFound
    <3> QED
      BY <3>2, <3>3
  <2>7. kind = "V1" => DegenerationAcceptedV1(summary)
    BY <2>2, <2>3, <2>6 DEF DegenerationAcceptedV1
  <2>8. ASSUME kind = "V2" PROVE DegenerationAcceptedV2(summary)
    <3>1. ASSUME NEW rule \in RuleCode
          PROVE  FindingAcceptedV2(summary.findings[rule], summary.scopes[rule])
      <4>1. /\ FindingAccepted(summary.findings[rule])
            /\ summary.findings[rule] = "DEGENERATED" <=> rule \in triggered
            /\ summary.findings[rule] = "INSUFFICIENT_EVIDENCE" <=> rule \in insufficient
            /\ summary.scopes[rule] = "NOT_APPLICABLE_GLOBAL_RULE" <=>
                   rule = "FUTURE_PREFIX_REWRITE"
            /\ summary.scopes[rule] = "TRUE_INSUFFICIENT_EVIDENCE" <=> rule \in insufficient
        BY <2>2, <2>3, <2>4
      <4> QED
        BY <2>1, <2>8, <4>1 DEF FindingAcceptedV2, FindingAccepted
    <3>2. {rule \in RuleCode : summary.scopes[rule] = "TRUE_INSUFFICIENT_EVIDENCE"} = insufficient
      BY <2>2, <2>4, <2>5
    <3> QED
      BY <2>2, <2>6, <3>1, <3>2 DEF DegenerationAcceptedV2
  <2> QED
    BY <2>7, <2>8 DEF summary
<1> HIDE DEF degeneration
<1>2. DegenerationAccepted(kind, degeneration)
  BY <1>1 DEF DegenerationAccepted
<1> QED
  BY <1>2 DEF degeneration

-----------------------------------------------------------------------------
(* The report meets its contracts *)

LEMMA PairsOfPartition ==
    ASSUME NEW partition \in Partition
    PROVE  Cardinality({pair \in Pairs : PartitionOf(pair.case) = partition}) =
               Cardinality(CasesIn(partition)) * Len(Variant)
<1> DEFINE C == CasesIn(partition)
           V == Range(Variant)
           S == {pair \in Pairs : PartitionOf(pair.case) = partition}
           f == [key \in C \X V |-> [case |-> key[1], variant |-> key[2]]]
<1>1. IsFiniteSet(C) /\ Cardinality(C) \in Nat /\ C \subseteq Executed
  BY PartitionFacts
<1>2. IsFiniteSet(V) /\ Cardinality(V) = Len(Variant)
  <2>1. /\ Len(Variant) \in Nat /\ Variant \in [1 .. Len(Variant) -> Range(Variant)]
        /\ \A i, j \in 1 .. Len(Variant) : Variant[i] = Variant[j] => i = j
    BY PlanFacts
  <2> DEFINE n == Len(Variant)
  <2>2. n \in Nat /\ Variant \in [1 .. n -> V] /\ \A i, j \in 1 .. n : Variant[i] = Variant[j] => i = j
    BY <2>1
  <2> HIDE DEF n, V
  <2>3. IsFiniteSet(Range(Variant)) /\ Cardinality(Range(Variant)) = n
    BY <2>2, ListSize, Zenon
  <2> QED
    BY <2>3 DEF n, V
<1>3. Cardinality(C \X V) = Cardinality(C) * Cardinality(V) /\ IsFiniteSet(C \X V)
  BY <1>1, <1>2, FS_Product
<1>4. S = [case : C, variant : V]
  <2>1. Pairs = [case : Executed, variant : V]
    BY ScheduleFacts
  <2>2. \A case \in Executed : PartitionOf(case) = partition <=> case \in C
    BY DEF CasesIn, Executed
  <2> HIDE DEF C, V
  <2> QED
    BY <1>1, <2>1, <2>2
<1>5. f \in Bijection(C \X V, S)
  <2> HIDE DEF C, V
  <2>1. f \in [C \X V -> S]
    <3>1. \A key \in C \X V : f[key] \in S
      <4> HIDE DEF S
      <4> QED
        BY <1>4
    <3> HIDE DEF S
    <3> QED
      BY <3>1
  <2>2. \A k, l \in C \X V : f[k] = f[l] => k = l
    OBVIOUS
  <2>3. \A pair \in S : \E key \in C \X V : f[key] = pair
    <3>1. ASSUME NEW pair \in S PROVE \E key \in C \X V : f[key] = pair
      <4> HIDE DEF S
      <4>1. /\ pair = [case |-> pair.case, variant |-> pair.variant]
            /\ <<pair.case, pair.variant>> \in C \X V
        BY <1>4, <3>1
      <4>2. f[<<pair.case, pair.variant>>] = pair
        BY <4>1
      <4> QED
        BY <4>1, <4>2
    <3> QED
      BY <3>1
  <2> HIDE DEF S, f
  <2> QED
    BY <2>1, <2>2, <2>3 DEF Bijection, Injection, Surjection, IsInjective
<1> HIDE DEF S, f, C, V
<1>6. Cardinality(S) = Cardinality(C \X V)
  BY <1>3, <1>5, FS_Bijection DEF ExistsBijection
<1> QED
  BY <1>2, <1>3, <1>6 DEF S, C, V

LEMMA OthersFacts ==
    /\ IsFiniteSet(Range(Others)) /\ Cardinality(Range(Others)) = Len(Others) /\ Len(Others) \in Nat
<1>1. /\ Others \in Seq(Range(Variant)) /\ Len(Others) = Len(Variant) - 1
      /\ \A i \in 1 .. Len(Others) : Others[i] = Variant[i + 1]
  BY VariantFacts
<1>2. /\ Len(Variant) \in Nat \ {0}
      /\ \A i, j \in 1 .. Len(Variant) : Variant[i] = Variant[j] => i = j
  BY PlanFacts
<1>3. Len(Others) \in Nat /\ Others \in [1 .. Len(Others) -> Range(Variant)]
  BY <1>1
<1>4. ASSUME NEW i \in 1 .. Len(Others), NEW j \in 1 .. Len(Others), Others[i] = Others[j]
      PROVE  i = j
  <2>1. i + 1 \in 1 .. Len(Variant) /\ j + 1 \in 1 .. Len(Variant)
    BY <1>1, <1>2
  <2>2. Variant[i + 1] = Variant[j + 1]
    BY <1>1, <1>4
  <2>3. i + 1 = j + 1
    BY <1>2, <2>1, <2>2
  <2> QED
    BY <2>3
<1> DEFINE n == Len(Others)
<1>5. n \in Nat /\ Others \in [1 .. n -> Range(Variant)]
      /\ \A i, j \in 1 .. n : Others[i] = Others[j] => i = j
  BY <1>3, <1>4
<1> HIDE DEF n
<1>6. IsFiniteSet(Range(Others)) /\ Cardinality(Range(Others)) = n
  BY <1>5, ListSize, Zenon
<1> QED
  BY <1>5, <1>6 DEF n

LEMMA Products ==
    ASSUME NEW a \in Nat, NEW b \in Nat, NEW c \in Nat
    PROVE  b * (a * c) = a * b * c
OBVIOUS

LEMMA DeltasOfPartition ==
    ASSUME NEW partition \in Partition
    PROVE  SumFunction([variant \in Range(Others) |->
                           Cardinality(DOMAIN Deltas[<<partition, variant>>].deltas)]) =
               Cardinality(CasesIn(partition)) * Len(Others) * Cardinality(Metric)
<1> DEFINE c == Cardinality(CasesIn(partition)) * Cardinality(Metric)
           f == [variant \in Range(Others) |->
                    Cardinality(DOMAIN Deltas[<<partition, variant>>].deltas)]
<1>1. /\ IsFiniteSet(CasesIn(partition)) /\ Cardinality(CasesIn(partition)) \in Nat
      /\ IsFiniteSet(Metric) /\ Cardinality(Metric) \in Nat
  BY PartitionFacts, PlanAssumption, FS_CardinalityType
<1>2. Cardinality(CasesIn(partition) \X Metric) = c /\ c \in Nat
  <2>1. Cardinality(CasesIn(partition) \X Metric) = Cardinality(CasesIn(partition)) * Cardinality(Metric)
    BY <1>1, FS_Product
  <2> QED
    BY <1>1, <2>1
<1>3. \A variant \in Range(Others) :
          DOMAIN Deltas[<<partition, variant>>].deltas = CasesIn(partition) \X Metric
  BY DEF Deltas, CalculateDeltas, DeltaSummary
<1>4. f = [variant \in Range(Others) |-> c]
  BY <1>2, <1>3
<1>5. SumFunction([variant \in Range(Others) |-> c]) = Cardinality(Range(Others)) * c
  BY <1>2, OthersFacts, SumOfEqualTerms
<1> HIDE DEF f
<1>6. SumFunction(f) = Len(Others) * c
  BY <1>4, <1>5, OthersFacts
<1>7. Len(Others) * (Cardinality(CasesIn(partition)) * Cardinality(Metric)) =
          Cardinality(CasesIn(partition)) * Len(Others) * Cardinality(Metric)
  BY <1>1, OthersFacts, Products
<1> QED
  BY <1>6, <1>7 DEF f

LEMMA CountsAreAccepted ==
    ASSUME TaskInv, phase # "PRIMARY", NEW partition \in Partition, NEW variant \in Range(Variant),
           NEW metric \in Metric
    PROVE  LET counts == MetricCounts(Results, Deltas, partition, variant, metric)
           IN  counts.comparable = counts.equal + counts.nonZero
<1> DEFINE counts == MetricCounts(Results, Deltas, partition, variant, metric)
<1>1. CASE variant = Baseline
  BY <1>1 DEF MetricCounts
<1>2. CASE variant # Baseline
  <2> DEFINE own == Deltas[<<partition, variant>>].deltas
             keys == {key \in DOMAIN own : key[2] = metric}
             known == {key \in keys : own[key].absolute # None}
             equal == {key \in keys : own[key].absolute # None /\ own[key].absolute = 0}
             nonZero == {key \in keys : own[key].absolute # None /\ own[key].absolute # 0}
  <2>1. /\ counts.comparable = Cardinality(known) /\ counts.equal = Cardinality(equal)
        /\ counts.nonZero = Cardinality(nonZero)
    BY <1>2 DEF MetricCounts, Count
  <2>2. IsFiniteSet(known)
    <3>1. variant \in Range(Others)
      BY <1>2, VariantFacts
    <3>2. DOMAIN own = CasesIn(partition) \X Metric
      BY <3>1 DEF Deltas, CalculateDeltas, DeltaSummary
    <3>3. IsFiniteSet(DOMAIN own)
      BY <3>2, PartitionFacts, PlanAssumption, FS_Product
    <3>4. known \subseteq DOMAIN own
      OBVIOUS
    <3> HIDE DEF known, own
    <3> QED
      BY <3>3, <3>4, FS_Subset
  <2>3. equal \cup nonZero = known /\ equal \cap nonZero = {}
    OBVIOUS
  <2> HIDE DEF own, keys, known, equal, nonZero
  <2>4. Cardinality(equal) + Cardinality(nonZero) = Cardinality(known)
    BY <2>2, <2>3, PartsAddUp
  <2> QED
    BY <2>1, <2>4
<1> QED
  BY <1>1, <1>2

LEMMA VariantSummaryIsAccepted ==
    ASSUME TaskInv, phase # "PRIMARY", NEW partition \in Partition, NEW variant \in Range(Variant)
    PROVE  VariantSummaryAccepted(VariantSummary(Findings, Deltas, Degeneration, partition, variant),
                                  partition)
<1> DEFINE summary == VariantSummary(Findings, Deltas, Degeneration, partition, variant)
           C == CasesIn(partition)
           own == [case \in C |-> Results[[case |-> case, variant |-> variant]]]
           passed == {case \in C : own[case].status = "PASSED"}
           failed == {case \in C : own[case].status # "PASSED"}
           complete == {case \in C : Complete(own[case])}
<1>1. /\ summary.executed = Cardinality(C) /\ summary.passed = Cardinality(passed)
      /\ summary.failed = Cardinality(failed) /\ summary.complete = Cardinality(complete)
      /\ \A metric \in Metric :
             summary.counts[metric] = MetricCounts(Results, Deltas, partition, variant, metric)
  <2>1. Findings.results = Results
    BY DEF Findings
  <2> QED
    BY <2>1 DEF VariantSummary, Count
<1>2. IsFiniteSet(C)
  BY PartitionFacts
<1>3. passed \cup failed = C /\ passed \cap failed = {} /\ complete \subseteq C
  OBVIOUS
<1> HIDE DEF summary, C, own, passed, failed, complete
<1>4. Cardinality(passed) + Cardinality(failed) = Cardinality(C)
  BY <1>2, <1>3, PartsAddUp
<1>5. Cardinality(complete) <= Cardinality(C)
  BY <1>2, <1>3, FS_Subset
<1>6. \A metric \in Metric :
          summary.counts[metric].comparable =
              summary.counts[metric].equal + summary.counts[metric].nonZero
  BY <1>1, CountsAreAccepted
<1>7. VariantSummaryAccepted(summary, partition)
  BY <1>1, <1>4, <1>5, <1>6 DEF VariantSummaryAccepted, C
<1> QED
  BY <1>7 DEF summary

LEMMA PartitionIsAccepted ==
    ASSUME TaskInv, phase # "PRIMARY", NEW partition \in Partition
    PROVE  PartitionSummaryAccepted(PartitionSummaries(Findings, Deltas, Degeneration)[partition],
                                    partition)
<1> DEFINE summary == PartitionSummaries(Findings, Deltas, Degeneration)[partition]
           all == {pair \in Pairs : PartitionOf(pair.case) = partition}
           passed == {pair \in Pairs : /\ PartitionOf(pair.case) = partition
                                       /\ Results[pair].status = "PASSED"}
           failed == {pair \in Pairs : /\ PartitionOf(pair.case) = partition
                                       /\ Results[pair].status # "PASSED"}
<1>1. Findings.results = Results /\ DOMAIN Results = Pairs
  BY DEF Findings, Results
<1>2. /\ summary.pairs = Cardinality(all) /\ summary.passed = Cardinality(passed)
      /\ summary.failed = Cardinality(failed)
  BY <1>1 DEF PartitionSummaries, Count
<1>3. summary.deltas = SumFunction([variant \in Range(Others) |->
                           Cardinality(DOMAIN Deltas[<<partition, variant>>].deltas)])
  BY DEF PartitionSummaries
<1>4. \A variant \in Range(Variant) :
          summary.variants[variant] =
              VariantSummary(Findings, Deltas, Degeneration, partition, variant)
  BY DEF PartitionSummaries
<1>5. passed \cup failed = all /\ passed \cap failed = {} /\ all \subseteq Pairs
  OBVIOUS
<1>6. Cardinality(all) = Cardinality(CasesIn(partition)) * Len(Variant)
  BY PairsOfPartition
<1>7. \A variant \in Range(Variant) : VariantSummaryAccepted(summary.variants[variant], partition)
  BY <1>4, VariantSummaryIsAccepted
<1> HIDE DEF summary, all, passed, failed
<1>8. Cardinality(passed) + Cardinality(failed) = Cardinality(all)
  <2>1. IsFiniteSet(all)
    BY <1>5, ScheduleFacts, FS_Subset
  <2> QED
    BY <1>5, <2>1, PartsAddUp
<1>9. PartitionSummaryAccepted(summary, partition)
  BY <1>2, <1>3, <1>6, <1>7, <1>8, DeltasOfPartition DEF PartitionSummaryAccepted
<1> QED
  BY <1>9 DEF summary

LEMMA Judged ==
    LET r == Judge(semantics, Findings)
    IN  /\ r.results = Results /\ r.repeats = Repeats /\ r.sames = Sames
        /\ r.replays = Replays /\ r.cutoffs = Cutoffs /\ r.deltas = Deltas
        /\ r.degeneration = Degeneration /\ r.gates = Gates /\ r.stage = StageOf(Gates)
        /\ r.partitions = PartitionSummaries(Findings, Deltas, Degeneration)
        /\ r.global = IF semantics = "V2" THEN GlobalRewrite(Findings) ELSE None
BY DEF Judge, Findings

(* What is derived from a report once more is what it says.                *)
LEMMA RederivesItself ==
    ASSUME NEW r, r.results = Results, r.repeats = Repeats, r.sames = Sames,
           r.replays = Replays, r.cutoffs = Cutoffs, r.deltas = Deltas,
           r.degeneration = Degeneration, r.gates = Gates,
           r.partitions = PartitionSummaries(Findings, Deltas, Degeneration)
    PROVE  Rederived(semantics, r)
<1>1. r.deltas = CalculateDeltas(r.results)
  BY DEF Deltas
<1>2. /\ Basis.results = Results /\ Basis.repeats = Repeats /\ Basis.sames = Sames
      /\ Basis.replays = Replays /\ Basis.cutoffs = Cutoffs
  BY DEF Basis
<1>3. EvaluateDegeneration(semantics, r, r.deltas) = Degeneration
  BY <1>2, SameDegeneration DEF Degeneration
<1>4. EvaluateGates(semantics, r, r.degeneration) = Gates
  BY <1>2, SameGates DEF Gates
<1>5. Findings.results = Results /\ Findings.replays = Replays
  BY DEF Findings
<1>6. PartitionSummaries(r, r.deltas, r.degeneration) =
          PartitionSummaries(Findings, Deltas, Degeneration)
  BY <1>5, SamePartitions
<1> QED
  BY <1>1, <1>3, <1>4, <1>6 DEF Rederived

LEMMA ReportIsComplete ==
    ASSUME TaskInv, NEW r, r.results = Results, r.repeats = Repeats, r.sames = Sames,
           r.replays = Replays, r.cutoffs = Cutoffs, r.deltas = Deltas,
           r.degeneration = Degeneration, r.gates = Gates,
           r.partitions = PartitionSummaries(Findings, Deltas, Degeneration)
    PROVE  ReportComplete(semantics, r)
<1>1. /\ DOMAIN Results = Range(ExecutionPair) /\ DOMAIN Repeats = Range(ExecutionPair)
      /\ semantics = "V2" => DOMAIN Sames = Range(ExecutionPair)
      /\ DOMAIN Replays = ReplaySample /\ DOMAIN Cutoffs = Range(ExecutableCase)
  BY DEF Results, Repeats, Sames, Replays, Cutoffs, Pairs, Schedule
<1>2. DOMAIN Deltas = Partition \X Range(Others)
  BY DEF Deltas, CalculateDeltas
<1>3. DOMAIN Degeneration = Range(Others)
  BY DEF Degeneration, EvaluateDegeneration
<1>4. DOMAIN PartitionSummaries(Findings, Deltas, Degeneration) = Partition
  BY DEF PartitionSummaries
<1>5. DOMAIN Gates = Gate
  BY DEF Gates, EvaluateGates
<1> QED
  BY <1>1, <1>2, <1>3, <1>4, <1>5 DEF ReportComplete, EvidenceComplete

(* Whatever V1 would block for a gate blocks already.                      *)
LEMMA HardFailuresFail ==
    ASSUME TaskInv, semantics = "V1", NEW r, r.results = Results, r.repeats = Repeats,
           r.replays = Replays, r.cutoffs = Cutoffs, r.degeneration = Degeneration, r.gates = Gates,
           r.stage = StageOf(Gates)
    PROVE  ReportAcceptedV1(r)
<1>1. StageOf(Gates) = IF \E gate \in Gate : Gates[gate] = "FAIL"
                       THEN "BLOCKED_BEFORE_OOS" ELSE "READY_FOR_LOCKED_OOS"
  BY DEF StageOf
<1>2. ASSUME StageOf(Gates) = "READY_FOR_LOCKED_OOS" PROVE ~HardFailure(r)
  <2>1. /\ Basis.results = Results /\ Basis.repeats = Repeats
        /\ Basis.replays = Replays /\ Basis.cutoffs = Cutoffs
    BY DEF Basis
  <2>2. /\ \A pair \in DOMAIN Results : Results[pair].status = "PASSED"
        /\ SamplesMatch(Replays, BaselineSample) /\ SamplesMatch(Replays, VariantSample)
        /\ ~CutoffRewrite(Cutoffs) /\ AllMatch(Repeats) /\ NoneDegenerated(Degeneration)
    BY <1>2, <2>1, ReadyIsEveryGate DEF Gates
  <2>3. SamplesMatch(Replays, ReplaySample)
    BY <2>2 DEF SamplesMatch, ReplaySample
  <2>4. \A gate \in Gate : Gates[gate] # "FAIL"
    BY <1>1, <1>2
  <2> QED
    BY <2>2, <2>3, <2>4 DEF HardFailure, NoneDegenerated
<1>3. ASSUME StageOf(Gates) # "READY_FOR_LOCKED_OOS" PROVE HardFailure(r)
  BY <1>1, <1>3 DEF HardFailure
<1> QED
  BY <1>1, <1>2, <1>3 DEF ReportAcceptedV1

LEMMA StageIsDerivable == StageDerivable(Gates)
<1>1. \A gate \in Gate : Gates[gate] = "FAIL" \/ Gates[gate] = PassOf(gate)
  BY DEF Gates, EvaluateGates
<1> QED
  BY <1>1 DEF StageDerivable, StageOf

LEMMA ReportIsAccepted ==
    ASSUME TaskInv, phase # "PRIMARY"
    PROVE  /\ ReportAccepted(semantics, Judge(semantics, Findings))
           /\ Rederived(semantics, Judge(semantics, Findings))
<1> DEFINE r == Judge(semantics, Findings)
<1>1. /\ r.results = Results /\ r.repeats = Repeats /\ r.sames = Sames
      /\ r.replays = Replays /\ r.cutoffs = Cutoffs /\ r.deltas = Deltas
      /\ r.degeneration = Degeneration /\ r.gates = Gates /\ r.stage = StageOf(Gates)
      /\ r.partitions = PartitionSummaries(Findings, Deltas, Degeneration)
      /\ r.global = IF semantics = "V2" THEN GlobalRewrite(Findings) ELSE None
  BY Judged
<1> HIDE DEF r
<1>2. \A partition \in Partition : PartitionSummaryAccepted(r.partitions[partition], partition)
  BY <1>1, PartitionIsAccepted
<1>3. ReportComplete(semantics, r)
  BY <1>1, ReportIsComplete
<1>4. Rederived(semantics, r)
  BY <1>1, RederivesItself
<1>5. CASE semantics = "V1"
  <2>1. ReportAcceptedV1(r)
    BY <1>1, <1>5, HardFailuresFail
  <2> QED
    BY <1>2, <1>3, <1>4, <1>5, <2>1 DEF ReportAccepted, r
<1>6. CASE semantics = "V2"
  <2>1. GlobalRewrite(Findings) = GlobalRewrite(r)
    BY <1>1 DEF GlobalRewrite, Findings
  <2>2. ReportAcceptedV2(r)
    BY <1>1, <1>4, <1>6, <2>1, StageIsDerivable DEF ReportAcceptedV2
  <2> QED
    BY <1>2, <1>3, <1>4, <1>6, <2>2 DEF ReportAccepted, r
<1> QED
  BY <1>5, <1>6 DEF TaskInv

-----------------------------------------------------------------------------
(* Nothing is raised *)

Unraised == phase # "RAISED"

LEMMA CollectIsSound == RunInv /\ Collect => Unraised'
<1> SUFFICES ASSUME RunInv, Collect PROVE Unraised'
  OBVIOUS
<1>1. TaskInv /\ Waiting = {}
  BY DEF RunInv, Collect
<1>2. \A pair \in Pairs : Sound(Outcome(Yielded[IndexOf(pair)]))
  BY <1>1, OutcomesAreSound
<1>3. phase' = "REPLAY"
  BY <1>2 DEF Collect, IndexOf
<1> QED
  BY <1>3 DEF Unraised

LEMMA ReplaysAreSound == RunInv /\ RunReplays => Unraised'
<1> SUFFICES ASSUME RunInv, RunReplays PROVE Unraised'
  OBVIOUS
<1>1. \A sample \in ReplaySample :
          SampleAccepted(ExecuteSample(Answer(sample, "NORMAL", FALSE),
                                       Answer(sample, "REPLAY", FALSE)))
  BY SamplesAreAccepted DEF RunInv
<1>2. phase' = "CUTOFF"
  BY <1>1 DEF RunReplays
<1> QED
  BY <1>2 DEF Unraised

LEMMA CutoffsAreSound == RunInv /\ RunCutoffs => Unraised'
<1> SUFFICES ASSUME RunInv, RunCutoffs PROVE Unraised'
  OBVIOUS
<1>1. ASSUME NEW case \in Range(ExecutableCase)
      PROVE  CutoffAccepted(ExecuteCutoffs(Answer(BaselineOf(case), "NORMAL", FALSE),
                                           CheckpointsOf[nature[BaselineOf(case)]]))
  <2>1. nature[BaselineOf(case)] \in Nature
    BY SamplesAreScheduled, Answers DEF RunInv
  <2>2. CheckpointsOf[nature[BaselineOf(case)]] \in Seq(Checkpoint) \ {<<>>}
    BY <2>1, CheckpointAssumption
  <2> QED
    BY <2>2, CutoffsAreAccepted
<1>2. phase' = "DELTAS"
  BY <1>1 DEF RunCutoffs
<1> QED
  BY <1>2 DEF Unraised

LEMMA DerivationsAreSound ==
    RunInv /\ (DeriveDeltas \/ DeriveDegeneration \/ DeriveGates) => Unraised'
<1>1. RunInv /\ DeriveDeltas => Unraised'
  BY DEF DeriveDeltas, Derive, Unraised
<1>2. ASSUME RunInv, DeriveDegeneration PROVE Unraised'
  <2>1. phase = "DEGENERATION" /\ TaskInv
    BY <1>2 DEF DeriveDegeneration, RunInv
  <2>2. evidence.deltas = Deltas
    BY <2>1, <1>2 DEF RunInv, RecordInv, From
  <2>3. DeltasAccepted(evidence.deltas)
    BY <2>1, <2>2, AllDeltasAccepted
  <2> QED
    BY <1>2, <2>3 DEF DeriveDegeneration, Derive, Unraised
<1>3. ASSUME RunInv, DeriveGates PROVE Unraised'
  <2>1. phase = "GATES" /\ semantics \in {"V1", "V2"}
    BY <1>3 DEF DeriveGates, RunInv, TaskInv
  <2>2. evidence.degeneration = Degeneration
    BY <2>1, <1>3 DEF RunInv, RecordInv, From
  <2>3. DegenerationAccepted(semantics, evidence.degeneration)
    BY <2>1, <2>2, DegenerationIsAccepted DEF Degeneration
  <2> QED
    BY <1>3, <2>3 DEF DeriveGates, Derive, Unraised
<1> QED
  BY <1>1, <1>2, <1>3

LEMMA CheckIsSound == RunInv /\ Check => Unraised'
<1> SUFFICES ASSUME RunInv, Check PROVE Unraised'
  OBVIOUS
<1>1. phase = "CHECK" /\ TaskInv
  BY DEF Check, RunInv
<1>2. report = Judge(semantics, Findings)
  BY <1>1 DEF RunInv, ReportInv, Unjudged, From
<1>3. ReportAccepted(semantics, report)
  BY <1>1, <1>2, ReportIsAccepted
<1> QED
  BY <1>3 DEF Check, Unraised

LEMMA OthersAreSound ==
    /\ Finish \/ Conclude \/ Preflight \/ Restart => Unraised'
    /\ OpenContract \/ WriteContract \/ OpenReport \/ WriteReport => Unraised'
    /\ FreezeSchedule \/ Diagnose => Unraised'
<1>1. Finish \/ Conclude \/ Preflight \/ Restart => Unraised'
  BY DEF Finish, Conclude, Preflight, Restart, Fresh, Unraised
<1>2. OpenContract \/ WriteContract \/ OpenReport \/ WriteReport => Unraised'
  BY DEF OpenContract, WriteContract, OpenReport, WriteReport, Unraised
<1>3. FreezeSchedule \/ Diagnose => Unraised'
  BY DEF FreezeSchedule, Diagnose, Unraised
<1> QED
  BY <1>1, <1>2, <1>3

LEMMA UnraisedKeeps == RunInv /\ Unraised /\ [Next]_vars => Unraised'
<1>1. Unraised /\ UNCHANGED vars => Unraised'
  BY DEF Unraised, vars
<1> QED
  BY <1>1, CollectIsSound, ReplaysAreSound, CutoffsAreSound, DerivationsAreSound,
     CheckIsSound, OthersAreSound DEF Next

(* What V1 has written passes the check of committed evidence.             *)
LEMMA WrittenIsAccepted == RunInv /\ Unraised => NothingRefused
<1> SUFFICES ASSUME RunInv, semantics = "V1", phase = "DONE" PROVE ExistingAccepted(report)
  BY DEF Unraised, NothingRefused
<1>1. report = Judge(semantics, Findings) /\ TaskInv /\ phase # "PRIMARY"
  BY DEF RunInv, ReportInv, Unjudged, From
<1>2. ReportAccepted("V1", report) /\ Rederived("V1", report)
  BY <1>1, ReportIsAccepted
<1>3. report.results = Results
  BY <1>1, Judged
<1>4. \A pair \in DOMAIN Results : PartitionOf(pair.case) # "OOS"
  BY ScheduleFacts DEF Results, Executed
<1> QED
  BY <1>2, <1>3, <1>4 DEF ExistingAccepted

(* No contract refuses what the runner builds, and what V1 has written     *)
(* passes every later check: for every plan, whatever the pipeline, the    *)
(* auditor and the evaluator answer.                                       *)
THEOREM NothingIsRefused == Spec => []NothingRefused
<1>1. Init => RunInv /\ Unraised
  BY InitRun DEF Init, Unraised
<1>2. RunInv /\ Unraised /\ [Next]_vars => (RunInv /\ Unraised)'
  BY RunKeeps, UnraisedKeeps
<1> QED
  BY <1>1, <1>2, WrittenIsAccepted, PTL DEF Spec

-----------------------------------------------------------------------------
(* Who is blamed in V2 *)

(* A result shows what its execution saw, or nothing.                      *)
LEMMA ResultAtMost ==
    ASSUME TaskInv, phase # "PRIMARY",
           NEW variant \in Range(Variant), NEW case \in CasesIn("VALIDATION")
    PROVE  LET result == ResultsOf(variant)[case]
               usual == UsualOf(case, variant)
           IN  /\ usual \in AnswerRecord
               /\ result.events \in {0, usual.report.events} /\ result.boxes \in {0, usual.boxes}
               /\ Flawless(usual) =>
                      /\ result.status = "PASSED" /\ Complete(result)
                      /\ result.events = usual.report.events /\ result.boxes = usual.boxes
                      /\ result.aggregates = usual.report.aggregates
               /\ Complete(result) /\ Metric # {} => result.aggregates = usual.report.aggregates
<1> DEFINE pair == [case |-> case, variant |-> variant]
           usual == NatureOf(pair)["NORMAL"]
           result == Results[pair]
<1>1. pair \in Pairs
  BY SamplesAreScheduled
<1>2. UsualOf(case, variant) = usual /\ ResultsOf(variant)[case] = result
  BY DEF UsualOf, ResultsOf, ValidationResults
<1> HIDE DEF pair
<1>3. usual \in AnswerRecord
  BY <1>1, Answers
<1>4. /\ result.status = ExecutePair(usual).status
      /\ result.aggregates = ExecutePair(usual).aggregates
      /\ result.events = ExecutePair(usual).events /\ result.boxes = ExecutePair(usual).boxes
  BY <1>1, ResultFacts
<1> HIDE DEF usual, result
<1>5. /\ ExecutePair(usual).events \in {0, usual.report.events}
      /\ ExecutePair(usual).boxes \in {0, usual.boxes}
      /\ ExecutePair(usual).aggregates \in {usual.report.aggregates, NoAggregates}
      /\ ExecutePair(usual).status = "PASSED" =>
             /\ ExecutePair(usual).events = usual.report.events
             /\ ExecutePair(usual).boxes = usual.boxes
             /\ ExecutePair(usual).aggregates = usual.report.aggregates
  BY DEF ExecutePair
<1>6. Flawless(usual) => ExecutePair(usual).status = "PASSED" /\ Complete(ExecutePair(usual))
  BY <1>3, Passes
<1>7. Metric # {} => DOMAIN NoAggregates # Metric
  BY DEF NoAggregates
<1> QED
  BY <1>2, <1>3, <1>4, <1>5, <1>6, <1>7 DEF Complete

(* A sound variant that never shows less than the Baseline adds up to more.*)
LEMMA TotalsCompare ==
    ASSUME TaskInv, phase # "PRIMARY", NEW variant \in Range(Variant),
           \A case \in CasesIn("VALIDATION") :
               /\ Flawless(UsualOf(case, variant))
               /\ ~ShowsLess([case |-> case, variant |-> variant], BaselineOf(case))
    PROVE  LET own == ResultsOf(variant)
               baseline == ResultsOf(Baseline)
           IN  /\ ~Vanishes(baseline, own, LAMBDA result : result.events, EventFloor)
               /\ ~Vanishes(baseline, own, LAMBDA result : result.boxes, BoxFloor)
               /\ Covered(baseline) => CollapsedMetrics(baseline, own) = {}
<1> DEFINE V == CasesIn("VALIDATION")
           own == ResultsOf(variant)
           baseline == ResultsOf(Baseline)
<1>1. IsFiniteSet(V) /\ Baseline \in Range(Variant)
  BY SamplesAreScheduled, VariantFacts
<1>2. DOMAIN own = V /\ DOMAIN baseline = V
  BY DEF ResultsOf, ValidationResults
<1>3. ASSUME NEW case \in V
      PROVE  /\ UsualOf(case, variant) \in AnswerRecord /\ UsualOf(case, Baseline) \in AnswerRecord
             /\ UsualOf(case, Baseline).report.events <= UsualOf(case, variant).report.events
             /\ UsualOf(case, Baseline).boxes <= UsualOf(case, variant).boxes
             /\ \A metric \in Metric :
                    LET low == UsualOf(case, Baseline).report.aggregates[metric]
                        high == UsualOf(case, variant).report.aggregates[metric]
                    IN  /\ low \in Aggregate /\ high \in Aggregate
                        /\ low.eligible <= high.eligible /\ low.matured <= high.matured
  <2>1. UsualOf(case, variant) \in AnswerRecord /\ UsualOf(case, Baseline) \in AnswerRecord
    BY <1>1, ResultAtMost
  <2> DEFINE high == UsualOf(case, variant)
             low == UsualOf(case, Baseline)
  <2>2. /\ ~(high.report.events < low.report.events) /\ ~(high.boxes < low.boxes)
        /\ \A metric \in Metric :
               /\ ~(high.report.aggregates[metric].eligible < low.report.aggregates[metric].eligible)
               /\ ~(high.report.aggregates[metric].matured < low.report.aggregates[metric].matured)
    BY DEF ShowsLess, UsualOf, NatureOf, BaselineOf
  <2> HIDE DEF high, low
  <2>3. /\ high.report \in Report /\ low.report \in Report /\ high.boxes \in Nat /\ low.boxes \in Nat
    BY <2>1 DEF AnswerRecord, high, low
  <2>4. /\ high.report.events \in Nat /\ low.report.events \in Nat
        /\ \A metric \in Metric : high.report.aggregates[metric] \in Aggregate
                                  /\ low.report.aggregates[metric] \in Aggregate
    BY <2>3 DEF Report
  <2>5. \A a \in Aggregate : a.eligible \in Nat /\ a.matured \in Nat
    BY DEF Aggregate
  <2>6. \A metric \in Metric :
            /\ low.report.aggregates[metric].eligible <= high.report.aggregates[metric].eligible
            /\ low.report.aggregates[metric].matured <= high.report.aggregates[metric].matured
    BY <2>2, <2>4, <2>5
  <2>7. low.report.events <= high.report.events /\ low.boxes <= high.boxes
    BY <2>2, <2>3, <2>4
  <2> QED
    BY <2>1, <2>4, <2>6, <2>7 DEF high, low
<1>4. ASSUME NEW case \in V
      PROVE  /\ own[case].events \in Nat /\ baseline[case].events \in Nat
             /\ baseline[case].events <= own[case].events
             /\ own[case].boxes \in Nat /\ baseline[case].boxes \in Nat
             /\ baseline[case].boxes <= own[case].boxes
  <2> DEFINE high == UsualOf(case, variant)
             low == UsualOf(case, Baseline)
  <2>1. /\ own[case].events = high.report.events /\ own[case].boxes = high.boxes
        /\ baseline[case].events \in {0, low.report.events}
        /\ baseline[case].boxes \in {0, low.boxes}
    BY <1>1, ResultAtMost
  <2>2. /\ low.report.events <= high.report.events /\ low.boxes <= high.boxes
        /\ high.report.events \in Nat /\ low.report.events \in Nat
        /\ high.boxes \in Nat /\ low.boxes \in Nat
    BY <1>3 DEF AnswerRecord, Report
  <2> HIDE DEF high, low, own, baseline
  <2> QED
    BY <2>1, <2>2
<1>5. ~Vanishes(baseline, own, LAMBDA result : result.events, EventFloor)
  <2> DEFINE f == [case \in V |-> baseline[case].events]
             g == [case \in V |-> own[case].events]
  <2>1. /\ DOMAIN f = V /\ DOMAIN g = V
        /\ \A case \in V : f[case] \in Nat /\ g[case] \in Nat /\ f[case] <= g[case]
    BY <1>4
  <2>2. Vanishes(baseline, own, LAMBDA result : result.events, EventFloor) <=>
            SumFunction(f) >= EventFloor /\ SumFunction(g) = 0
    BY <1>2 DEF Vanishes, Total
  <2> HIDE DEF f, g, V
  <2>3. SumFunction(f) <= SumFunction(g) /\ SumFunction(f) \in Nat /\ SumFunction(g) \in Nat
    BY <1>1, <2>1, SumIsMonotonic, SumIsNat
  <2> QED
    BY <2>2, <2>3, FloorAssumption
<1>6. ~Vanishes(baseline, own, LAMBDA result : result.boxes, BoxFloor)
  <2> DEFINE f == [case \in V |-> baseline[case].boxes]
             g == [case \in V |-> own[case].boxes]
  <2>1. /\ DOMAIN f = V /\ DOMAIN g = V
        /\ \A case \in V : f[case] \in Nat /\ g[case] \in Nat /\ f[case] <= g[case]
    BY <1>4
  <2>2. Vanishes(baseline, own, LAMBDA result : result.boxes, BoxFloor) <=>
            SumFunction(f) >= BoxFloor /\ SumFunction(g) = 0
    BY <1>2 DEF Vanishes, Total
  <2> HIDE DEF f, g, V
  <2>3. SumFunction(f) <= SumFunction(g) /\ SumFunction(f) \in Nat /\ SumFunction(g) \in Nat
    BY <1>1, <2>1, SumIsMonotonic, SumIsNat
  <2> QED
    BY <2>2, <2>3, FloorAssumption
<1>7. ASSUME Covered(baseline), NEW metric \in Metric
      PROVE  metric \notin CollapsedMetrics(baseline, own)
  <2>1. \A case \in V :
            /\ baseline[case].aggregates = UsualOf(case, Baseline).report.aggregates
            /\ own[case].aggregates = UsualOf(case, variant).report.aggregates
    BY <1>1, <1>2, <1>7, ResultAtMost DEF Covered
  <2>2. \A a \in Aggregate : a.eligible \in Nat /\ a.matured \in Nat
    BY DEF Aggregate
  <2>3. \A case \in V :
            LET low == baseline[case].aggregates[metric]
                high == own[case].aggregates[metric]
            IN  /\ low.eligible \in Nat /\ high.eligible \in Nat /\ low.eligible <= high.eligible
                /\ low.matured \in Nat /\ high.matured \in Nat /\ low.matured <= high.matured
    BY <1>3, <2>1, <2>2
  <2>4. \A before, after \in Nat : before <= after => ~Declines(before, after)
    BY DeclineMeans
  <2> DEFINE Compared(f, g) == /\ SumFunction(f) <= SumFunction(g)
                               /\ SumFunction(f) \in Nat /\ SumFunction(g) \in Nat
  <2>5. ~Declines(Total(baseline, LAMBDA result : result.aggregates[metric].eligible),
                  Total(own, LAMBDA result : result.aggregates[metric].eligible))
    <3> DEFINE f == [case \in V |-> baseline[case].aggregates[metric].eligible]
               g == [case \in V |-> own[case].aggregates[metric].eligible]
    <3>1. /\ DOMAIN f = V /\ DOMAIN g = V
          /\ \A case \in V : f[case] \in Nat /\ g[case] \in Nat /\ f[case] <= g[case]
      BY <2>3
    <3>2. /\ Total(baseline, LAMBDA result : result.aggregates[metric].eligible) = SumFunction(f)
          /\ Total(own, LAMBDA result : result.aggregates[metric].eligible) = SumFunction(g)
      BY <1>2 DEF Total
    <3> HIDE DEF f, g, V
    <3>3. Compared(f, g)
      BY <1>1, <3>1, SumIsMonotonic, SumIsNat
    <3> QED
      BY <2>4, <3>2, <3>3
  <2>6. ~Declines(Total(baseline, LAMBDA result : result.aggregates[metric].matured),
                  Total(own, LAMBDA result : result.aggregates[metric].matured))
    <3> DEFINE f == [case \in V |-> baseline[case].aggregates[metric].matured]
               g == [case \in V |-> own[case].aggregates[metric].matured]
    <3>1. /\ DOMAIN f = V /\ DOMAIN g = V
          /\ \A case \in V : f[case] \in Nat /\ g[case] \in Nat /\ f[case] <= g[case]
      BY <2>3
    <3>2. /\ Total(baseline, LAMBDA result : result.aggregates[metric].matured) = SumFunction(f)
          /\ Total(own, LAMBDA result : result.aggregates[metric].matured) = SumFunction(g)
      BY <1>2 DEF Total
    <3> HIDE DEF f, g, V
    <3>3. Compared(f, g)
      BY <1>1, <3>1, SumIsMonotonic, SumIsNat
    <3> QED
      BY <2>4, <3>2, <3>3
  <2> QED
    BY <2>5, <2>6 DEF CollapsedMetrics
<1>8. CollapsedMetrics(baseline, own) \subseteq Metric
  BY DEF CollapsedMetrics
<1> QED
  BY <1>5, <1>6, <1>7, <1>8

(* No rule triggers for a variant whose validation cases are faultless and *)
(* show no less than those of the Baseline.                                *)
LEMMA NothingToBlame ==
    ASSUME TaskInv, phase # "PRIMARY", NEW variant \in Range(Others),
           \A case \in CasesIn("VALIDATION") :
               LET own == [case |-> case, variant |-> variant]
               IN  Faultless(own) /\ ~ShowsLess(own, BaselineOf(case))
    PROVE  OwnTriggers(Basis, variant) = {}
<1>1. variant \in Range(Variant)
  BY VariantFacts
<1>2. ASSUME NEW case \in CasesIn("VALIDATION")
      PROVE  LET own == [case |-> case, variant |-> variant]
             IN  /\ own \in ReplaySample /\ Flawless(NatureOf(own)["NORMAL"])
                 /\ NatureOf(own)["REPLAY"] = NatureOf(own)["NORMAL"]
  <2> DEFINE own == [case |-> case, variant |-> variant]
  <2>1. own \in Pairs /\ own \in ReplaySample
    BY <1>1, SamplesAreScheduled DEF ReplaySample, VariantSample
  <2>2. Faultless(own)
    OBVIOUS
  <2> HIDE DEF own
  <2>3. Flawless(NatureOf(own)["NORMAL"]) /\ NatureOf(own)["REPLAY"] = NatureOf(own)["NORMAL"]
    BY <2>1, <2>2, FaultlessMeans
  <2> QED
    BY <2>1, <2>3 DEF own
<1>3. \A case \in CasesIn("VALIDATION") : Flawless(UsualOf(case, variant))
  BY <1>2 DEF UsualOf
<1>4. /\ ~Vanishes(ResultsOf(Baseline), ResultsOf(variant),
                   LAMBDA result : result.events, EventFloor)
      /\ ~Vanishes(ResultsOf(Baseline), ResultsOf(variant),
                   LAMBDA result : result.boxes, BoxFloor)
      /\ Covered(ResultsOf(Baseline)) =>
             CollapsedMetrics(ResultsOf(Baseline), ResultsOf(variant)) = {}
  BY <1>1, <1>3, TotalsCompare
<1>5. \A case \in DOMAIN ResultsOf(variant) :
          ResultsOf(variant)[case].status = "PASSED" /\ Complete(ResultsOf(variant)[case])
  BY <1>1, <1>3, ResultAtMost DEF ResultsOf, ValidationResults
<1>6. ASSUME NEW sample \in VariantSample, sample.variant = variant
      PROVE  Replays[sample].status = "MATCH"
  <2>1. sample.case \in CasesIn("VALIDATION")
        /\ sample = [case |-> sample.case, variant |-> variant]
    BY <1>6 DEF VariantSample
  <2>2. /\ sample \in ReplaySample /\ Flawless(NatureOf(sample)["NORMAL"])
        /\ NatureOf(sample)["REPLAY"] = NatureOf(sample)["NORMAL"]
    BY <1>2, <2>1
  <2> QED
    BY <2>2, SampleFacts
<1>7. /\ ResultsOf(Baseline) = ValidationResults(Basis.results, Baseline)
      /\ ResultsOf(variant) = ValidationResults(Basis.results, variant)
      /\ Basis.replays = Replays
  BY DEF ResultsOf, Basis
<1>8. Cardinality({}) = 0 /\ ~(0 >= LeastCollapsed)
  BY FS_EmptySet, FloorAssumption
<1>9. Covered(ResultsOf(variant))
  BY <1>5 DEF Covered
<1>10. ASSUME NEW rule \in OwnTriggers(Basis, variant) PROVE FALSE
  <2>1. rule \in RuleCode
    BY DEF OwnTriggers
  <2>2. rule \notin {"PIPELINE_EXECUTION_FAILURE", "CAUSAL_AUDIT_FAILURE",
                     "METRIC_SOURCE_BIND_FAILURE", "AGGREGATE_SET_INCOMPLETE"}
    BY <1>5, <1>7, <1>9 DEF OwnTriggers
  <2>3. rule # "BATCH_REPLAY_MISMATCH"
    BY <1>6, <1>7 DEF OwnTriggers
  <2>4. rule # "STRUCTURE_EVENT_COLLAPSE" /\ rule # "BOX_EPISODE_COLLAPSE"
    BY <1>4, <1>7 DEF OwnTriggers
  <2>5. rule # "MULTI_METRIC_COVERAGE_COLLAPSE"
    BY <1>4, <1>7, <1>8 DEF OwnTriggers
  <2>6. rule \notin {"FUTURE_PREFIX_REWRITE", "INVALID_OR_REPAIRED_CONFIG"}
    BY DEF OwnTriggers
  <2> QED
    BY <2>1, <2>2, <2>3, <2>4, <2>5, <2>6 DEF RuleCode
<1> QED
  BY <1>10

LEMMA BlamedInV2 ==
    ASSUME TaskInv, phase # "PRIMARY", semantics = "V2", NEW variant \in Range(Others),
           Degeneration[variant].status = "DEGENERATED"
    PROVE  \E case \in CasesIn("VALIDATION") :
               LET own == [case |-> case, variant |-> variant]
               IN  ~Faultless(own) \/ ShowsLess(own, BaselineOf(case))
<1>1. Triggered(semantics, Basis, variant) = OwnTriggers(Basis, variant)
  BY DEF Triggered, RewriteCounts
<1>2. \E insufficient, amount : Degeneration[variant].status =
          DegenerationStatus(OwnTriggers(Basis, variant), insufficient, amount)
  BY <1>1 DEF Degeneration, EvaluateDegeneration, DegenerationSummary
<1>3. \A insufficient, amount : DegenerationStatus({}, insufficient, amount) # "DEGENERATED"
  BY DEF DegenerationStatus
<1>4. OwnTriggers(Basis, variant) # {}
  BY <1>2, <1>3
<1> QED
  BY <1>4, NothingToBlame

(* An execution that does not drift answers as usual.                      *)
LEMMA SameRepeatBlames ==
    ASSUME TaskInv, phase # "PRIMARY", semantics = "V2", ~AllMatch(Sames)
    PROVE  \E task \in Range(completed) : task.drift \in {"A", "B"}
<1>1. PICK pair \in Pairs : Sames[pair] # "MATCH"
  BY DEF AllMatch, Sames
<1>2. SUFFICES ASSUME DriftOf(pair) \notin {"A", "B"} PROVE FALSE
  BY Places DEF DriftOf
<1>3. Answer(pair, "NORMAL", DriftOf(pair) = "A") = Answer(pair, "NORMAL", DriftOf(pair) = "B")
  BY <1>2 DEF Answer
<1>4. \A result : Determinism(result, result).status = "MATCH"
  BY DEF Determinism
<1> QED
  BY <1>1, <1>3, <1>4, Recordings

LEMMA OtherRepeatBlames ==
    ASSUME TaskInv, phase # "PRIMARY", ~AllMatch(Repeats)
    PROVE  \/ \E task \in Range(completed) : task.drift \in {"A", "ALTERED"}
           \/ \E pair \in Pairs :
                  AnswerOf[nature[pair]]["ALTERED"] # AnswerOf[nature[pair]]["NORMAL"]
<1>1. PICK pair \in Pairs : Repeats[pair] # "MATCH"
  BY DEF AllMatch, Repeats
<1>2. SUFFICES ASSUME DriftOf(pair) \notin {"A", "ALTERED"},
                      AnswerOf[nature[pair]]["ALTERED"] = AnswerOf[nature[pair]]["NORMAL"]
               PROVE  FALSE
  BY <1>1, Places DEF DriftOf
<1>3. Answer(pair, "NORMAL", DriftOf(pair) = "A")
          = Answer(pair, "ALTERED", DriftOf(pair) = "ALTERED")
  BY <1>2 DEF Answer
<1>4. \A result : Determinism(result, result).status = "MATCH"
  BY DEF Determinism
<1> QED
  BY <1>1, <1>3, <1>4, Recordings

LEMMA GatesThatFail ==
    ASSUME semantics = "V2"
    PROVE  /\ Gates["DETERMINISTIC_REPEAT"] = "FAIL" => ~AllMatch(Sames)
           /\ Gates["DECIMAL_CONTEXT_INDEPENDENCE"] = "FAIL" => ~AllMatch(Repeats)
<1>1. {"DETERMINISTIC_REPEAT", "DECIMAL_CONTEXT_INDEPENDENCE"} \subseteq Gate
  BY DEF Gate, PartialGate
<1>2. \A gate \in Gate : PassOf(gate) # "FAIL"
  BY DEF PassOf
<1>3. \A gate \in Gate : Gates[gate] = IF HoldsV2(Basis, Degeneration, gate)
                                       THEN PassOf(gate) ELSE "FAIL"
  BY DEF Gates, EvaluateGates
<1>4. Basis.sames = Sames /\ Basis.repeats = Repeats
  BY DEF Basis
<1>5. HoldsV2(Basis, Degeneration, "DETERMINISTIC_REPEAT") = AllMatch(Sames)
  BY <1>4 DEF HoldsV2
<1>6. HoldsV2(Basis, Degeneration, "DECIMAL_CONTEXT_INDEPENDENCE") = AllMatch(Repeats)
  BY <1>4 DEF HoldsV2, EvidenceHolds
<1> QED
  BY <1>1, <1>2, <1>3, <1>5, <1>6

LEMMA BlameIsOwn ==
    ASSUME RunInv, semantics = "V2", phase \notin Unjudged PROVE OwnBlame
<1>1. TaskInv /\ phase # "PRIMARY"
  BY DEF RunInv, Unjudged
<1>2. report = Judge(semantics, Findings)
  BY DEF RunInv, ReportInv
<1>3. report.degeneration = Degeneration /\ report.gates = Gates
  BY <1>2, Judged
<1> QED
  BY <1>1, <1>3, BlamedInV2, SameRepeatBlames, OtherRepeatBlames, GatesThatFail DEF OwnBlame

-----------------------------------------------------------------------------
(* What the analysis of V1 finds *)

LEMMA DiagnosisIsAccepted ==
    ASSUME NEW first, NEW second
    PROVE  /\ DiagnosisAccepted(Diagnosis(first, second))
           /\ Diagnosis(first, first).full /\ ~Diagnosis(first, first).coreSemantic
           /\ Diagnosis(first, second).coreSemantic <=> first.run # second.run
           /\ first.run # second.run => ~Diagnosis(first, second).full
<1> DEFINE semantic == {layer \in DiagnosticLayer :
                           Semantic(first, layer) # Semantic(second, layer)}
           identity == {layer \in DiagnosticLayer :
                           Identity(first, layer) # Identity(second, layer)}
           diagnosis == Diagnosis(first, second)
<1>1. /\ diagnosis.semantic = semantic /\ diagnosis.identity = identity
      /\ diagnosis.full = (semantic \cup identity = {})
      /\ diagnosis.coreSemantic = ("CORE" \in semantic)
      /\ diagnosis.layer = MismatchLayer(semantic, identity)
      /\ diagnosis.disposition =
             CASE semantic \cup identity = {} -> "NO_ROOT_CAUSE_FOUND"
               [] semantic \ {"CASE_RESULT"} # {} -> "PROTECTED_CORE_REMEDIATION_REQUIRED"
               [] OTHER -> "HARNESS_CORRECTION_REQUIRED"
  BY DEF Diagnosis
<1>2. semantic \subseteq DiagnosticLayer /\ identity \subseteq DiagnosticLayer
  OBVIOUS
<1>3. "CORE" \in semantic <=> first.run # second.run
  BY DEF DiagnosticLayer, Semantic
<1>4. Diagnosis(first, first).full /\ ~Diagnosis(first, first).coreSemantic
  BY DEF Diagnosis
<1> HIDE DEF semantic, identity
<1>5. MismatchLayer(semantic, identity) = "NONE" <=> semantic \cup identity = {}
  BY <1>2 DEF MismatchLayer, DiagnosticLayer
<1>6. DiagnosisAccepted(diagnosis)
  <2> HIDE DEF diagnosis
  <2>1. diagnosis.disposition = "NO_ROOT_CAUSE_FOUND" <=> semantic \cup identity = {}
    BY <1>1
  <2>2. diagnosis.disposition = "PROTECTED_CORE_REMEDIATION_REQUIRED" <=>
            semantic \ {"CASE_RESULT"} # {}
    BY <1>1
  <2> QED
    BY <1>1, <1>5, <2>1, <2>2 DEF DiagnosisAccepted
<1> QED
  BY <1>1, <1>3, <1>4, <1>6

(* The layer named is the first that differs; when nothing was rewritten,  *)
(* it is the one of the identities.                                        *)
LEMMA CutoffDiagnosisIsAccepted ==
    ASSUME NEW checkpoint \in Checkpoint, checkpoint.ends
    PROVE  LET diagnosis == CutoffDiagnosis(checkpoint)
           IN  /\ CutoffDiagnosisAccepted(diagnosis)
               /\ diagnosis.layer = "IDENTITY_OR_SOURCE_BINDING" <=> Upheld(checkpoint)
<1> DEFINE compared ==
               [source |-> checkpoint.ends, schedule |-> checkpoint.ends, begins |-> TRUE,
                sharedAudit |-> ComparisonAudit(checkpoint),
                prefixAudit |-> ComparisonAudit(checkpoint),
                frames |-> checkpoint.frames, ledger |-> checkpoint.ledger,
                metric |-> checkpoint.metric, full |-> FALSE,
                identityOnly |-> checkpoint.metric, layer |-> "NONE"]
           diagnosis == CutoffDiagnosis(checkpoint)
           layers == CutoffRewriteLayer
           differing == {position \in DOMAIN layers : Differs(compared, layers[position])}
<1>1. diagnosis = [compared EXCEPT !.layer = FinalLayer(compared)]
  BY DEF CutoffDiagnosis
<1>2. /\ diagnosis.source /\ diagnosis.schedule = diagnosis.begins /\ diagnosis.schedule
      /\ diagnosis.frames = checkpoint.frames /\ diagnosis.ledger = checkpoint.ledger
      /\ diagnosis.metric = checkpoint.metric /\ diagnosis.identityOnly = checkpoint.metric
      /\ diagnosis.full = FALSE /\ diagnosis.layer = FinalLayer(compared)
  BY <1>1 DEF Checkpoint
<1>3. \A layer : Differs(diagnosis, layer) <=> Differs(compared, layer)
  BY <1>1 DEF Differs
<1>4. /\ DOMAIN layers = 1 .. 7
      /\ layers[1] = "PREFIX_SOURCE" /\ layers[2] = "PROCESSING_SCHEDULE"
      /\ layers[3] = "FRAME_BUNDLE" /\ layers[4] = "ACTIVE_BOX_LEDGER"
      /\ layers[5] = "METRIC_OUTCOME" /\ layers[6] = "IDENTITY_OR_SOURCE_BINDING"
      /\ layers[7] = "COMPARISON_AUDIT"
  BY DEF CutoffRewriteLayer
<1>5. \A position \in 1 .. 7 :
          /\ layers[position] # "NONE"
          /\ \A other \in 1 .. 7 : layers[position] = layers[other] => position = other
  <2>1. \A position \in 1 .. 7 : position \in {1, 2, 3, 4, 5, 6, 7}
    OBVIOUS
  <2> QED
    BY <1>4, <2>1
<1>6. /\ ~Differs(diagnosis, layers[1]) /\ ~Differs(diagnosis, layers[2])
      /\ Differs(diagnosis, layers[3]) <=> ~checkpoint.frames
      /\ Differs(diagnosis, layers[4]) <=> ~checkpoint.ledger
      /\ Differs(diagnosis, layers[5]) <=> ~checkpoint.metric
      /\ Differs(diagnosis, layers[6]) <=> checkpoint.metric
  BY <1>2, <1>4 DEF Differs
<1> DEFINE Speaks(position) == Differs(diagnosis, layers[position])
<1>7. differing = {position \in 1 .. 7 : Speaks(position)}
  BY <1>3, <1>4
<1>8. FinalLayer(compared) = IF differing = {} THEN "NONE" ELSE layers[Min(differing)]
  BY DEF FinalLayer
<1> HIDE DEF compared, diagnosis, layers, differing
<1>9. Speaks(5) \/ Speaks(6)
  BY <1>6
<1> HIDE DEF Speaks
<1> DEFINE first == Min(differing)
<1>10. first \in differing /\ \A position \in differing : first <= position
  <2>1. differing \in SUBSET Nat /\ differing # {}
    BY <1>7, <1>9
  <2>2. \E least \in differing : \A position \in differing : least <= position
    BY <2>1, LeastExists
  <2> QED
    BY <2>2 DEF Min
<1> HIDE DEF first
<1>11. /\ first \in 1 .. 7 /\ Speaks(first)
       /\ \A position \in 1 .. 7 : Speaks(position) => first <= position
  BY <1>7, <1>10
<1>12. diagnosis.layer = layers[first]
  BY <1>2, <1>8, <1>10 DEF first
<1>13. \A position \in 1 .. 7 :
           position = first <=>
               Speaks(position) /\ \A earlier \in 1 .. position - 1 : ~Speaks(earlier)
  BY <1>11
<1>14. \A position \in 1 .. 7 :
           diagnosis.layer = layers[position] <=>
               Speaks(position) /\ \A earlier \in 1 .. position - 1 : ~Speaks(earlier)
  BY <1>5, <1>11, <1>12, <1>13
<1>15. diagnosis.layer = "NONE" <=> \A layer \in Range(layers) : ~Differs(diagnosis, layer)
  <2>1. diagnosis.layer # "NONE"
    BY <1>5, <1>11, <1>12
  <2>2. layers[first] \in Range(layers) /\ Differs(diagnosis, layers[first])
    BY <1>4, <1>11 DEF Range, Speaks
  <2> QED
    BY <2>1, <2>2
<1>16. CutoffDiagnosisAccepted(diagnosis)
  <2>1. \A position \in DOMAIN layers :
            diagnosis.layer = layers[position] <=>
                /\ Differs(diagnosis, layers[position])
                /\ \A earlier \in 1 .. position - 1 : ~Differs(diagnosis, layers[earlier])
    BY <1>4, <1>14 DEF Speaks
  <2> QED
    BY <1>2, <1>15, <2>1 DEF CutoffDiagnosisAccepted, layers
<1>17. diagnosis.layer = "IDENTITY_OR_SOURCE_BINDING" <=> Upheld(checkpoint)
  <2>1. 6 \in 1 .. 7 /\ 1 .. 6 - 1 = {1, 2, 3, 4, 5}
    OBVIOUS
  <2>2. diagnosis.layer = layers[6] <=>
            Speaks(6) /\ ~Speaks(1) /\ ~Speaks(2) /\ ~Speaks(3) /\ ~Speaks(4) /\ ~Speaks(5)
    BY <1>14, <2>1
  <2> QED
    BY <1>4, <1>6, <2>2 DEF Speaks, Upheld
<1> QED
  BY <1>16, <1>17 DEF diagnosis

(* The checkpoint taken apart is one of the case: the first that was       *)
(* rewritten, or one of a case where none was.                             *)
RewrittenFirst(checkpoints, index) ==
    /\ ~Upheld(checkpoints[index])
    /\ \A earlier \in 1 .. index - 1 : Upheld(checkpoints[earlier])

LEMMA PartOfInterval ==
    ASSUME NEW n \in Nat, NEW S \in SUBSET (1 .. n)
    PROVE  /\ Cardinality(S) \in Nat /\ Cardinality(S) <= n
           /\ ~(Cardinality(S) < n) => S = 1 .. n
<1>1. IsFiniteSet(1 .. n) /\ Cardinality(1 .. n) = n
  <2>1. IsFiniteSet(1 .. n) /\ Cardinality(1 .. n) = IF 1 > n THEN 0 ELSE n - 1 + 1
    BY FS_Interval
  <2> QED
    BY <2>1
<1>2. IsFiniteSet(S) /\ Cardinality(S) <= n /\ (Cardinality(S) = n => S = 1 .. n)
  BY <1>1, FS_Subset
<1>3. Cardinality(S) \in Nat
  BY <1>2, FS_CardinalityType
<1> QED
  BY <1>2, <1>3

LEMMA SelectedIsFirst ==
    ASSUME NEW answer, NEW checkpoints \in Seq(Checkpoint),
           LET cutoff == ExecuteCutoffs(answer, checkpoints)
           IN  /\ Selectable(cutoff)
               /\ Diagnosable(checkpoints, SelectedCheckpoint(cutoff))
    PROVE  LET selected == SelectedCheckpoint(ExecuteCutoffs(answer, checkpoints))
           IN  /\ selected \in DOMAIN checkpoints
               /\ Upheld(checkpoints[selected]) <=>
                      \A index \in DOMAIN checkpoints : Upheld(checkpoints[index])
               /\ \A index \in DOMAIN checkpoints :
                      RewrittenFirst(checkpoints, index) <=>
                          index = selected /\ ~Upheld(checkpoints[index])
<1> DEFINE cutoff == ExecuteCutoffs(answer, checkpoints)
           reached == IF answer.ran /\ Evaluates(answer) /\ answer.binds
                      THEN Reached(checkpoints) ELSE {}
           unstable == {index \in reached : ~CheckpointStable(checkpoints[index])}
           n == Len(checkpoints)
           selected == SelectedCheckpoint(cutoff)
           Good(index) == Upheld(checkpoints[index])
<1>1. n \in Nat /\ DOMAIN checkpoints = 1 .. n
  OBVIOUS
<1>2. reached \subseteq 1 .. n
  BY DEF Reached
<1>3. /\ cutoff.checkpoints = Cardinality(reached) /\ cutoff.unstable = unstable
      /\ cutoff.status = "STABLE" <=> ~(Cardinality(reached) < n) /\ unstable = {}
  BY DEF ExecuteCutoffs
<1>4. /\ Cardinality(reached) \in Nat /\ Cardinality(reached) <= n
      /\ ~(Cardinality(reached) < n) => reached = 1 .. n
  <2> HIDE DEF n, reached
  <2> QED
    BY <1>1, <1>2, PartOfInterval
<1>5. selected < n
  BY DEF Diagnosable
<1>6. unstable = {index \in reached : ~Good(index)}
  BY StableMeans
<1>7. \A index \in reached, earlier \in 1 .. n : earlier < index => earlier \in reached
  <2>1. \A index \in 1 .. n, earlier \in 1 .. n :
            earlier < index => 1 .. earlier \subseteq 1 .. index
    BY <1>1
  <2> QED
    BY <1>1, <1>2, <2>1 DEF Reached
<1> HIDE DEF cutoff, reached, unstable, n, selected, Good
<1>8. ASSUME cutoff.status = "STABLE"
      PROVE  selected \in 1 .. n /\ \A index \in 1 .. n : Good(index)
  <2>1. selected = (Cardinality(reached) \div 2) + 1
    BY <1>3, <1>8 DEF SelectedCheckpoint, selected
  <2>2. \A k \in Nat : k \div 2 \in Nat
    OBVIOUS
  <2>3. selected \in 1 .. n
    BY <1>1, <1>4, <1>5, <2>1, <2>2
  <2>4. reached = 1 .. n
    BY <1>3, <1>4, <1>8
  <2> QED
    BY <1>3, <1>6, <1>8, <2>3, <2>4
<1>9. ASSUME cutoff.status # "STABLE"
      PROVE  /\ selected \in 1 .. n /\ ~Good(selected)
             /\ \A earlier \in 1 .. n : earlier < selected => Good(earlier)
  <2>1. unstable # {} /\ selected = Min(unstable)
    BY <1>3, <1>9 DEF Selectable, SelectedCheckpoint, cutoff, selected
  <2>2. selected \in unstable /\ \A index \in unstable : selected <= index
    <3>1. unstable \in SUBSET Nat
      <4>1. unstable \subseteq reached
        BY <1>6
      <4>2. 1 .. n \subseteq Nat
        BY <1>1
      <4> QED
        BY <1>2, <4>1, <4>2
    <3>2. \E least \in unstable : \A index \in unstable : least <= index
      BY <2>1, <3>1, LeastExists
    <3> QED
      BY <2>1, <3>2 DEF Min
  <2>3. selected \in reached /\ selected \in 1 .. n /\ ~Good(selected)
    BY <1>2, <1>6, <2>2
  <2>4. ASSUME NEW earlier \in 1 .. n, earlier < selected PROVE Good(earlier)
    <3>1. earlier \in reached
      BY <1>7, <2>3, <2>4
    <3>2. earlier \notin unstable
      BY <1>1, <2>2, <2>3, <2>4
    <3> QED
      BY <1>6, <3>1, <3>2
  <2> QED
    BY <2>3, <2>4
<1>10. /\ selected \in 1 .. n
       /\ Good(selected) <=> \A index \in 1 .. n : Good(index)
  BY <1>8, <1>9
<1>11. ASSUME NEW index \in 1 .. n
       PROVE  (~Good(index) /\ \A earlier \in 1 .. index - 1 : Good(earlier))
                  <=> index = selected /\ ~Good(index)
  <2>1. CASE cutoff.status = "STABLE"
    BY <1>8, <2>1
  <2>2. CASE cutoff.status # "STABLE"
    <3>1. \A earlier \in 1 .. index - 1 : earlier \in 1 .. n /\ earlier < index
      BY <1>1
    <3>2. selected < index => selected \in 1 .. index - 1
      BY <1>1, <1>9, <2>2
    <3>3. selected < index \/ selected = index \/ index < selected
      BY <1>1, <1>9, <2>2
    <3> QED
      BY <1>9, <2>2, <3>1, <3>2, <3>3
  <2> QED
    BY <2>1, <2>2
<1> QED
  BY <1>1, <1>10, <1>11 DEF RewrittenFirst, Good, selected, cutoff

(* What is left of V1's summary is V2's.                                   *)
LEMMA DescriptiveMeans ==
    ASSUME NEW e, NEW deltas, NEW variant, NEW degeneration, variant \in DOMAIN degeneration,
           degeneration[variant] = DegenerationSummary("V1", e, deltas, variant)
    PROVE  AttributeDegeneration(degeneration)[variant].descriptive =
               DegenerationSummary("V2", e, deltas, variant).status
<1> DEFINE own == OwnTriggers(e, variant)
           triggered == Triggered("V1", e, variant)
           insufficient == Insufficient(e, variant)
           nonZero == deltas[<<"VALIDATION", variant>>].nonZero
           kinds == [rule \in RuleCode |->
                        EvidenceKind(rule, FindingStatus(triggered, insufficient, rule))]
<1>1. AttributeDegeneration(degeneration)[variant].descriptive =
          DescriptiveStatus(kinds, triggered, nonZero)
  BY DEF AttributeDegeneration, AttributeSummary, DegenerationSummary
<1>2. DegenerationSummary("V2", e, deltas, variant).status =
          DegenerationStatus(own, insufficient, nonZero)
  <2>1. Triggered("V2", e, variant) = own
    BY DEF Triggered, RewriteCounts
  <2> QED
    BY <2>1 DEF DegenerationSummary
<1>3. /\ triggered \subseteq own \cup {"FUTURE_PREFIX_REWRITE"} /\ own \subseteq triggered
      /\ own \subseteq RuleCode \ {"FUTURE_PREFIX_REWRITE"}
  BY DEF Triggered, OwnTriggers, RuleCode
<1>4. /\ insufficient \subseteq {"MULTI_METRIC_COVERAGE_COLLAPSE"}
      /\ triggered \cap insufficient = {} /\ insufficient \subseteq RuleCode
  BY TriggersAreRules DEF RuleCode
<1> HIDE DEF own, triggered, insufficient
<1>5. \A rule \in RuleCode : kinds[rule] = "INSUFFICIENT_EVIDENCE" <=> rule \in insufficient
  BY <1>4 DEF EvidenceKind, FindingStatus
<1>6. \A rule \in own : kinds[rule] \in {"VARIANT_DIRECT", "SHARED_STATIC_EVIDENCE"}
  BY <1>3, <1>4 DEF EvidenceKind, FindingStatus
<1>7. kinds["FUTURE_PREFIX_REWRITE"] \notin {"VARIANT_DIRECT", "SHARED_STATIC_EVIDENCE"}
  BY DEF EvidenceKind, RuleCode
<1> DEFINE OfKind(kind) == {rule \in RuleCode : kinds[rule] = kind}
<1>8. OfKind("INSUFFICIENT_EVIDENCE") = insufficient
  BY <1>4, <1>5
<1>9. triggered \cap (OfKind("VARIANT_DIRECT") \cup OfKind("SHARED_STATIC_EVIDENCE")) = own
  BY <1>3, <1>6, <1>7
<1> HIDE DEF kinds
<1>10. DescriptiveStatus(kinds, triggered, nonZero) = DegenerationStatus(own, insufficient, nonZero)
  BY <1>8, <1>9 DEF DescriptiveStatus, DegenerationStatus
<1> QED
  BY <1>1, <1>2, <1>10

(* The pairs looked at again are scheduled.                                *)
LEMMA DiagnosticPairs == DiagnosticPair \subseteq Pairs
<1>1. FirstValidation \in CasesIn("VALIDATION")
  <2> DEFINE chosen == CasesOf({"VALIDATION"})
  <2>1. Selection(chosen, {"VALIDATION"}, Len(Case))
    BY SelectedCases
  <2>2. /\ Case \in Seq(Range(Case)) /\ DOMAIN Case = 1 .. Len(Case)
    BY PlanFacts
  <2>3. PICK j \in 1 .. Len(Case) : PartitionOf(Case[j]) = "VALIDATION"
    BY <2>2, ValidationAssumption DEF CasesIn, Range
  <2> HIDE DEF chosen
  <2>4. chosen \in Seq(Range(Case)) /\ \E i \in 1 .. Len(chosen) : chosen[i] = Case[j]
    BY <2>1, <2>3 DEF Selection
  <2>5. 1 \in 1 .. Len(chosen)
    BY <2>4
  <2>6. PartitionOf(chosen[1]) = "VALIDATION"
    BY <2>1, <2>5 DEF Selection
  <2>7. chosen[1] \in Range(Case)
    BY <2>4, <2>5
  <2> QED
    BY <2>6, <2>7 DEF FirstValidation, CasesIn, chosen
<1>2. \A case \in Range(ExecutableCase) : [case |-> case, variant |-> Baseline] \in Pairs
  BY SamplesAreScheduled DEF BaselineOf
<1>3. \A variant \in Range(Others) : [case |-> FirstValidation, variant |-> variant] \in Pairs
  BY <1>1, SamplesAreScheduled, VariantFacts
<1> QED
  BY <1>2, <1>3 DEF DiagnosticPair

(* What the analysis comes to, part by part.                               *)
NormalRun(pair, shaky, execution) == ExecutePair(Answer(pair, "NORMAL", shaky = <<pair, execution>>))
AlteredRun(pair, shaky) == ExecutePair(Answer(pair, "ALTERED", shaky = <<pair, "ALTERED">>))
SelectedOf(case) == CheckpointsOf[nature[BaselineOf(case)]][SelectedCheckpoint(report.cutoffs[case])]

Touched(case) ==
    LET diagnosis == CutoffDiagnosis(SelectedOf(case)) IN ~diagnosis.frames \/ ~diagnosis.ledger
Misjudged(case) ==
    LET diagnosis == CutoffDiagnosis(SelectedOf(case))
    IN  \/ ~diagnosis.source \/ ~diagnosis.schedule
        \/ ~diagnosis.sharedAudit \/ ~diagnosis.prefixAudit

LEMMA RootCausesMean ==
    ASSUME NEW shaky
    PROVE  LET found == RootCauses(shaky)
               same(pair) == Diagnosis(NormalRun(pair, shaky, "A"), NormalRun(pair, shaky, "B"))
               decimal(pair) == Diagnosis(NormalRun(pair, shaky, "A"), AlteredRun(pair, shaky))
               cases == DOMAIN report.cutoffs
           IN  /\ \A pair \in DiagnosticPair :
                      /\ found.repeats[pair].same = same(pair)
                      /\ found.repeats[pair].decimal = decimal(pair)
               /\ DOMAIN found.cutoffs = cases
               /\ \A case \in cases : found.cutoffs[case] = CutoffDiagnosis(SelectedOf(case))
               /\ found.attributions = AttributeDegeneration(report.degeneration)
               /\ "SAME_CONTEXT_NONDETERMINISM" \in found.subjects <=>
                      \E pair \in DiagnosticPair : ~same(pair).full
               /\ "CORE_DECIMAL_CONTEXT_DEPENDENCE" \in found.subjects <=>
                      \E pair \in DiagnosticPair : decimal(pair).coreSemantic
               /\ "METRIC_FIXED_CUTOFF_SEMANTICS" \in found.subjects <=>
                      \E case \in cases : ~CutoffDiagnosis(SelectedOf(case)).metric
               /\ "FRAME_OR_LEDGER_FUTURE_REWRITE" \in found.subjects <=>
                      \E case \in cases : Touched(case)
               /\ "PREFIX_HARNESS_ERROR" \in found.subjects <=>
                      \E case \in cases : Misjudged(case)
<1> DEFINE repeats == [pair \in DiagnosticPair |->
                          RunItem(Answer(pair, "NORMAL", shaky = <<pair, "A">>),
                                  Answer(pair, "NORMAL", shaky = <<pair, "B">>),
                                  Answer(pair, "ALTERED", shaky = <<pair, "ALTERED">>))]
           cutoffs == [case \in DOMAIN report.cutoffs |-> CutoffDiagnosis(SelectedOf(case))]
           attributions == AttributeDegeneration(report.degeneration)
           found == RootCauseReport(repeats, cutoffs, attributions)
<1>1. RootCauses(shaky) = found
  BY DEF RootCauses, SelectedOf
<1>2. \A pair \in DiagnosticPair :
          /\ repeats[pair].same = Diagnosis(NormalRun(pair, shaky, "A"), NormalRun(pair, shaky, "B"))
          /\ repeats[pair].decimal = Diagnosis(NormalRun(pair, shaky, "A"), AlteredRun(pair, shaky))
  BY DEF RunItem, NormalRun, AlteredRun
<1>3. /\ DOMAIN repeats = DiagnosticPair /\ DOMAIN cutoffs = DOMAIN report.cutoffs
      /\ \A case \in DOMAIN cutoffs : cutoffs[case] = CutoffDiagnosis(SelectedOf(case))
  OBVIOUS
<1> HIDE DEF repeats, cutoffs, attributions
<1>4. /\ found.repeats = repeats /\ found.cutoffs = cutoffs /\ found.attributions = attributions
      /\ found.subjects = {subject \in HarnessSubject \cup ProtectedSubject :
                              Found(subject, repeats, cutoffs, attributions)}
  BY DEF RootCauseReport
<1> HIDE DEF found
<1>5. /\ "SAME_CONTEXT_NONDETERMINISM" \in found.subjects <=>
             \E pair \in DOMAIN repeats : ~repeats[pair].same.full
      /\ "CORE_DECIMAL_CONTEXT_DEPENDENCE" \in found.subjects <=>
             \E pair \in DOMAIN repeats : repeats[pair].decimal.coreSemantic
      /\ "METRIC_FIXED_CUTOFF_SEMANTICS" \in found.subjects <=>
             \E case \in DOMAIN cutoffs : ~cutoffs[case].metric
      /\ "FRAME_OR_LEDGER_FUTURE_REWRITE" \in found.subjects <=>
             \E case \in DOMAIN cutoffs : ~cutoffs[case].frames \/ ~cutoffs[case].ledger
      /\ "PREFIX_HARNESS_ERROR" \in found.subjects <=>
             \E case \in DOMAIN cutoffs :
                 \/ ~cutoffs[case].source \/ ~cutoffs[case].schedule
                 \/ ~cutoffs[case].sharedAudit \/ ~cutoffs[case].prefixAudit
  BY <1>4 DEF Found, ProtectedSubject, HarnessSubject
<1> QED
  BY <1>1, <1>2, <1>3, <1>4, <1>5 DEF attributions, Touched, Misjudged

(* What is compared of two executions.                                     *)
RunLeft(answer) == IF answer.ran THEN answer.run ELSE None
LEMMA RunsCompare ==
    ASSUME TaskInv, NEW pair \in Pairs, NEW context \in {"NORMAL", "ALTERED"}
    PROVE  LET usual == NatureOf(pair)[context]
               drifted == ExecutePair(Answer(pair, context, TRUE))
           IN  /\ ExecutePair(Answer(pair, context, FALSE)).run = RunLeft(usual)
               /\ RunLeft(usual) # "drifted"
               /\ drifted.run = IF usual.ran THEN "drifted" ELSE None
               /\ usual.ran => RunLeft(usual) # None
<1> DEFINE usual == NatureOf(pair)[context]
<1>1. usual \in AnswerRecord
  BY Answers
<1>2. \A x : ExecutePair(x).run = IF ~x.ran THEN None ELSE x.run
  <2>1. \A x : StatusOf(x) = "PIPELINE_FAILED" <=> ~x.ran
    BY DEF StatusOf
  <2> QED
    BY <2>1 DEF ExecutePair
<1>3. usual.run # "drifted" /\ None # "drifted" /\ usual.run # None
  BY <1>1, AnswerAssumption, NoneAssumption DEF AnswerRecord
<1>4. /\ Answer(pair, context, FALSE) = usual
      /\ Answer(pair, context, TRUE) = [usual EXCEPT !.run = "drifted"]
  BY DEF Answer, NatureOf
<1> HIDE DEF usual
<1>5. [usual EXCEPT !.run = "drifted"].run = "drifted" /\ [usual EXCEPT !.run = "drifted"].ran = usual.ran
  BY <1>1 DEF AnswerRecord
<1> QED
  BY <1>2, <1>3, <1>4, <1>5 DEF RunLeft, usual

Allows(shaky) == shaky # None => AnswerOf[nature[shaky[1]]]["NORMAL"].ran

(* Which execution drifted, if it is one of the pair's.                    *)
LEMMA ShakenPair ==
    ASSUME NEW shaky \in {None} \cup Shaky, NEW pair \in DiagnosticPair,
           NEW execution \in Execution \ {"NONE"}
    PROVE  shaky = <<pair, execution>> =>
               shaky # None /\ shaky[1] = pair /\ shaky[2] = execution
BY ShakyAssumption DEF Shaky

LEMMA SameMeans ==
    ASSUME TaskInv, NEW shaky \in {None} \cup Shaky, Allows(shaky)
    PROVE  (\E pair \in DiagnosticPair :
                ~Diagnosis(NormalRun(pair, shaky, "A"), NormalRun(pair, shaky, "B")).full) <=>
               shaky # None /\ shaky[2] \in {"A", "B"}
<1>1. ASSUME NEW pair \in DiagnosticPair,
             ~Diagnosis(NormalRun(pair, shaky, "A"), NormalRun(pair, shaky, "B")).full
      PROVE  shaky # None /\ shaky[2] \in {"A", "B"}
  <2>1. CASE shaky # <<pair, "A">> /\ shaky # <<pair, "B">>
    <3>1. NormalRun(pair, shaky, "A") = NormalRun(pair, shaky, "B")
      BY <2>1 DEF NormalRun, Answer
    <3> QED
      BY <1>1, <3>1, DiagnosisIsAccepted
  <2>2. CASE shaky = <<pair, "A">> \/ shaky = <<pair, "B">>
    <3>1. {"A", "B"} \subseteq Execution \ {"NONE"}
      BY DEF Execution
    <3> QED
      BY <2>2, <3>1, ShakenPair
  <2> QED
    BY <2>1, <2>2
<1>2. ASSUME shaky # None, shaky[2] \in {"A", "B"}
      PROVE  \E pair \in DiagnosticPair :
                 ~Diagnosis(NormalRun(pair, shaky, "A"), NormalRun(pair, shaky, "B")).full
  <2>1. PICK pair \in DiagnosticPair, execution \in {"A", "B"} : shaky = <<pair, execution>>
    BY <1>2 DEF Shaky
  <2>2. NatureOf(pair)["NORMAL"].ran /\ pair \in Pairs
    BY <1>2, <2>1, DiagnosticPairs DEF Allows, NatureOf
  <2>3. <<pair, "A">> # <<pair, "B">>
    OBVIOUS
  <2>4. \/ /\ NormalRun(pair, shaky, "A") = ExecutePair(Answer(pair, "NORMAL", TRUE))
           /\ NormalRun(pair, shaky, "B") = ExecutePair(Answer(pair, "NORMAL", FALSE))
        \/ /\ NormalRun(pair, shaky, "A") = ExecutePair(Answer(pair, "NORMAL", FALSE))
           /\ NormalRun(pair, shaky, "B") = ExecutePair(Answer(pair, "NORMAL", TRUE))
    BY <2>1, <2>3 DEF NormalRun, Answer
  <2>5. ExecutePair(Answer(pair, "NORMAL", TRUE)).run # ExecutePair(Answer(pair, "NORMAL", FALSE)).run
    BY <2>2, RunsCompare
  <2>6. NormalRun(pair, shaky, "A").run # NormalRun(pair, shaky, "B").run
    BY <2>4, <2>5
  <2> QED
    BY <2>6, DiagnosisIsAccepted
<1> QED
  BY <1>1, <1>2

LEMMA DecimalMeans ==
    ASSUME TaskInv, NEW shaky \in {None} \cup Shaky, Allows(shaky)
    PROVE  (\E pair \in DiagnosticPair :
                Diagnosis(NormalRun(pair, shaky, "A"), AlteredRun(pair, shaky)).coreSemantic) <=>
               \/ shaky # None /\ shaky[2] \in {"A", "ALTERED"}
               \/ \E pair \in DiagnosticPair :
                      RunLeft(NatureOf(pair)["ALTERED"]) # RunLeft(NatureOf(pair)["NORMAL"])
<1> DEFINE Differ(pair) == NormalRun(pair, shaky, "A").run # AlteredRun(pair, shaky).run
<1>1. \A pair \in DiagnosticPair :
          Diagnosis(NormalRun(pair, shaky, "A"), AlteredRun(pair, shaky)).coreSemantic <=> Differ(pair)
  BY DiagnosisIsAccepted
<1>2. ASSUME NEW pair \in DiagnosticPair,
             shaky # <<pair, "A">>, shaky # <<pair, "ALTERED">>
      PROVE  Differ(pair) <=> RunLeft(NatureOf(pair)["ALTERED"]) # RunLeft(NatureOf(pair)["NORMAL"])
  <2>1. /\ NormalRun(pair, shaky, "A") = ExecutePair(Answer(pair, "NORMAL", FALSE))
        /\ AlteredRun(pair, shaky) = ExecutePair(Answer(pair, "ALTERED", FALSE))
    BY <1>2 DEF NormalRun, AlteredRun, Answer
  <2>2. pair \in Pairs
    BY DiagnosticPairs
  <2> QED
    BY <2>1, <2>2, RunsCompare
<1>3. ASSUME NEW pair \in DiagnosticPair,
             shaky = <<pair, "A">> \/ shaky = <<pair, "ALTERED">>
      PROVE  Differ(pair) /\ shaky # None /\ shaky[2] \in {"A", "ALTERED"}
  <2>1. {"A", "ALTERED"} \subseteq Execution \ {"NONE"}
    BY DEF Execution
  <2>2. shaky # None /\ shaky[1] = pair /\ shaky[2] \in {"A", "ALTERED"}
    BY <1>3, <2>1, ShakenPair
  <2>3. NatureOf(pair)["NORMAL"].ran /\ pair \in Pairs
    BY <2>2, DiagnosticPairs DEF Allows, NatureOf
  <2>4. <<pair, "A">> # <<pair, "ALTERED">>
    OBVIOUS
  <2>5. \/ /\ NormalRun(pair, shaky, "A") = ExecutePair(Answer(pair, "NORMAL", TRUE))
           /\ AlteredRun(pair, shaky) = ExecutePair(Answer(pair, "ALTERED", FALSE))
        \/ /\ NormalRun(pair, shaky, "A") = ExecutePair(Answer(pair, "NORMAL", FALSE))
           /\ AlteredRun(pair, shaky) = ExecutePair(Answer(pair, "ALTERED", TRUE))
    BY <1>3, <2>4 DEF NormalRun, AlteredRun, Answer
  <2>6. Differ(pair)
    BY <2>3, <2>5, RunsCompare
  <2> QED
    BY <2>2, <2>6
<1>4. ASSUME shaky # None, shaky[2] \in {"A", "ALTERED"}
      PROVE  \E pair \in DiagnosticPair : Differ(pair)
  <2>1. PICK pair \in DiagnosticPair : shaky = <<pair, "A">> \/ shaky = <<pair, "ALTERED">>
    BY <1>4 DEF Shaky
  <2> QED
    BY <1>3, <2>1
<1> HIDE DEF Differ
<1>5. ASSUME NEW pair \in DiagnosticPair, Differ(pair)
      PROVE  \/ shaky # None /\ shaky[2] \in {"A", "ALTERED"}
             \/ RunLeft(NatureOf(pair)["ALTERED"]) # RunLeft(NatureOf(pair)["NORMAL"])
  BY <1>2, <1>3, <1>5
<1>6. ASSUME NEW pair \in DiagnosticPair,
             RunLeft(NatureOf(pair)["ALTERED"]) # RunLeft(NatureOf(pair)["NORMAL"])
      PROVE  Differ(pair)
  BY <1>2, <1>3, <1>6
<1> QED
  BY <1>1, <1>4, <1>5, <1>6

-----------------------------------------------------------------------------
(* The analysis as the process holds it *)

(* Nothing is known of the analysis before it ends, nor of a report before *)
(* it is judged; only a complete selection is analysed.                    *)
CanSelect == \A case \in DOMAIN report.cutoffs : Selectable(report.cutoffs[case])
CanDiagnose ==
    \A case \in DOMAIN report.cutoffs :
        Diagnosable(CheckpointsOf[nature[BaselineOf(case)]],
                    SelectedCheckpoint(report.cutoffs[case]))
Analysed(shaky) == Allows(shaky) /\ rca = [shaky |-> shaky, found |-> RootCauses(shaky)]
AnalysisInv ==
    /\ phase \in From("REPLAY") \cup {"PRIMARY"} => report = None
    /\ phase # "DIAGNOSED" => rca = None
    /\ phase = "DIAGNOSE" => semantics = "V1" /\ CanSelect
    /\ rca # None =>
           /\ semantics = "V1" /\ CanSelect /\ CanDiagnose
           /\ \E shaky \in {None} \cup Shaky : Analysed(shaky)

LEMMA SameAnalysis ==
    ASSUME UNCHANGED <<nature, report>>
    PROVE  /\ CanSelect' = CanSelect /\ CanDiagnose' = CanDiagnose
           /\ \A shaky : Allows(shaky)' = Allows(shaky) /\ RootCauses(shaky)' = RootCauses(shaky)
<1>1. CanSelect' = CanSelect /\ CanDiagnose' = CanDiagnose
  BY DEF CanSelect, CanDiagnose
<1>2. \A shaky : Allows(shaky)' = Allows(shaky)
  BY DEF Allows
<1>3. \A shaky : RootCauses(shaky)' = RootCauses(shaky)
  BY DEF RootCauses, Answer
<1> QED
  BY <1>1, <1>2, <1>3

LEMMA AnalysisStarts == Init => AnalysisInv
BY DEF Init, AnalysisInv

(* Every step but the analysis and a restart goes on with none.            *)
LEMMA BeforeAnalysis ==
    \/ Finish \/ Collect \/ RunReplays \/ RunCutoffs
    \/ DeriveDeltas \/ DeriveDegeneration \/ DeriveGates \/ Conclude \/ Check
    \/ Preflight \/ OpenContract \/ WriteContract \/ OpenReport \/ WriteReport
    => /\ phase # "DIAGNOSED" /\ phase' \notin {"DIAGNOSE", "DIAGNOSED"} /\ rca' = rca
       /\ phase' \in From("REPLAY") \cup {"PRIMARY"} =>
              phase \in From("REPLAY") \cup {"PRIMARY"} /\ report' = report
<1> DEFINE Goes == /\ phase # "DIAGNOSED" /\ phase' \notin {"DIAGNOSE", "DIAGNOSED"} /\ rca' = rca
                   /\ phase' \in From("REPLAY") \cup {"PRIMARY"} =>
                          phase \in From("REPLAY") \cup {"PRIMARY"} /\ report' = report
<1>1. Finish => Goes
  BY DEF Finish, From
<1>2. Collect => Goes
  BY DEF Collect, From
<1>3. RunReplays \/ RunCutoffs => Goes
  BY DEF RunReplays, RunCutoffs, From
<1>4. DeriveDeltas \/ DeriveDegeneration \/ DeriveGates => Goes
  BY DEF DeriveDeltas, DeriveDegeneration, DeriveGates, Derive, From
<1>5. Conclude \/ Check \/ Preflight => Goes
  BY DEF Conclude, Check, Preflight, From
<1>6. OpenContract \/ WriteContract \/ OpenReport \/ WriteReport => Goes
  BY DEF OpenContract, WriteContract, OpenReport, WriteReport, From
<1> QED
  BY <1>1, <1>2, <1>3, <1>4, <1>5, <1>6

LEMMA AnalysisKeeps == AnalysisInv /\ [Next]_vars => AnalysisInv'
<1> SUFFICES ASSUME AnalysisInv, [Next]_vars PROVE AnalysisInv'
  OBVIOUS
<1>1. CASE \/ Finish \/ Collect \/ RunReplays \/ RunCutoffs
           \/ DeriveDeltas \/ DeriveDegeneration \/ DeriveGates \/ Conclude \/ Check
           \/ Preflight \/ OpenContract \/ WriteContract \/ OpenReport \/ WriteReport
  BY <1>1, BeforeAnalysis DEF AnalysisInv
<1>2. CASE FreezeSchedule
  <2>1. /\ semantics = "V1" /\ phase = "DONE" /\ semantics' = semantics /\ rca' = rca
        /\ phase' \in {"DIAGNOSE", "NOT_DIAGNOSED"}
        /\ phase' = "DIAGNOSE" => CanSelect
        /\ UNCHANGED <<nature, report>>
    BY <1>2 DEF FreezeSchedule, CanSelect
  <2>2. rca' = None
    BY <2>1 DEF AnalysisInv
  <2> QED
    BY <2>1, <2>2, SameAnalysis DEF AnalysisInv, From
<1>3. CASE Diagnose
  <2>1. /\ phase = "DIAGNOSE" /\ UNCHANGED <<nature, report>> /\ semantics' = semantics
        /\ phase' = IF rca' = None THEN "NOT_DIAGNOSED" ELSE "DIAGNOSED"
    BY <1>3 DEF Diagnose
  <2>2. rca' # None =>
            CanDiagnose /\ \E shaky \in {None} \cup Shaky :
                Allows(shaky) /\ rca' = [shaky |-> shaky, found |-> RootCauses(shaky)]
    BY <1>3 DEF Diagnose, CanDiagnose, Allows
  <2>3. rca' # None =>
            CanDiagnose' /\ \E shaky \in {None} \cup Shaky : Analysed(shaky)'
    BY <2>1, <2>2, SameAnalysis DEF Analysed
  <2>4. semantics' = "V1" /\ CanSelect'
    BY <2>1, SameAnalysis DEF AnalysisInv
  <2> QED
    BY <2>1, <2>3, <2>4 DEF AnalysisInv, From
<1>4. CASE Restart
  BY <1>4 DEF Restart, Fresh, AnalysisInv
<1>5. CASE UNCHANGED vars
  <2>1. /\ UNCHANGED <<nature, report>> /\ semantics' = semantics /\ phase' = phase /\ rca' = rca
    BY <1>5 DEF vars
  <2>2. \A shaky : Analysed(shaky)' = Analysed(shaky)
    BY <2>1, SameAnalysis DEF Analysed
  <2> QED
    BY <2>1, <2>2, SameAnalysis DEF AnalysisInv
<1> QED
  BY <1>1, <1>2, <1>3, <1>4, <1>5 DEF Next

(* What an analysis found is what is there.                                *)
LEMMA CauseIsFound ==
    ASSUME RunInv, AnalysisInv, rca # None
    PROVE  CauseFound
<1>1. PICK shaky \in {None} \cup Shaky : Analysed(shaky)
  BY DEF AnalysisInv
<1>2. phase = "DIAGNOSED" /\ semantics = "V1" /\ CanSelect /\ CanDiagnose
  BY DEF AnalysisInv
<1>3. TaskInv /\ report = Judge(semantics, Findings)
  BY <1>2 DEF RunInv, ReportInv, Unjudged, From
<1>4. /\ report.results = Results /\ report.replays = Replays /\ report.cutoffs = Cutoffs
      /\ report.deltas = Deltas /\ report.degeneration = Degeneration
  BY <1>3, Judged
<1> DEFINE found == RootCauses(shaky)
<1>5. rca.shaky = shaky /\ rca.found = found /\ Allows(shaky)
  BY <1>1 DEF Analysed
<1>6. ASSUME NEW variant \in Range(Others)
      PROVE  found.attributions[variant].descriptive =
                 DegenerationSummary("V2", report, report.deltas, variant).status
  <2>1. EvaluateDegeneration("V1", report, Deltas) = EvaluateDegeneration("V1", Basis, Deltas)
    <3>1. Basis.results = Results /\ Basis.replays = Replays /\ Basis.cutoffs = Cutoffs
      BY DEF Basis
    <3> QED
      BY <1>4, <3>1, SameDegeneration
  <2>2. report.degeneration = EvaluateDegeneration("V1", report, report.deltas)
    BY <1>2, <1>4, <2>1 DEF Degeneration
  <2>3. /\ variant \in DOMAIN report.degeneration
        /\ report.degeneration[variant] = DegenerationSummary("V1", report, report.deltas, variant)
    BY <2>2 DEF EvaluateDegeneration
  <2>4. found.attributions = AttributeDegeneration(report.degeneration)
    BY RootCausesMean
  <2> QED
    BY <2>3, <2>4, DescriptiveMeans
<1> DEFINE Named(case) == CheckpointsOf[nature[BaselineOf(case)]]
<1>7. ASSUME NEW case \in Range(ExecutableCase)
      PROVE  /\ SelectedOf(case) \in Checkpoint /\ SelectedOf(case).ends
             /\ Upheld(SelectedOf(case)) <=>
                    \A index \in DOMAIN Named(case) : Upheld(Named(case)[index])
             /\ \A index \in DOMAIN Named(case) :
                    RewrittenFirst(Named(case), index) =>
                        Named(case)[index] = SelectedOf(case)
             /\ ~Upheld(SelectedOf(case)) =>
                    \E index \in DOMAIN Named(case) :
                        /\ RewrittenFirst(Named(case), index)
                        /\ Named(case)[index] = SelectedOf(case)
  <2> DEFINE checkpoints == CheckpointsOf[nature[BaselineOf(case)]]
             answer == Answer(BaselineOf(case), "NORMAL", FALSE)
             cutoff == ExecuteCutoffs(answer, checkpoints)
             selected == SelectedCheckpoint(cutoff)
  <2>1. case \in DOMAIN report.cutoffs /\ report.cutoffs[case] = cutoff
    BY <1>4 DEF Cutoffs
  <2>2. nature[BaselineOf(case)] \in Nature
    BY <1>3, SamplesAreScheduled, Answers
  <2>3. checkpoints \in Seq(Checkpoint)
    BY <2>2, CheckpointAssumption
  <2>4. Selectable(cutoff) /\ Diagnosable(checkpoints, selected)
    BY <1>2, <2>1 DEF CanSelect, CanDiagnose
  <2>5. SelectedOf(case) = checkpoints[selected]
    BY <2>1 DEF SelectedOf
  <2> HIDE DEF checkpoints, answer
  <2>6. /\ selected \in DOMAIN checkpoints
        /\ Upheld(checkpoints[selected]) <=>
               \A index \in DOMAIN checkpoints : Upheld(checkpoints[index])
        /\ \A index \in DOMAIN checkpoints :
               RewrittenFirst(checkpoints, index) <=>
                   index = selected /\ ~Upheld(checkpoints[index])
    BY <2>3, <2>4, SelectedIsFirst
  <2>7. checkpoints[selected].ends
    BY <2>4 DEF Diagnosable
  <2> HIDE DEF cutoff, selected
  <2>8. checkpoints[selected] \in Checkpoint
    BY <2>3, <2>6
  <2> QED
    BY <2>5, <2>6, <2>7, <2>8 DEF checkpoints
<1>8. DOMAIN report.cutoffs = Range(ExecutableCase)
  BY <1>4 DEF Cutoffs
<1>9. /\ \A pair \in DiagnosticPair :
             /\ DiagnosisAccepted(found.repeats[pair].same)
             /\ DiagnosisAccepted(found.repeats[pair].decimal)
      /\ \A case \in Range(ExecutableCase) :
             /\ CutoffDiagnosisAccepted(found.cutoffs[case])
             /\ found.cutoffs[case].layer = "IDENTITY_OR_SOURCE_BINDING" <=>
                    Upheld(SelectedOf(case))
  BY <1>7, <1>8, RootCausesMean, DiagnosisIsAccepted, CutoffDiagnosisIsAccepted
<1>10. /\ "SAME_CONTEXT_NONDETERMINISM" \in found.subjects <=>
             shaky # None /\ shaky[2] \in {"A", "B"}
       /\ "CORE_DECIMAL_CONTEXT_DEPENDENCE" \in found.subjects <=>
             \/ shaky # None /\ shaky[2] \in {"A", "ALTERED"}
             \/ \E pair \in DiagnosticPair :
                    RunLeft(NatureOf(pair)["ALTERED"]) # RunLeft(NatureOf(pair)["NORMAL"])
  BY <1>3, <1>5, RootCausesMean, SameMeans, DecimalMeans
<1>11. \A case \in Range(ExecutableCase) :
           LET checkpoint == SelectedOf(case)
           IN  /\ CutoffDiagnosis(checkpoint).metric = checkpoint.metric
               /\ Touched(case) <=> ~(checkpoint.frames /\ checkpoint.ledger)
               /\ Misjudged(case) <=> ~(checkpoint.frames /\ checkpoint.ledger)
  BY <1>7 DEF CutoffDiagnosis, ComparisonAudit, Touched, Misjudged
<1>12. /\ "METRIC_FIXED_CUTOFF_SEMANTICS" \in found.subjects <=>
              \E case \in Range(ExecutableCase) : ~SelectedOf(case).metric
       /\ "FRAME_OR_LEDGER_FUTURE_REWRITE" \in found.subjects <=>
              \E case \in Range(ExecutableCase) :
                  ~(SelectedOf(case).frames /\ SelectedOf(case).ledger)
       /\ "PREFIX_HARNESS_ERROR" \in found.subjects <=>
              \E case \in Range(ExecutableCase) :
                  ~(SelectedOf(case).frames /\ SelectedOf(case).ledger)
  BY <1>8, <1>11, RootCausesMean
<1> HIDE DEF found, Named
<1>13. /\ (\E case \in Range(ExecutableCase) : ~SelectedOf(case).metric) <=>
              \E case \in Range(ExecutableCase) :
                  \E index \in DOMAIN Named(case) :
                      RewrittenFirst(Named(case), index) /\ ~Named(case)[index].metric
       /\ (\E case \in Range(ExecutableCase) :
               ~(SelectedOf(case).frames /\ SelectedOf(case).ledger)) <=>
              \E case \in Range(ExecutableCase) :
                  \E index \in DOMAIN Named(case) :
                      /\ RewrittenFirst(Named(case), index)
                      /\ ~(Named(case)[index].frames /\ Named(case)[index].ledger)
  <2>1. \A checkpoint : ~checkpoint.metric \/ ~(checkpoint.frames /\ checkpoint.ledger)
            => ~Upheld(checkpoint)
    BY DEF Upheld
  <2> QED
    BY <1>7, <2>1
<1>14. \A case \in Range(ExecutableCase) :
           found.cutoffs[case].layer = "IDENTITY_OR_SOURCE_BINDING" <=>
               \A index \in DOMAIN Named(case) : Upheld(Named(case)[index])
  BY <1>7, <1>9
<1> QED
  BY <1>5, <1>6, <1>9, <1>10, <1>12, <1>13, <1>14
  DEF CauseFound, RunLeft, NatureOf, Named, RewrittenFirst

-----------------------------------------------------------------------------
(* A failure is held against nobody but the one it belongs to, in V2's own *)
(* report and in the analysis of V1's, for every plan, whatever the        *)
(* executions answer and whichever of them drift                           *)
(* (degeneration.py:487, gate_evaluator.py:343, rca/report.py:75).         *)
THEOREM BlameStays == Spec => []BlameStaysWithSubject
<1> DEFINE Inv == RunInv /\ Unraised /\ AnalysisInv
<1>1. Init => Inv
  BY InitRun, AnalysisStarts DEF Init, Unraised
<1>2. Inv /\ [Next]_vars => Inv'
  BY RunKeeps, UnraisedKeeps, AnalysisKeeps
<1>3. Inv => BlameStaysWithSubject
  <2> SUFFICES ASSUME Inv PROVE BlameStaysWithSubject
    OBVIOUS
  <2>1. report # None => phase \notin Unjudged
    BY DEF AnalysisInv, Unraised, Unjudged
  <2> QED
    BY <2>1, BlameIsOwn, CauseIsFound DEF BlameStaysWithSubject
<1> QED
  BY <1>1, <1>2, <1>3, PTL DEF Spec
=============================================================================
