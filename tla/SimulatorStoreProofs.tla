------------------------- MODULE SimulatorStoreProofs -------------------------
(***************************************************************************)
(* Proofs about the simulator's evidence directory, for any number of      *)
(* gridctl processes, any models, patches, branches and studies, and any   *)
(* failing writes and killed processes: every file leads only to files     *)
(* that are there as well, and whatever an answer refers to is admitted    *)
(* and passes the audit of grid-agent.                                     *)
(*                                                                         *)
(* The argument. What must be said of a file is said relative to a set of  *)
(* files it may lead to, and stays true as that set grows. StoreInv says   *)
(* it of every file of the directory, relative to the directory; of every  *)
(* file still to be written, relative to the directory and what its own    *)
(* process writes before it, which is what the order of the writes is for; *)
(* and of every answer, given or to come, relative to the directory and    *)
(* what its process has still to write. A process that dies leaves a       *)
(* shorter list and no answer; one that writes moves the next file from    *)
(* its list to the directory. What an operation writes follows from what   *)
(* it has read: a context it could require, a result it could load.        *)
(***************************************************************************)
EXTENDS SimulatorStore, SequencesExt, TLAPS, WellFoundedInduction

-----------------------------------------------------------------------------
(* The inductive invariant *)

In(S, place, doc) == File(place, doc) \in S

\* What the files S say of one context of a line of revisions.
RevisionHolds(S, d) ==
    /\ d.kind = "context" /\ d.net.kind = "network"
    /\ In(S, "contexts", d) /\ In(S, "models", d.net)
    /\ d.origin = "registered" => d.model \in Model /\ d.net = RegisteredNet(d.model)
    /\ d.origin # "registered" =>
          /\ d.lineage.kind = "lineage" /\ In(S, "revisions", d.lineage)
          /\ d.lineage.net = d.net /\ d.lineage.model = d.model
          /\ d.lineage.origin = d.origin /\ d.lineage.parent = d.parent
          /\ d.origin = "derived" =>
                d.parent.kind = "context" /\ d.lineage.parentNet = d.parent.net
ContextHolds(S, c) == \A d \in {c} \cup c.ancestors : RevisionHolds(S, d)

EvidenceIn(S, e) == In(S, "analysis", e) \/ In(S, "network-facts", e)
ResultIn(S, r)   == r.kind = "result" /\ \E place \in ResultPlaces : In(S, place, r)

\* Every file leads only to files of S, and is what its place promises.  The
\* scenarios of a study are results without scenarios of their own.
ResultHolds(S, r) ==
    /\ r.kind = "result" /\ ContextHolds(S, r.context) /\ r.net = r.context.net
    /\ \A e \in r.evidence : EvidenceIn(S, e)
    /\ \A s \in r.scenarios : ResultIn(S, s) /\ MatchingContext(s, r)
    /\ r.source # None =>
          In(S, "results/result", r.source) /\ r.source.type = "analysis.operation"
EvidenceHolds(S, e) ==
    /\ ContextHolds(S, e.context) /\ e.net = e.context.net
    /\ e.result # None => ResultIn(S, e.result) /\ MatchingContext(e.result, e)
FileHolds(S, f) ==
    /\ f = File(f.at, f.doc)
    /\ f.at = "contexts" => ContextHolds(S, f.doc)
    /\ f.at \in ResultPlaces => ResultHolds(S, f.doc)
    /\ f.at \in {"analysis", "network-facts"} => EvidenceHolds(S, f.doc)
    /\ f.at = "analysis" => AllowedEvidence(f.doc)
    /\ f.at = "network-facts" => AllowedFact(f.doc)

FilesInv == \A f \in files : FileHolds(files, f)

\* What is still to be written holds once what comes before it is written.
IsSeq(s) == s \in Seq(ToSet(s))
Contents(batches) == UNION {ToSet(batches[i]) : i \in DOMAIN batches}
Upto(batches, i, j) ==
    (UNION {ToSet(batches[k]) : k \in 1..(i - 1)}) \cup {batches[i][l] : l \in 1..j}
WritesHold(S, batches) ==
    /\ IsSeq(batches)
    /\ \A i \in DOMAIN batches :
          /\ IsSeq(batches[i]) /\ batches[i] # <<>>
          /\ \A j \in DOMAIN batches[i] :
                FileHolds(S \cup Upto(batches, i, j), batches[i][j])
TodoInv == /\ todo = [p \in Process |-> todo[p]]
           /\ \A p \in Process : WritesHold(files, todo[p])

\* What an answer refers to is in S, and evidence links its result.
AnswerHolds(S, a) ==
    /\ a.context # None => ContextHolds(S, a.context)
    /\ a.result # None => ResultIn(S, a.result)
    /\ \A e \in a.evidence : EvidenceIn(S, e)
    /\ a.code = "ok" /\ a.result # None /\ a.evidence # {} =>
          (\E e \in a.evidence : e.result = a.result) \/ a.result.evidence \cap a.evidence # {}
    /\ a.code # "ok" => \A e \in a.evidence : e.result = None
PendingInv ==
    /\ pending = [p \in Process |-> pending[p]]
    /\ \A p \in Process :
          \/ pending[p] = None /\ todo[p] = <<>>
          \/ /\ AnswerHolds(files \cup Contents(todo[p]), pending[p].answer)
             /\ AnswerHolds(files, pending[p].oserror)
AnswersInv == \A a \in answers : AnswerHolds(files, a)

StoreInv == FilesInv /\ TodoInv /\ PendingInv /\ AnswersInv

-----------------------------------------------------------------------------
(* What is said of the files stays true as files are added *)

LEMMA RevisionGrows ==
    ASSUME NEW S, NEW T, S \subseteq T, NEW c, ContextHolds(S, c)
    PROVE  ContextHolds(T, c)
<1> SUFFICES ASSUME NEW d \in {c} \cup c.ancestors
             PROVE  RevisionHolds(T, d)
  BY DEF ContextHolds
<1>1. RevisionHolds(S, d)
  BY DEF ContextHolds
<1>2. \A place, doc : In(S, place, doc) => In(T, place, doc)
  BY DEF In
<1> QED
  BY <1>1, <1>2 DEF RevisionHolds

LEMMA ReferenceGrows ==
    ASSUME NEW S, NEW T, S \subseteq T
    PROVE  /\ \A e : EvidenceIn(S, e) => EvidenceIn(T, e)
           /\ \A r : ResultIn(S, r) => ResultIn(T, r)
  BY DEF EvidenceIn, ResultIn, In

LEMMA FileGrows ==
    ASSUME NEW S, NEW T, S \subseteq T, NEW f, FileHolds(S, f)
    PROVE  FileHolds(T, f)
<1>1. \A place, doc : In(S, place, doc) => In(T, place, doc)
  BY DEF In
<1>2. ASSUME f.at = "contexts" PROVE ContextHolds(T, f.doc)
  BY <1>2, RevisionGrows DEF FileHolds
<1>3. ASSUME f.at \in ResultPlaces PROVE ResultHolds(T, f.doc)
  <2>1. ResultHolds(S, f.doc)
    BY <1>3 DEF FileHolds
  <2>2. ContextHolds(T, f.doc.context)
    BY <2>1, RevisionGrows DEF ResultHolds
  <2> QED
    BY <1>1, <2>1, <2>2, ReferenceGrows DEF ResultHolds
<1>4. ASSUME f.at \in {"analysis", "network-facts"} PROVE EvidenceHolds(T, f.doc)
  <2>1. EvidenceHolds(S, f.doc)
    BY <1>4 DEF FileHolds
  <2>2. ContextHolds(T, f.doc.context)
    BY <2>1, RevisionGrows DEF EvidenceHolds
  <2> QED
    BY <2>1, <2>2, ReferenceGrows DEF EvidenceHolds
<1> QED
  BY <1>2, <1>3, <1>4 DEF FileHolds

LEMMA AnswerGrows ==
    ASSUME NEW S, NEW T, S \subseteq T, NEW a, AnswerHolds(S, a)
    PROVE  AnswerHolds(T, a)
<1>1. a.context # None => ContextHolds(T, a.context)
  BY RevisionGrows DEF AnswerHolds
<1> QED
  BY <1>1, ReferenceGrows DEF AnswerHolds

LEMMA WritesGrow ==
    ASSUME NEW S, NEW T, S \subseteq T, NEW batches, WritesHold(S, batches)
    PROVE  WritesHold(T, batches)
<1> SUFFICES ASSUME NEW i \in DOMAIN batches, NEW j \in DOMAIN batches[i]
             PROVE  FileHolds(T \cup Upto(batches, i, j), batches[i][j])
  BY DEF WritesHold
<1>1. FileHolds(S \cup Upto(batches, i, j), batches[i][j])
  BY DEF WritesHold
<1> QED
  BY <1>1, FileGrows

\* A context can be required exactly when the files say so.
LEMMA RequireHolds ==
    ASSUME FilesInv, NEW c, Require(c)
    PROVE  ContextHolds(files, c)
<1>1. [at |-> "contexts", doc |-> c] \in files
  BY DEF Require, At
<1>2. FileHolds(files, [at |-> "contexts", doc |-> c])
  BY <1>1 DEF FilesInv
<1> QED
  BY <1>2 DEF FileHolds

LEMMA HoldsRequire ==
    ASSUME NEW c, ContextHolds(files, c)
    PROVE  Require(c) /\ VerifyContext(c)
<1>1. ASSUME NEW d \in {c} \cup c.ancestors
      PROVE  At("contexts", d) /\ MetadataHolds(d) /\ At("models", d.net)
  <2>1. RevisionHolds(files, d)
    BY DEF ContextHolds
  <2>2. At("contexts", d) /\ At("models", d.net)
    BY <2>1 DEF RevisionHolds, In, File, At
  <2>3. d.origin # "registered" => LineageHolds(d)
    BY <2>1 DEF RevisionHolds, In, File, At, LineageHolds, None
  <2>4. MetadataHolds(d)
    BY <2>1, <2>3 DEF RevisionHolds, MetadataHolds
  <2> QED
    BY <2>2, <2>4
<1>2. c.net.kind = "network"
  BY DEF ContextHolds, RevisionHolds
<1>3. c.net # None
  BY <1>2 DEF None
<1> QED
  BY <1>1, <1>3 DEF Require, VerifyContext, VerifyRevision

-----------------------------------------------------------------------------
(* Batches *)

LEMMA SeqIsSeq ==
    ASSUME NEW X, NEW s \in Seq(X)
    PROVE  IsSeq(s) /\ ToSet(s) \subseteq X
<1>1. s \in [1..Len(s) -> ToSet(s)] /\ Len(s) \in Nat
  BY DEF ToSet
<1>2. ToSet(s) \subseteq X
  BY DEF ToSet
<1> QED
  BY <1>1, <1>2 DEF IsSeq

LEMMA UptoIs ==
    ASSUME NEW w, NEW i, NEW j, NEW x
    PROVE  x \in Upto(w, i, j) <=> \/ \E k \in 1..(i - 1) : x \in ToSet(w[k])
                                   \/ \E l \in 1..j : x = w[i][l]
<1> DEFINE before == {ToSet(w[k]) : k \in 1..(i - 1)}
<1>1. x \in UNION before <=> \E k \in 1..(i - 1) : x \in ToSet(w[k])
  <2>1. ASSUME NEW k \in 1..(i - 1) PROVE ToSet(w[k]) \in before
    OBVIOUS
  <2>2. ASSUME NEW b \in before PROVE \E k \in 1..(i - 1) : b = ToSet(w[k])
    OBVIOUS
  <2> HIDE DEF before
  <2> QED
    BY <2>1, <2>2
<1> DEFINE last == {w[i][l] : l \in 1..j}
<1>2. x \in last <=> \E l \in 1..j : x = w[i][l]
  OBVIOUS
<1>3. Upto(w, i, j) = (UNION before) \cup last
  BY DEF Upto
<1>4. x \in Upto(w, i, j) <=> x \in UNION before \/ x \in last
  <2> HIDE DEF before, last
  <2> QED
    BY <1>3
<1> QED
  BY <1>1, <1>2, <1>4

\* Nothing has to be written.
LEMMA NoBatch ==
    ASSUME NEW S
    PROVE  WritesHold(S, <<>>) /\ Contents(<<>>) = {}
<1>1. IsSeq(<<>>)
  BY SeqIsSeq, <<>> \in Seq({})
<1> QED
  BY <1>1 DEF WritesHold, Contents

\* A batch, after others whose files are in S, and alone.
LEMMA OneBatch ==
    ASSUME NEW S, NEW X, NEW b \in Seq(X), b # <<>>,
           \A j \in DOMAIN b : FileHolds(S \cup {b[l] : l \in 1..j}, b[j])
    PROVE  WritesHold(S, <<b>>) /\ Contents(<<b>>) = ToSet(b)
<1>1. IsSeq(b) /\ IsSeq(<<b>>)
  BY SeqIsSeq, <<b>> \in Seq({b})
<1>2. DOMAIN <<b>> = {1} /\ <<b>>[1] = b
  OBVIOUS
<1>3. \A j : Upto(<<b>>, 1, j) = {b[l] : l \in 1..j}
  <2>1. 1..(1 - 1) = {}
    OBVIOUS
  <2>2. \A j : {<<b>>[1][l] : l \in 1..j} = {b[l] : l \in 1..j}
    BY <1>2
  <2>3. ASSUME NEW j, NEW x
        PROVE  x \in Upto(<<b>>, 1, j) <=> x \in {b[l] : l \in 1..j}
    <3>1. x \in Upto(<<b>>, 1, j) <=> \E l \in 1..j : x = <<b>>[1][l]
      BY <2>1, UptoIs
    <3> QED
      BY <1>2, <3>1
  <2> QED
    BY <2>3
<1> QED
  BY <1>1, <1>2, <1>3 DEF WritesHold, Contents

LEMMA OneFile ==
    ASSUME NEW S, NEW f, FileHolds(S \cup {f}, f)
    PROVE  WritesHold(S, <<<<f>>>>) /\ Contents(<<<<f>>>>) = {f}
<1> DEFINE b == <<f>>
<1>1. b \in Seq({f}) /\ b # <<>> /\ DOMAIN b = {1} /\ b[1] = f
  OBVIOUS
<1>2. {b[l] : l \in 1..1} = {f} /\ ToSet(b) = {f}
  BY <1>1 DEF ToSet
<1> HIDE DEF b
<1>3. WritesHold(S, <<b>>) /\ Contents(<<b>>) = {f}
  BY <1>1, <1>2, OneBatch
<1> QED
  BY <1>3 DEF b

LEMMA PairOf ==
    ASSUME NEW f, NEW g
    PROVE  LET b == <<f, g>> IN
           /\ b \in Seq({f, g}) /\ b # <<>> /\ DOMAIN b = {1, 2} /\ b[1] = f /\ b[2] = g
           /\ {b[l] : l \in 1..1} = {f} /\ {b[l] : l \in 1..2} = {f, g} /\ ToSet(b) = {f, g}
<1> DEFINE b == <<f, g>>
<1>1. b \in Seq({f, g}) /\ b # <<>> /\ DOMAIN b = {1, 2} /\ b[1] = f /\ b[2] = g
  OBVIOUS
<1> HIDE DEF b
<1>2. {b[l] : l \in 1..1} = {f} /\ {b[l] : l \in 1..2} = {f, g} /\ ToSet(b) = {f, g}
  BY <1>1 DEF ToSet
<1> QED
  BY <1>1, <1>2 DEF b

LEMMA TripleOf ==
    ASSUME NEW f, NEW g, NEW h
    PROVE  LET b == <<f, g, h>> IN
           /\ b \in Seq({f, g, h}) /\ b # <<>> /\ DOMAIN b = {1, 2, 3}
           /\ b[1] = f /\ b[2] = g /\ b[3] = h
           /\ {b[l] : l \in 1..1} = {f} /\ {b[l] : l \in 1..2} = {f, g}
           /\ {b[l] : l \in 1..3} = {f, g, h} /\ ToSet(b) = {f, g, h}
<1> DEFINE b == <<f, g, h>>
<1>1. /\ b \in Seq({f, g, h}) /\ b # <<>> /\ DOMAIN b = {1, 2, 3}
      /\ b[1] = f /\ b[2] = g /\ b[3] = h
  OBVIOUS
<1> HIDE DEF b
<1>2. /\ {b[l] : l \in 1..1} = {f} /\ {b[l] : l \in 1..2} = {f, g}
      /\ {b[l] : l \in 1..3} = {f, g, h} /\ ToSet(b) = {f, g, h}
  BY <1>1 DEF ToSet
<1> QED
  BY <1>1, <1>2 DEF b

\* Two and three files: what each leads to is in S or comes before it.
LEMMA TwoFiles ==
    ASSUME NEW S, NEW f, NEW g, FileHolds(S \cup {f}, f), FileHolds(S \cup {f, g}, g)
    PROVE  /\ WritesHold(S, <<<<f, g>>>>) /\ Contents(<<<<f, g>>>>) = {f, g}
<1> DEFINE b == <<f, g>>
<1>1. /\ b \in Seq({f, g}) /\ b # <<>> /\ DOMAIN b = {1, 2} /\ b[1] = f /\ b[2] = g
      /\ {b[l] : l \in 1..1} = {f} /\ {b[l] : l \in 1..2} = {f, g} /\ ToSet(b) = {f, g}
  BY PairOf
<1> HIDE DEF b
<1>2. \A j \in DOMAIN b : FileHolds(S \cup {b[l] : l \in 1..j}, b[j])
  BY <1>1
<1>3. WritesHold(S, <<b>>) /\ Contents(<<b>>) = {f, g}
  BY <1>1, <1>2, OneBatch
<1> QED
  BY <1>3 DEF b

LEMMA ThreeFiles ==
    ASSUME NEW S, NEW f, NEW g, NEW h, FileHolds(S \cup {f}, f), FileHolds(S \cup {f, g}, g),
           FileHolds(S \cup {f, g, h}, h)
    PROVE  WritesHold(S, <<<<f, g, h>>>>) /\ Contents(<<<<f, g, h>>>>) = {f, g, h}
<1> DEFINE b == <<f, g, h>>
<1>1. /\ b \in Seq({f, g, h}) /\ b # <<>> /\ DOMAIN b = {1, 2, 3}
      /\ b[1] = f /\ b[2] = g /\ b[3] = h
      /\ {b[l] : l \in 1..1} = {f} /\ {b[l] : l \in 1..2} = {f, g}
      /\ {b[l] : l \in 1..3} = {f, g, h} /\ ToSet(b) = {f, g, h}
  BY TripleOf
<1> HIDE DEF b
<1>2. \A j \in DOMAIN b : FileHolds(S \cup {b[l] : l \in 1..j}, b[j])
  BY <1>1
<1>3. WritesHold(S, <<b>>) /\ Contents(<<b>>) = {f, g, h}
  BY <1>1, <1>2, OneBatch
<1> QED
  BY <1>3 DEF b

\* What is left after the first file has been written, and the file itself.
LEMMA CommitWrites ==
    ASSUME NEW S, NEW w, WritesHold(S, w), w # <<>>
    PROVE  LET f == Head(Head(w))
               v == Remaining(w)
           IN  /\ FileHolds(S \cup {f}, f)
               /\ WritesHold(S \cup {f}, v)
               /\ Contents(w) = {f} \cup Contents(v)
<1> DEFINE b == Head(w)
           f == Head(b)
<1>1. /\ IsSeq(w) /\ w \in Seq(ToSet(w)) /\ Len(w) \in Nat \ {0} /\ DOMAIN w = 1..Len(w)
      /\ 1 \in DOMAIN w /\ b = w[1]
  BY DEF WritesHold, IsSeq
<1> HIDE DEF b
<1>2. IsSeq(b) /\ b # <<>> /\ b \in Seq(ToSet(b))
  BY <1>1 DEF WritesHold, IsSeq
<1>3. /\ Len(b) \in Nat \ {0} /\ DOMAIN b = 1..Len(b)
      /\ 1 \in DOMAIN b /\ f = b[1]
  BY <1>2
<1> HIDE DEF f
<1>4. Upto(w, 1, 1) = {f}
  <2>1. 1..(1 - 1) = {} /\ 1..1 = {1}
    OBVIOUS
  <2>2. \A x : x \in Upto(w, 1, 1) <=> x = w[1][1]
    BY <2>1, UptoIs
  <2> QED
    BY <1>1, <1>3, <2>2
<1>5. FileHolds(S \cup {f}, f)
  BY <1>1, <1>3, <1>4 DEF WritesHold
<1>6. CASE Len(b) = 1
  <2> DEFINE v == Tail(w)
  <2>1. /\ v \in Seq(ToSet(w)) /\ Len(v) = Len(w) - 1 /\ DOMAIN v = 1..(Len(w) - 1)
        /\ \A i \in DOMAIN v : v[i] = w[i + 1] /\ i + 1 \in DOMAIN w
    BY <1>1
  <2>2. IsSeq(v)
    BY <2>1, SeqIsSeq
  <2> HIDE DEF v
  <2>3. ToSet(b) = {f}
    BY <1>3, <1>6 DEF ToSet
  <2>4. ASSUME NEW i \in DOMAIN v, NEW j \in DOMAIN v[i]
        PROVE  FileHolds(S \cup {f} \cup Upto(v, i, j), v[i][j])
    <3>1. FileHolds(S \cup Upto(w, i + 1, j), v[i][j])
      BY <2>1, <2>4 DEF WritesHold
    <3>2. ASSUME NEW x \in Upto(w, i + 1, j)
          PROVE  x \in {f} \cup Upto(v, i, j)
      <4>1. CASE x \in {w[i + 1][l] : l \in 1..j}
        BY <2>1, <4>1, UptoIs
      <4>2. CASE x \notin {w[i + 1][l] : l \in 1..j}
        <5>1. PICK k \in 1..i : x \in ToSet(w[k])
          BY <1>1, <2>1, <3>2, <4>2, UptoIs
        <5>2. CASE k = 1
          BY <1>1, <2>3, <5>1, <5>2
        <5>3. CASE k # 1
          <6>1. k - 1 \in 1..(i - 1) /\ k - 1 \in DOMAIN v /\ (k - 1) + 1 = k
            BY <1>1, <2>1, <5>1, <5>3
          <6>2. v[k - 1] = w[k]
            BY <2>1, <6>1
          <6> QED
            BY <5>1, <6>1, <6>2, UptoIs
        <5> QED
          BY <5>2, <5>3
      <4> QED
        BY <4>1, <4>2
    <3>3. S \cup Upto(w, i + 1, j) \subseteq S \cup {f} \cup Upto(v, i, j)
      BY <3>2
    <3> QED
      BY <3>1, <3>3, FileGrows
  <2>5. WritesHold(S \cup {f}, v)
    BY <2>1, <2>2, <2>4 DEF WritesHold
  <2>6. Contents(w) = {f} \cup Contents(v)
    <3>1. ASSUME NEW k \in DOMAIN w, k # 1
          PROVE  k - 1 \in DOMAIN v /\ v[k - 1] = w[k]
      <4>1. k - 1 \in DOMAIN v /\ (k - 1) + 1 = k
        BY <1>1, <2>1, <3>1
      <4> QED
        BY <2>1, <4>1
    <3> QED
      BY <1>1, <2>1, <2>3, <3>1 DEF Contents
  <2> QED
    BY <1>5, <1>6, <2>5, <2>6 DEF f, b, v, Remaining
<1>7. CASE Len(b) # 1
  <2> DEFINE t == Tail(b)
             v == [w EXCEPT ![1] = t]
  <2>1. /\ t \in Seq(ToSet(b)) /\ Len(t) = Len(b) - 1 /\ DOMAIN t = 1..(Len(b) - 1)
        /\ \A l \in DOMAIN t : t[l] = b[l + 1] /\ l + 1 \in DOMAIN b
    BY <1>2, <1>3
  <2> HIDE DEF t
  <2>2. IsSeq(t) /\ t # <<>>
    <3>1. IsSeq(t) /\ Len(t) # 0
      BY <1>3, <1>7, <2>1, SeqIsSeq
    <3> QED
      BY <3>1
  <2>3. /\ DOMAIN v = DOMAIN w /\ v[1] = t /\ \A i \in DOMAIN w : i # 1 => v[i] = w[i]
    BY <1>1
  <2>4. v \in Seq(ToSet(w) \cup {t})
    BY <1>1
  <2>5. IsSeq(v)
    BY <2>4, SeqIsSeq
  <2> HIDE DEF v
  <2>6. ToSet(b) = {f} \cup ToSet(t)
    <3>1. ASSUME NEW l \in DOMAIN b, l # 1
          PROVE  l - 1 \in DOMAIN t /\ t[l - 1] = b[l]
      <4>1. l - 1 \in DOMAIN t /\ (l - 1) + 1 = l
        BY <1>3, <2>1, <3>1
      <4> QED
        BY <2>1, <4>1
    <3> QED
      BY <1>3, <2>1, <3>1 DEF ToSet
  <2>7. ASSUME NEW i \in DOMAIN v, NEW j \in DOMAIN v[i]
        PROVE  FileHolds(S \cup {f} \cup Upto(v, i, j), v[i][j])
    <3>1. CASE i = 1
      <4>1. j \in DOMAIN t /\ v[i][j] = w[1][j + 1] /\ j + 1 \in DOMAIN w[1]
        BY <1>1, <2>1, <2>3, <2>7, <3>1
      <4>2. FileHolds(S \cup Upto(w, 1, j + 1), v[i][j])
        BY <1>1, <4>1 DEF WritesHold
      <4>3. ASSUME NEW x \in Upto(w, 1, j + 1)
            PROVE  x \in {f} \cup Upto(v, 1, j)
        <5>1. PICK l \in 1..(j + 1) : x = b[l]
          BY <1>1, <4>3, UptoIs, 1..(1 - 1) = {}
        <5>2. j \in 1..(Len(b) - 1) /\ j \in Nat
          BY <1>3, <2>1, <4>1
        <5>3. CASE l = 1
          BY <1>3, <5>1, <5>3
        <5>4. CASE l # 1
          <6>1. l - 1 \in 1..j /\ l - 1 \in DOMAIN t /\ (l - 1) + 1 = l
            BY <1>3, <2>1, <5>1, <5>2, <5>4
          <6>2. t[l - 1] = b[l]
            BY <2>1, <6>1
          <6> QED
            BY <2>3, <5>1, <6>1, <6>2, UptoIs
        <5> QED
          BY <5>3, <5>4
      <4>4. S \cup Upto(w, 1, j + 1) \subseteq S \cup {f} \cup Upto(v, i, j)
        BY <3>1, <4>3
      <4> QED
        BY <4>2, <4>4, FileGrows
    <3>2. CASE i # 1
      <4>1. i \in DOMAIN w /\ v[i] = w[i] /\ j \in DOMAIN w[i]
        BY <2>3, <2>7, <3>2
      <4>2. FileHolds(S \cup Upto(w, i, j), v[i][j])
        BY <4>1 DEF WritesHold
      <4>3. ASSUME NEW x \in Upto(w, i, j)
            PROVE  x \in {f} \cup Upto(v, i, j)
        <5>1. CASE x \in {w[i][l] : l \in 1..j}
          BY <4>1, <5>1, UptoIs
        <5>2. CASE x \notin {w[i][l] : l \in 1..j}
          <6>1. PICK k \in 1..(i - 1) : x \in ToSet(w[k])
            BY <4>3, <5>2, UptoIs
          <6>2. k \in DOMAIN w
            BY <1>1, <4>1, <6>1
          <6>3. x \in {f} \cup ToSet(v[k])
            BY <1>1, <2>3, <2>6, <6>1, <6>2
          <6> QED
            BY <6>1, <6>3, UptoIs
        <5> QED
          BY <5>1, <5>2
      <4>4. S \cup Upto(w, i, j) \subseteq S \cup {f} \cup Upto(v, i, j)
        BY <4>3
      <4> QED
        BY <4>2, <4>4, FileGrows
    <3> QED
      BY <3>1, <3>2
  <2>8. WritesHold(S \cup {f}, v)
    BY <2>2, <2>3, <2>5, <2>7 DEF WritesHold
  <2>9. Contents(w) = {f} \cup Contents(v)
    BY <1>1, <2>3, <2>6 DEF Contents
  <2> QED
    BY <1>1, <1>5, <1>7, <2>8, <2>9 DEF f, b, v, t, Remaining
<1> QED
  BY <1>6, <1>7

-----------------------------------------------------------------------------
(* What the operations write *)

\* The files of S say nothing of a place but what In says.
LEMMA RevisionIs ==
    ASSUME NEW S, NEW net, net.kind = "network", NEW model, NEW origin, NEW parent, NEW op,
           origin \in {"created", "derived"},
           parent = None \/ (parent.kind = "context" /\ ContextHolds(S, parent)),
           origin = "derived" => parent.kind = "context"
    PROVE  LET c == ContextDoc(model, net, origin, parent,
                               Lineage(net, model, origin, parent, op))
           IN  /\ c.kind = "context" /\ c.net = net /\ c.lineage.kind = "lineage"
               /\ In(S, "contexts", c) /\ In(S, "models", c.net) /\ In(S, "revisions", c.lineage)
                  => ContextHolds(S, c)
<1> DEFINE l == Lineage(net, model, origin, parent, op)
           c == ContextDoc(model, net, origin, parent, l)
<1>1. /\ l.kind = "lineage" /\ l.net = net /\ l.model = model /\ l.origin = origin
      /\ l.parent = parent /\ l.parentNet = IF parent = None THEN None ELSE parent.net
  BY DEF Lineage
<1> HIDE DEF l
<1>2. /\ c.kind = "context" /\ c.model = model /\ c.net = net /\ c.origin = origin
      /\ c.parent = parent /\ c.lineage = l
      /\ c.ancestors = IF parent = None THEN {} ELSE parent.ancestors \cup {parent}
  BY DEF ContextDoc
<1> HIDE DEF c
<1>3. parent.kind = "context" => parent # None
  BY DEF None
<1>4. ASSUME In(S, "contexts", c), In(S, "models", c.net), In(S, "revisions", c.lineage)
      PROVE  ContextHolds(S, c)
  <2>1. RevisionHolds(S, c)
    BY <1>1, <1>2, <1>3, <1>4 DEF RevisionHolds
  <2>2. ASSUME NEW d \in c.ancestors PROVE RevisionHolds(S, d)
    <3>1. parent # None /\ d \in {parent} \cup parent.ancestors
      BY <1>2, <2>2
    <3>2. ContextHolds(S, parent)
      BY <3>1
    <3> QED
      BY <3>1, <3>2 DEF ContextHolds
  <2> QED
    BY <2>1, <2>2 DEF ContextHolds
<1> QED
  BY <1>1, <1>2, <1>4 DEF c, l

\* A revision is published once its network and its lineage are there.
LEMMA PersistHolds ==
    ASSUME NEW S, NEW net, net.kind = "network", NEW model, NEW origin, NEW parent, NEW op,
           origin \in {"created", "derived"},
           parent = None \/ (parent.kind = "context" /\ ContextHolds(S, parent)),
           origin = "derived" => parent.kind = "context"
    PROVE  LET c == ContextDoc(model, net, origin, parent,
                               Lineage(net, model, origin, parent, op))
           IN  /\ WritesHold(S, <<PersistRevision(c)>>)
               /\ ContextHolds(S \cup Contents(<<PersistRevision(c)>>), c)
<1> DEFINE c == ContextDoc(model, net, origin, parent, Lineage(net, model, origin, parent, op))
           f == File("models", c.net)
           g == File("revisions", c.lineage)
           h == File("contexts", c)
           T == S \cup {f, g, h}
<1>1. parent = None \/ (parent.kind = "context" /\ ContextHolds(T, parent))
  BY RevisionGrows
<1>2. In(T, "contexts", c) /\ In(T, "models", c.net) /\ In(T, "revisions", c.lineage)
  BY DEF In
<1>3. ContextHolds(T, c)
  BY <1>1, <1>2, RevisionIs
<1> HIDE DEF c
<1>4. FileHolds(S \cup {f}, f) /\ FileHolds(S \cup {f, g}, g)
  BY DEF FileHolds, File, ResultPlaces
<1>5. FileHolds(T, h)
  BY <1>3 DEF FileHolds, File, ResultPlaces
<1> HIDE DEF f, g, h
<1>6. WritesHold(S, <<<<f, g, h>>>>) /\ Contents(<<<<f, g, h>>>>) = {f, g, h}
  BY <1>4, <1>5, ThreeFiles
<1> QED
  BY <1>3, <1>6 DEF c, f, g, h, PersistRevision

LEMMA RegisteredHolds ==
    ASSUME NEW S, NEW m \in Model
    PROVE  LET c == RegisteredContext(m)
               w == <<<<File("models", c.net), File("contexts", c)>>>>
           IN  WritesHold(S, w) /\ ContextHolds(S \cup Contents(w), c)
<1> DEFINE c == RegisteredContext(m)
           f == File("models", c.net)
           g == File("contexts", c)
           T == S \cup {f, g}
<1>1. /\ c.kind = "context" /\ c.model = m /\ c.net = RegisteredNet(m)
      /\ c.net.kind = "network" /\ c.origin = "registered" /\ c.ancestors = {}
  BY DEF RegisteredContext, ContextDoc, RegisteredNet, Network
<1> HIDE DEF c
<1>2. In(T, "contexts", c) /\ In(T, "models", c.net)
  BY DEF In
<1>3. ContextHolds(T, c)
  BY <1>1, <1>2 DEF ContextHolds, RevisionHolds
<1>4. FileHolds(S \cup {f}, f) /\ FileHolds(T, g)
  BY <1>3 DEF FileHolds, File, ResultPlaces
<1>5. WritesHold(S, <<<<f, g>>>>) /\ Contents(<<<<f, g>>>>) = {f, g}
  BY <1>4, TwoFiles
<1> QED
  BY <1>3, <1>5 DEF c

LEMMA ResultFields ==
    ASSUME NEW type, NEW operation, NEW tables, NEW c, NEW source, NEW subject, NEW evidence,
           NEW scenarios
    PROVE  LET r == ResultDoc(type, operation, tables, c, source, subject, evidence, scenarios)
           IN  /\ r.kind = "result" /\ r.type = type /\ r.context = c /\ r.net = c.net
               /\ r.source = source /\ r.evidence = evidence /\ r.scenarios = scenarios
               /\ r # None
<1> DEFINE r == ResultDoc(type, operation, tables, c, source, subject, evidence, scenarios)
<1>1. /\ r.kind = "result" /\ r.type = type /\ r.context = c /\ r.net = c.net
      /\ r.source = source /\ r.evidence = evidence /\ r.scenarios = scenarios
  BY DEF ResultDoc
<1>2. r # None
  BY <1>1 DEF None
<1> QED
  BY <1>1, <1>2

LEMMA EvidenceFields ==
    ASSUME NEW type, NEW capability, NEW c, NEW r, NEW subject
    PROVE  LET e == EvidenceDoc(type, capability, c, r, subject)
           IN  /\ e.type = type /\ e.capability = capability /\ e.context = c
               /\ e.net = c.net /\ e.result = r
  BY DEF EvidenceDoc

\* A result and the evidence of it: each leads to what is written before.
LEMMA ResultWritten ==
    ASSUME NEW S, NEW r, NEW e, r.type = "analysis.operation", r # None,
           ResultHolds(S, r), r.evidence = {},
           AllowedEvidence(e), e.result = r, e.context = r.context, e.net = r.net
    PROVE  /\ WritesHold(S, <<PersistResult(r, e)>>)
           /\ LET T == S \cup Contents(<<PersistResult(r, e)>>)
              IN  ContextHolds(T, r.context) /\ ResultIn(T, r) /\ EvidenceIn(T, e)
<1> DEFINE f == File("results/result", r)
           g == File("analysis", e)
           T == S \cup {f, g}
<1>1. FileHolds(S, f) 
  BY DEF FileHolds, File, ResultPlaces
<1>2. FileHolds(S \cup {f}, f) /\ FileHolds(T, f)
  BY <1>1, FileGrows
<1>3. ResultHolds(T, r)
  BY <1>2 DEF FileHolds, File, ResultPlaces
<1>4. In(T, "results/result", r) /\ In(T, "analysis", e)
  BY DEF In
<1>5. ResultIn(T, r) /\ EvidenceIn(T, e) /\ ContextHolds(T, r.context)
  BY <1>3, <1>4 DEF ResultIn, EvidenceIn, ResultHolds, ResultPlaces
<1>6. MatchingContext(r, e)
  BY DEF MatchingContext
<1>7. EvidenceHolds(T, e)
  BY <1>3, <1>5, <1>6 DEF EvidenceHolds, ResultHolds
<1>8. FileHolds(T, g)
  BY <1>7 DEF FileHolds, File, ResultPlaces
<1>9. WritesHold(S, <<<<f, g>>>>) /\ Contents(<<<<f, g>>>>) = {f, g}
  BY <1>2, <1>8, TwoFiles
<1> QED
  BY <1>5, <1>9 DEF PersistResult

-----------------------------------------------------------------------------
(* What an operation does is to read, or to start to write *)

ReadStep ==
    \E a : /\ AnswerHolds(files, a) /\ Receive(a)
           /\ UNCHANGED <<files, todo, pending, requests, faults>>
ServeStep(p) ==
    \E batches, a, oserror :
       /\ WritesHold(files, batches)
       /\ AnswerHolds(files \cup Contents(batches), a) /\ AnswerHolds(files, oserror)
       /\ Serve(p, batches, a, oserror)

\* A failure without evidence refers to nothing, like the answer to a list.
LEMMA FailureHolds ==
    ASSUME NEW S, NEW code
    PROVE  AnswerHolds(S, Failure(code, {}))
  BY DEF AnswerHolds, Failure

LEMMA OkHolds ==
    ASSUME NEW S, NEW c, NEW r, c = None \/ ContextHolds(S, c), r = None \/ ResultIn(S, r)
    PROVE  AnswerHolds(S, Ok(c, r, {}))
  BY DEF AnswerHolds, Ok

LEMMA RefuseReads ==
    ASSUME NEW p, NEW code, Refuse(p, code)
    PROVE  ReadStep
  BY FailureHolds DEF Refuse, Read, ReadStep

LEMMA ReadReads ==
    ASSUME NEW p, NEW c, NEW r, c = None \/ ContextHolds(files, c),
           r = None \/ ResultIn(files, r), Read(p, Ok(c, r, {}))
    PROVE  ReadStep
  BY OkHolds DEF Read, ReadStep

LEMMA ServeServes ==
    ASSUME NEW p, NEW batches, NEW a, NEW oserror, Serve(p, batches, a, oserror),
           WritesHold(files, batches), AnswerHolds(files \cup Contents(batches), a),
           AnswerHolds(files, oserror)
    PROVE  ServeStep(p)
  BY DEF ServeStep

\* Operations that read a context and write nothing.
LEMMA ReadersRead ==
    ASSUME StoreInv, NEW p \in Process,
           \/ ContextGet(p) \/ ElementGet(p) \/ DatasetDescribe(p) \/ Components(p)
           \/ Catalog(p) \/ CreatorDescribe(p) \/ EvidenceGet(p) \/ ResultCompare(p)
    PROVE  ReadStep
<1>1. ASSUME NEW c, Require(c), Read(p, Ok(c, None, {})) PROVE ReadStep
  BY <1>1, RequireHolds, ReadReads DEF StoreInv
<1>2. ASSUME Read(p, Ok(None, None, {})) PROVE ReadStep
  BY <1>2, ReadReads
<1>3. CASE ContextGet(p)
  BY <1>1, <1>3, RefuseReads DEF ContextGet, WithContext
<1>4. CASE ElementGet(p)
  BY <1>1, <1>4, RefuseReads DEF ElementGet, WithContext
<1>5. CASE DatasetDescribe(p)
  BY <1>1, <1>5, RefuseReads DEF DatasetDescribe, WithContext
<1>6. CASE Components(p)
  BY <1>1, <1>6, RefuseReads DEF Components, WithContext
<1>7. CASE Catalog(p) \/ CreatorDescribe(p)
  BY <1>2, <1>7, RefuseReads DEF Catalog, CreatorDescribe
<1>8. CASE EvidenceGet(p)
  BY <1>2, <1>8, RefuseReads DEF EvidenceGet
<1>9. CASE ResultCompare(p)
  BY <1>2, <1>9, RefuseReads DEF ResultCompare, StoreFailure
<1> QED
  BY <1>3, <1>4, <1>5, <1>6, <1>7, <1>8, <1>9

\* A stored result leads to the context it is about.
LEMMA LoadedHolds ==
    ASSUME StoreInv, NEW r, At("results/result", r)
    PROVE  ResultHolds(files, r) /\ ContextHolds(files, r.context) /\ ResultIn(files, r)
<1>1. File("results/result", r) \in files
  BY DEF At, File
<1>2. FileHolds(files, File("results/result", r))
  BY <1>1 DEF StoreInv, FilesInv
<1>3. ResultHolds(files, r)
  BY <1>2 DEF FileHolds, File, ResultPlaces
<1> QED
  BY <1>1, <1>3 DEF ResultHolds, ResultIn, In, ResultPlaces

LEMMA ResultReadersRead ==
    ASSUME StoreInv, NEW p \in Process, ResultQuery(p) \/ BranchesRank(p)
    PROVE  ReadStep
<1>1. ASSUME NEW r, At("results/result", r), Read(p, Ok(r.context, r, {})) PROVE ReadStep
  BY <1>1, LoadedHolds, ReadReads
<1>2. CASE ResultQuery(p)
  BY <1>1, <1>2, RefuseReads DEF ResultQuery, Loads, StoreFailure
<1>3. CASE BranchesRank(p)
  BY <1>1, <1>3, RefuseReads DEF BranchesRank
<1> QED
  BY <1>2, <1>3

\* Operations that open or derive a context.
LEMMA OpeningServes ==
    ASSUME StoreInv, NEW p \in Process,
           ContextOpen(p) \/ ModelCreate(p) \/ RevisionDerive(p) \/ EquivalentDerive(p)
    PROVE  ReadStep \/ ServeStep(p)
<1>1. ASSUME NEW w, NEW c, NEW code, WritesHold(files, w), ContextHolds(files \cup Contents(w), c),
             Serve(p, w, Ok(c, None, {}), PersistFailed(code))
      PROVE  ServeStep(p)
  BY <1>1, OkHolds, FailureHolds, ServeServes DEF PersistFailed
<1>2. ASSUME NEW c, Require(c), NEW net, net.kind = "network", NEW op, NEW code,
             Serve(p, <<PersistRevision(Derived(c, net, op))>>,
                   Ok(Derived(c, net, op), None, {}), PersistFailed(code))
      PROVE  ServeStep(p)
  <2>1. ContextHolds(files, c)
    BY <1>2, RequireHolds DEF StoreInv
  <2>2. c.kind = "context"
    BY <2>1 DEF ContextHolds, RevisionHolds
  <2>3. /\ WritesHold(files, <<PersistRevision(Derived(c, net, op))>>)
        /\ ContextHolds(files \cup Contents(<<PersistRevision(Derived(c, net, op))>>),
                        Derived(c, net, op))
    BY <1>2, <2>1, <2>2, PersistHolds DEF Derived
  <2> QED
    BY <1>1, <1>2, <2>3
<1>3. CASE ContextOpen(p)
  BY <1>1, <1>3, RegisteredHolds, RefuseReads DEF ContextOpen
<1>4. CASE ModelCreate(p)
  <2>1. ASSUME NEW name \in Created
        PROVE  /\ WritesHold(files, <<PersistRevision(CreatedContext(name))>>)
               /\ ContextHolds(files \cup Contents(<<PersistRevision(CreatedContext(name))>>),
                               CreatedContext(name))
    <3> DEFINE net == Network(name, <<>>)
               c == ContextDoc(name, net, "created", None,
                               Lineage(net, name, "created", None, "create"))
    <3>1. net.kind = "network"
      BY DEF Network
    <3>2. CreatedContext(name) = c
      BY DEF CreatedContext
    <3> HIDE DEF net
    <3>3. /\ WritesHold(files, <<PersistRevision(c)>>)
          /\ ContextHolds(files \cup Contents(<<PersistRevision(c)>>), c)
      BY <3>1, PersistHolds
    <3> QED
      BY <3>2, <3>3
  <2> QED
    BY <1>1, <1>4, <2>1, RefuseReads DEF ModelCreate
<1>5. CASE RevisionDerive(p)
  <2>1. \A net, patch : Patched(net, patch).kind = "network"
    BY DEF Patched, Network
  <2> QED
    BY <1>2, <1>5, <2>1, RefuseReads DEF RevisionDerive, WithContext
<1>6. CASE EquivalentDerive(p)
  <2>1. \A net : Equivalent(net).kind = "network"
    BY DEF Equivalent, Network
  <2> QED
    BY <1>2, <1>6, <2>1, RefuseReads DEF EquivalentDerive, WithContext
<1> QED
  BY <1>3, <1>4, <1>5, <1>6

\* Operations that record a fact of the network, or keep a large view.
LEMMA FactServes ==
    ASSUME StoreInv, NEW p \in Process,
           BranchEndpoints(p) \/ ConstraintsDescribe(p) \/ DatasetQuery(p)
    PROVE  ReadStep \/ ServeStep(p)
<1>1. ASSUME NEW c, Require(c), NEW b, NEW capability, capability \in AllowedFacts, NEW code,
             NEW e, e = EvidenceDoc("network_fact", capability, c, None, b),
             Serve(p, <<<<File("network-facts", e)>>>>, Ok(c, None, {e}), PersistFailed(code))
      PROVE  ServeStep(p)
  <2> DEFINE f == File("network-facts", e)
  <2>1. ContextHolds(files, c) /\ ContextHolds(files \cup {f}, c)
    BY <1>1, RequireHolds, RevisionGrows DEF StoreInv
  <2>2. /\ e.type = "network_fact" /\ e.capability = capability /\ e.context = c
        /\ e.net = c.net /\ e.result = None
    BY <1>1, EvidenceFields
  <2>3. FileHolds(files \cup {f}, f)
    BY <1>1, <2>1, <2>2 DEF FileHolds, File, ResultPlaces, EvidenceHolds, AllowedFact
  <2>4. EvidenceIn(files \cup {f}, e)
    BY DEF EvidenceIn, In
  <2> HIDE DEF f
  <2>5. WritesHold(files, <<<<f>>>>) /\ Contents(<<<<f>>>>) = {f}
    BY <2>3, OneFile
  <2>6. AnswerHolds(files \cup {f}, Ok(c, None, {e}))
    BY <2>1, <2>4 DEF AnswerHolds, Ok
  <2> QED
    BY <1>1, <2>5, <2>6, FailureHolds, ServeServes DEF f, PersistFailed
<1>2. CASE BranchEndpoints(p)
  BY <1>1, <1>2, RefuseReads DEF BranchEndpoints, WithContext, NetworkFact, AllowedFacts
<1>3. CASE ConstraintsDescribe(p)
  BY <1>1, <1>3, RefuseReads DEF ConstraintsDescribe, WithContext, ConstraintFact, AllowedFacts
<1>4. CASE DatasetQuery(p)
  <2>1. ASSUME NEW c, Require(c), NEW w, WritesHold(files, w), Serve(p, w, Ok(c, None, {}), Died)
        PROVE  ServeStep(p)
    <3>1. ContextHolds(files, c)
      BY <2>1, RequireHolds DEF StoreInv
    <3>2. ContextHolds(files \cup Contents(w), c)
      BY <3>1, RevisionGrows
    <3> QED
      BY <2>1, <3>2, OkHolds, FailureHolds, ServeServes DEF Died
  <2>2. ASSUME NEW c
        PROVE  WritesHold(files, <<<<File("artifacts", [kind |-> "dataset", context |-> c])>>>>)
    <3> DEFINE f == File("artifacts", [kind |-> "dataset", context |-> c])
    <3>1. FileHolds(files \cup {f}, f)
      BY DEF FileHolds, File, ResultPlaces
    <3> HIDE DEF f
    <3>2. WritesHold(files, <<<<f>>>>)
      BY <3>1, OneFile
    <3> QED
      BY <3>2 DEF f
  <2> QED
    BY <1>4, <2>1, <2>2, NoBatch, RefuseReads DEF DatasetQuery, WithContext
<1> QED
  BY <1>2, <1>3, <1>4

\* A result of an analysis and its evidence.
LEMMA PersistedServes ==
    ASSUME StoreInv, NEW p \in Process, NEW c, ContextHolds(files, c), NEW r, NEW e,
           NEW operation, NEW tables, NEW source, NEW capability,
           r = ResultDoc("analysis.operation", operation, tables, c, source, None, {}, {}),
           source # None => At("results/result", source) /\ source.type = "analysis.operation",
           e = EvidenceDoc("analysis_result", capability, c, r, None),
           <<"analysis_result", capability>> \in AllowedAnalysis,
           Persisted(p, c, r, e)
    PROVE  ServeStep(p)
<1> DEFINE w == <<PersistResult(r, e)>>
           T == files \cup Contents(w)
<1>1. /\ r.kind = "result" /\ r.type = "analysis.operation" /\ r.context = c /\ r.net = c.net
      /\ r.source = source /\ r.evidence = {} /\ r.scenarios = {} /\ r # None
  BY ResultFields
<1>2. /\ e.type = "analysis_result" /\ e.capability = capability /\ e.context = c
      /\ e.net = c.net /\ e.result = r
  BY EvidenceFields
<1>3. ResultHolds(files, r)
  BY <1>1 DEF ResultHolds, In, File, At
<1>4. AllowedEvidence(e)
  BY <1>1, <1>2 DEF AllowedEvidence
<1>5. /\ WritesHold(files, w)
      /\ ContextHolds(T, c) /\ ResultIn(T, r) /\ EvidenceIn(T, e)
  BY <1>1, <1>2, <1>3, <1>4, ResultWritten
<1>6. AnswerHolds(T, Ok(c, r, {e}))
  BY <1>2, <1>5 DEF AnswerHolds, Ok
<1> HIDE DEF w
<1>7. Serve(p, w, Ok(c, r, {e}), PersistFailed("persist_failed"))
  BY DEF Persisted, w
<1> QED
  BY <1>5, <1>6, <1>7, FailureHolds, ServeServes DEF PersistFailed

\* The evidence that a power flow did not converge.
LEMMA DiagnosticHolds ==
    ASSUME NEW S, NEW c, ContextHolds(S, c), NEW subject, NEW capability,
           <<"powerflow_non_convergence", capability>> \in AllowedAnalysis
    PROVE  LET e == Diagnostic(capability, c, subject)
           IN  /\ e.result = None /\ e.context = c /\ e.net = c.net
               /\ FileHolds(S, File("analysis", e)) /\ FileHolds(S, File("artifacts", e))
<1> DEFINE e == Diagnostic(capability, c, subject)
<1>1. /\ e.type = "powerflow_non_convergence" /\ e.capability = capability /\ e.context = c
      /\ e.net = c.net /\ e.result = None
  BY EvidenceFields DEF Diagnostic
<1> HIDE DEF e
<1>2. AllowedEvidence(e) /\ EvidenceHolds(S, e)
  BY <1>1 DEF AllowedEvidence, EvidenceHolds
<1>3. FileHolds(S, File("analysis", e)) /\ FileHolds(S, File("artifacts", e))
  BY <1>2 DEF FileHolds, File, ResultPlaces
<1> QED
  BY <1>1, <1>3 DEF e

LEMMA NotConvergedServes ==
    ASSUME StoreInv, NEW p \in Process, NEW c, ContextHolds(files, c), NEW capability, NEW code,
           <<"powerflow_non_convergence", capability>> \in AllowedAnalysis, code # "ok",
           NotConverged(p, capability, code, c)
    PROVE  ServeStep(p)
<1> DEFINE e == Diagnostic(capability, c, None)
           f == File("analysis", e)
           g == File("artifacts", e)
<1>1. e.result = None /\ FileHolds(files, f) /\ FileHolds(files, g)
  BY DiagnosticHolds
<1>2. EvidenceIn(files \cup {f, g}, e)
  BY DEF EvidenceIn, In
<1>3. Serve(p, <<<<f, g>>>>, Failure(code, {e}), Failure("gridctl_transport_error", {}))
  BY DEF NotConverged, PersistDiagnostics, Died
<1> HIDE DEF e, f, g
<1>4. FileHolds(files \cup {f}, f) /\ FileHolds(files \cup {f, g}, g)
  BY <1>1, FileGrows
<1>5. WritesHold(files, <<<<f, g>>>>) /\ Contents(<<<<f, g>>>>) = {f, g}
  BY <1>4, TwoFiles
<1>6. AnswerHolds(files \cup {f, g}, Failure(code, {e}))
  BY <1>1, <1>2 DEF AnswerHolds, Failure
<1> QED
  BY <1>3, <1>5, <1>6, FailureHolds, ServeServes

\* Operations that persist a result of a network, or one of another result.
LEMMA AnalysesServe ==
    ASSUME StoreInv, NEW p \in Process,
           AnalysisRun(p) \/ Powerflow(p) \/ ViolationsEvaluate(p) \/ RiskRank(p)
    PROVE  ReadStep \/ ServeStep(p)
<1>1. \A c : Require(c) => ContextHolds(files, c)
  BY RequireHolds DEF StoreInv
<1>2. ASSUME NEW c, NEW operation, Require(c),
             LET r == OperationResult(operation, c)
             IN  Persisted(p, c, r, EvidenceDoc("analysis_result", "analysis.run", c, r, None))
      PROVE  ServeStep(p)
  BY <1>1, <1>2, PersistedServes DEF OperationResult, AllowedAnalysis
<1>3. ASSUME NEW c, Require(c),
             LET r == PowerflowResult(c)
             IN  Persisted(p, c, r, EvidenceDoc("analysis_result", "analysis.powerflow.ac.run",
                                                c, r, None))
      PROVE  ServeStep(p)
  BY <1>1, <1>3, PersistedServes DEF PowerflowResult, AllowedAnalysis
<1>4. ASSUME NEW c, NEW code, NEW capability, Require(c), code # "ok",
             capability \in {"analysis.run", "analysis.powerflow.ac.run"},
             NotConverged(p, capability, code, c)
      PROVE  ServeStep(p)
  <2>1. <<"powerflow_non_convergence", capability>> \in AllowedAnalysis
    BY <1>4 DEF AllowedAnalysis
  <2> QED
    BY <1>1, <1>4, <2>1, NotConvergedServes
<1>5. ASSUME NEW source, Loads(source), NEW r, NEW operation, NEW table, NEW capability,
             r = DerivedResult(operation, table, source), Require(source.context),
             capability \in {"analysis.result.violations.evaluate", "analysis.result.risk.rank"},
             Persisted(p, source.context, r,
                       EvidenceDoc("analysis_result", capability, source.context, r, None))
      PROVE  ServeStep(p)
  <2>1. <<"analysis_result", capability>> \in AllowedAnalysis
    BY <1>5 DEF AllowedAnalysis
  <2> QED
    BY <1>1, <1>5, <2>1, PersistedServes DEF DerivedResult, Loads
<1>6. CASE AnalysisRun(p)
  BY <1>2, <1>4, <1>6, RefuseReads DEF AnalysisRun, WithContext
<1>7. CASE Powerflow(p)
  BY <1>3, <1>4, <1>7, RefuseReads DEF Powerflow, WithContext
<1>8. CASE ViolationsEvaluate(p)
  BY <1>5, <1>8, RefuseReads DEF ViolationsEvaluate, WithContext, Violations
<1>9. CASE RiskRank(p)
  BY <1>5, <1>9, RefuseReads DEF RiskRank, Risk
<1> QED
  BY <1>6, <1>7, <1>8, <1>9

-----------------------------------------------------------------------------
(* The contingency study *)

\* Every set of numbers that is not empty has a first one.
LEMMA FirstExists ==
    ASSUME NEW S \in SUBSET Nat, S # {}
    PROVE  \E m \in S : \A n \in S : m <= n
<1>1. PICK m \in S : \A n \in S : ~(<<n, m>> \in OpToRel(<, Nat))
  BY WFMin, NatLessThanWellFounded
<1>2. \A n \in S : n \in Nat /\ ~(n < m)
  BY <1>1 DEF OpToRel
<1> QED
  BY <1>2

\* A batch whose files lead to S, to one another in order, and nowhere else.
Standing(S, b) ==
    /\ IsSeq(b) /\ b # <<>>
    /\ \A j \in DOMAIN b : FileHolds(S \cup {b[l] : l \in 1..j}, b[j])

LEMMA ManyBatches ==
    ASSUME NEW S, NEW w, IsSeq(w), \A i \in DOMAIN w : Standing(S, w[i])
    PROVE  WritesHold(S, w)
<1> SUFFICES ASSUME NEW i \in DOMAIN w, NEW j \in DOMAIN w[i]
             PROVE  FileHolds(S \cup Upto(w, i, j), w[i][j])
  BY DEF WritesHold, Standing
<1>1. FileHolds(S \cup {w[i][l] : l \in 1..j}, w[i][j])
  BY DEF Standing
<1>2. S \cup {w[i][l] : l \in 1..j} \subseteq S \cup Upto(w, i, j)
  BY DEF Upto
<1> QED
  BY <1>1, <1>2, FileGrows

\* One more batch of one file, which may lead to all the others.
LEMMA OneMoreFile ==
    ASSUME NEW S, NEW w, WritesHold(S, w), NEW f, FileHolds(S \cup Contents(w) \cup {f}, f)
    PROVE  /\ WritesHold(S, Append(w, <<f>>))
           /\ Contents(Append(w, <<f>>)) = Contents(w) \cup {f}
<1> DEFINE b == <<f>>
           v == Append(w, b)
           n == Len(w)
<1>1. b \in Seq({f}) /\ b # <<>> /\ DOMAIN b = {1} /\ b[1] = f
  OBVIOUS
<1>2. IsSeq(b) /\ ToSet(b) = {f}
  <2> HIDE DEF b
  <2>1. IsSeq(b)
    BY <1>1, SeqIsSeq
  <2> QED
    BY <1>1, <2>1 DEF ToSet
<1> HIDE DEF b
<1>3. w \in Seq(ToSet(w)) /\ n \in Nat /\ DOMAIN w = 1..n
  BY DEF WritesHold, IsSeq
<1>4. /\ v \in Seq(ToSet(w) \cup {b}) /\ DOMAIN v = 1..(n + 1) /\ v[n + 1] = b
      /\ \A i \in 1..n : v[i] = w[i]
  BY <1>3
<1>5. IsSeq(v)
  BY <1>4, SeqIsSeq
<1> HIDE DEF v, n
<1>6. ASSUME NEW i \in DOMAIN v, NEW j \in DOMAIN v[i]
      PROVE  FileHolds(S \cup Upto(v, i, j), v[i][j])
  <2>1. CASE i \in 1..n
    <3>1. \A k \in 1..(i - 1) : k \in 1..n
      BY <1>3, <2>1
    <3>2. ASSUME NEW x PROVE x \in Upto(v, i, j) <=> x \in Upto(w, i, j)
      <4>1. v[i] = w[i] /\ \A k \in 1..(i - 1) : v[k] = w[k]
        BY <1>4, <2>1, <3>1
      <4>2. x \in Upto(v, i, j) <=> \/ \E k \in 1..(i - 1) : x \in ToSet(v[k])
                                    \/ \E l \in 1..j : x = v[i][l]
        BY UptoIs
      <4>3. x \in Upto(w, i, j) <=> \/ \E k \in 1..(i - 1) : x \in ToSet(w[k])
                                    \/ \E l \in 1..j : x = w[i][l]
        BY UptoIs
      <4> QED
        BY <4>1, <4>2, <4>3
    <3>3. Upto(v, i, j) = Upto(w, i, j)
      BY <3>2
    <3>4. v[i] = w[i] /\ i \in DOMAIN w
      BY <1>3, <1>4, <2>1
    <3> QED
      BY <1>6, <3>3, <3>4 DEF WritesHold
  <2>2. CASE i \notin 1..n
    <3>1. i = n + 1 /\ j = 1 /\ v[i][j] = f
      BY <1>1, <1>3, <1>4, <1>6, <2>2
    <3>2. ASSUME NEW x \in Contents(w) \cup {f}
          PROVE  x \in Upto(v, i, j)
      <4>1. CASE x = f
        BY <1>1, <1>4, <3>1, <4>1, UptoIs, 1 \in 1..1
      <4>2. CASE x # f
        <5>1. PICK k \in DOMAIN w : x \in ToSet(w[k])
          BY <3>2, <4>2 DEF Contents
        <5>2. k \in 1..(i - 1) /\ v[k] = w[k]
          BY <1>3, <1>4, <3>1, <5>1
        <5> QED
          BY <5>1, <5>2, UptoIs
      <4> QED
        BY <4>1, <4>2
    <3>3. S \cup Contents(w) \cup {f} \subseteq S \cup Upto(v, i, j)
      BY <3>2
    <3> QED
      BY <3>1, <3>3, FileGrows
  <2> QED
    BY <2>1, <2>2
<1>7. WritesHold(S, v)
  <2>1. \A i \in DOMAIN v : IsSeq(v[i]) /\ v[i] # <<>>
    <3>1. \A i \in 1..n : IsSeq(w[i]) /\ w[i] # <<>>
      BY <1>3 DEF WritesHold
    <3>2. \A i \in DOMAIN v : i = n + 1 \/ i \in 1..n
      BY <1>3, <1>4
    <3> QED
      BY <1>1, <1>2, <1>4, <3>1, <3>2
  <2> QED
    BY <1>5, <1>6, <2>1 DEF WritesHold
<1>8. Contents(v) = Contents(w) \cup {f}
  <2>1. \A i \in DOMAIN v : i = n + 1 \/ (i \in DOMAIN w /\ v[i] = w[i])
    BY <1>3, <1>4
  <2>2. \A i \in DOMAIN w : i \in DOMAIN v /\ v[i] = w[i]
    BY <1>3, <1>4
  <2>3. n + 1 \in DOMAIN v
    BY <1>3, <1>4
  <2> QED
    BY <1>2, <1>4, <2>1, <2>2, <2>3 DEF Contents
<1> QED
  BY <1>7, <1>8 DEF b, v

LEMMA PairStands ==
    ASSUME NEW S, NEW f, NEW g, FileHolds(S \cup {f}, f), FileHolds(S \cup {f, g}, g)
    PROVE  Standing(S, <<f, g>>) /\ ToSet(<<f, g>>) = {f, g}
<1> DEFINE b == <<f, g>>
<1>1. /\ b \in Seq({f, g}) /\ b # <<>> /\ DOMAIN b = {1, 2} /\ b[1] = f /\ b[2] = g
      /\ {b[l] : l \in 1..1} = {f} /\ {b[l] : l \in 1..2} = {f, g} /\ ToSet(b) = {f, g}
  BY PairOf
<1> HIDE DEF b
<1>2. Standing(S, b) /\ ToSet(b) = {f, g}
  BY <1>1, SeqIsSeq DEF Standing
<1> QED
  BY <1>2 DEF b

\* One more file at the end of a batch.
LEMMA LongerBatch ==
    ASSUME NEW S, NEW b, Standing(S, b), NEW h, FileHolds(S, h)
    PROVE  Standing(S, Append(b, h)) /\ ToSet(Append(b, h)) = ToSet(b) \cup {h}
<1> DEFINE v == Append(b, h)
           n == Len(b)
<1>1. b \in Seq(ToSet(b)) /\ n \in Nat /\ DOMAIN b = 1..n
  BY DEF Standing, IsSeq
<1>2. /\ v \in Seq(ToSet(b) \cup {h}) /\ DOMAIN v = 1..(n + 1) /\ v # <<>> /\ v[n + 1] = h
      /\ \A i \in 1..n : v[i] = b[i]
  BY <1>1
<1>3. IsSeq(v)
  BY <1>2, SeqIsSeq
<1> HIDE DEF v, n
<1>4. ASSUME NEW j \in DOMAIN v
      PROVE  FileHolds(S \cup {v[l] : l \in 1..j}, v[j])
  <2>1. CASE j \in 1..n
    <3>1. FileHolds(S \cup {b[l] : l \in 1..j}, b[j])
      BY <1>1, <2>1 DEF Standing
    <3>2. \A l \in 1..j : l \in 1..n
      BY <1>1, <2>1
    <3>3. {b[l] : l \in 1..j} = {v[l] : l \in 1..j}
      BY <1>2, <3>2
    <3> QED
      BY <1>2, <2>1, <3>1, <3>3
  <2>2. CASE j \notin 1..n
    <3>1. v[j] = h
      BY <1>1, <1>2, <2>2
    <3> QED
      BY <3>1, FileGrows
  <2> QED
    BY <2>1, <2>2
<1>5. ToSet(v) = ToSet(b) \cup {h}
  <2>1. \A i \in DOMAIN v : i = n + 1 \/ i \in 1..n
    BY <1>1, <1>2
  <2>2. n + 1 \in DOMAIN v /\ \A i \in 1..n : i \in DOMAIN v
    BY <1>1, <1>2
  <2> QED
    BY <1>1, <1>2, <2>1, <2>2 DEF ToSet
<1> QED
  BY <1>2, <1>3, <1>4, <1>5 DEF Standing, v

\* A scenario leads to its context and leaves its result and evidence.
LEMMA ScenarioHolds ==
    ASSUME NEW S, NEW c, ContextHolds(S, c), NEW i, NEW b
    PROVE  LET x == ScenarioOf(c, i, b)
           IN  /\ x.result.kind = "result" /\ x.result.context = c /\ x.result.net = c.net
               /\ Standing(S, x.files)
               /\ \E place \in ResultPlaces : File(place, x.result) \in ToSet(x.files)
               /\ File("analysis", x.evidence) \in ToSet(x.files)
<1> DEFINE subject == [index |-> i, outage |-> b]
           lost    == Diagnostic("analysis.contingency.n_minus_one.run", c, b)
           stored  == ResultDoc("analysis.operation", "contingency.n_minus_one.scenario",
                                {"res_bus", "res_line"}, c, None, subject, {}, {})
           bare    == ResultDoc("scenario", "contingency.n_minus_one.scenario", {}, c, None,
                                subject, {}, {})
           found   == EvidenceDoc("contingency_scenario", "analysis.contingency.n_minus_one.run",
                                  c, stored, b)
           x == ScenarioOf(c, i, b)
<1>1. \A r \in {stored, bare} :
         /\ r.kind = "result" /\ r.context = c /\ r.net = c.net
         /\ r.source = None /\ r.evidence = {} /\ r.scenarios = {} /\ r # None
  BY ResultFields
<1>2. \A r \in {stored, bare} : ResultHolds(S, r)
  BY <1>1 DEF ResultHolds
<1>3. CASE <<c.net.base, b>> \notin Diverges
  <2> DEFINE f == File("results/result", stored)
             g == File("analysis", found)
  <2>1. x.result = stored /\ x.evidence = found /\ x.files = <<f, g>>
    BY <1>3 DEF ScenarioOf, PersistResult
  <2>2. /\ found.type = "contingency_scenario" /\ found.context = c /\ found.net = c.net
        /\ found.capability = "analysis.contingency.n_minus_one.run" /\ found.result = stored
    BY EvidenceFields
  <2> HIDE DEF stored, found, x
  <2>3. FileHolds(S, f)
    BY <1>2 DEF FileHolds, File, ResultPlaces
  <2>4. FileHolds(S \cup {f}, f)
    BY <2>3, FileGrows
  <2>5. AllowedEvidence(found)
    BY <1>1, <2>2 DEF AllowedEvidence, AllowedAnalysis
  <2>6. ContextHolds(S \cup {f, g}, c)
    BY RevisionGrows
  <2>7. ResultIn(S \cup {f, g}, stored)
    BY <1>1 DEF ResultIn, In, ResultPlaces
  <2>8. EvidenceHolds(S \cup {f, g}, found)
    BY <1>1, <2>2, <2>6, <2>7 DEF EvidenceHolds, MatchingContext
  <2>9. FileHolds(S \cup {f, g}, g)
    BY <2>5, <2>8 DEF FileHolds, File, ResultPlaces
  <2>10. f \in {f, g} /\ g \in {f, g} /\ "results/result" \in ResultPlaces
    BY DEF ResultPlaces
  <2>11. \E place \in ResultPlaces : File(place, stored) \in {f, g}
    BY <2>10
  <2>12. g = File("analysis", found)
    OBVIOUS
  <2> HIDE DEF f, g
  <2>13. Standing(S, <<f, g>>) /\ ToSet(<<f, g>>) = {f, g}
    BY <2>4, <2>9, PairStands
  <2> QED
    BY <1>1, <2>1, <2>10, <2>11, <2>12, <2>13 DEF x
<1>4. CASE <<c.net.base, b>> \in Diverges
  <2> DEFINE f == File("analysis", lost)
             g == File("artifacts", lost)
             h == File("results/contingency-scenario", bare)
  <2>1. x.result = bare /\ x.evidence = lost /\ x.files = Append(<<f, g>>, h)
    BY <1>4 DEF ScenarioOf, PersistDiagnostics
  <2>2. FileHolds(S, f) /\ FileHolds(S, g)
    <3>1. <<"powerflow_non_convergence", "analysis.contingency.n_minus_one.run">>
             \in AllowedAnalysis
      BY DEF AllowedAnalysis
    <3> QED
      BY <3>1, DiagnosticHolds
  <2> HIDE DEF bare, lost, x
  <2>3. FileHolds(S, h)
    BY <1>2 DEF FileHolds, File, ResultPlaces
  <2>4. /\ f \in {f, g, h} /\ f = File("analysis", lost)
        /\ \E place \in ResultPlaces : File(place, bare) \in {f, g, h}
    BY DEF ResultPlaces
  <2> HIDE DEF f, g, h
  <2>5. FileHolds(S \cup {f}, f) /\ FileHolds(S \cup {f, g}, g)
    BY <2>2, FileGrows
  <2>6. Standing(S, <<f, g>>) /\ ToSet(<<f, g>>) = {f, g}
    BY <2>5, PairStands
  <2>7. Standing(S, Append(<<f, g>>, h)) /\ ToSet(Append(<<f, g>>, h)) = {f, g, h}
    <3>1. /\ Standing(S, Append(<<f, g>>, h))
          /\ ToSet(Append(<<f, g>>, h)) = ToSet(<<f, g>>) \cup {h}
      BY <2>3, <2>6, LongerBatch
    <3>2. {f, g} \cup {h} = {f, g, h}
      OBVIOUS
    <3> QED
      BY <2>6, <3>1, <3>2
  <2> QED
    BY <1>1, <2>1, <2>4, <2>7 DEF x
<1> QED
  BY <1>3, <1>4

\* A study writes its scenarios, and unless one breaks, what sums them up.
LEMMA ContingencyServes ==
    ASSUME StoreInv, NEW p \in Process, Contingency(p)
    PROVE  ReadStep \/ ServeStep(p)
<1>1. SUFFICES ASSUME NEW c, Require(c), NEW outages \in Studies, NMinusOne(p, c, outages)
               PROVE  ServeStep(p)
  BY RefuseReads DEF Contingency, WithContext
<1>2. ContextHolds(files, c)
  BY <1>1, RequireHolds DEF StoreInv
<1> DEFINE scenarios == [i \in DOMAIN outages |-> ScenarioOf(c, i, outages[i])]
           broken    == {i \in DOMAIN outages : <<c.net.base, outages[i]>> \in Breaks}
           evidence  == {scenarios[i].evidence : i \in DOMAIN outages}
           results   == {scenarios[i].result : i \in DOMAIN outages}
           subject   == [outages |-> outages]
           aggregate == ResultDoc("aggregate", "contingency.n_minus_one", {}, c, None, subject,
                                  evidence, results)
           written(n) == [i \in 1..n |-> scenarios[i].files]
           n == Len(outages)
<1>3. n \in Nat /\ DOMAIN outages = 1..n
  BY StudiesAreLists
<1>4. ASSUME NEW i \in 1..n
      PROVE  /\ scenarios[i].result.kind = "result" /\ scenarios[i].result.context = c
             /\ scenarios[i].result.net = c.net
             /\ Standing(files, scenarios[i].files)
             /\ \E place \in ResultPlaces :
                   File(place, scenarios[i].result) \in ToSet(scenarios[i].files)
             /\ File("analysis", scenarios[i].evidence) \in ToSet(scenarios[i].files)
  BY <1>2, <1>3, ScenarioHolds
<1>5. \/ /\ broken # {}
         /\ LET first == CHOOSE i \in broken : \A j \in broken : i <= j
            IN  Serve(p, written(first - 1), Failure("powerflow_failed", {}),
                      PersistFailed("persist_failed"))
      \/ Serve(p, Append(written(n), <<File("results/contingency", aggregate)>>),
               Ok(c, aggregate, evidence), PersistFailed("persist_failed"))
  BY <1>1 DEF NMinusOne
<1>6. broken \subseteq 1..n
  BY <1>3
<1>7. evidence = {scenarios[i].evidence : i \in 1..n} /\ results = {scenarios[i].result : i \in 1..n}
  BY <1>3
<1>8. /\ aggregate.kind = "result" /\ aggregate.context = c /\ aggregate.net = c.net
      /\ aggregate.source = None /\ aggregate.evidence = evidence
      /\ aggregate.scenarios = results
  BY ResultFields
<1> HIDE DEF scenarios, broken, evidence, results, aggregate, n
<1>9. ASSUME NEW k \in 0..n
      PROVE  WritesHold(files, written(k))
  <2> DEFINE w == written(k)
  <2>1. DOMAIN w = 1..k /\ \A i \in 1..k : w[i] = scenarios[i].files /\ i \in 1..n
    BY <1>3
  <2>2. w \in Seq({w[i] : i \in 1..k})
    BY <1>3
  <2>3. IsSeq(w)
    BY <2>2, SeqIsSeq
  <2>4. \A i \in DOMAIN w : Standing(files, w[i])
    BY <1>4, <2>1
  <2> HIDE DEF w
  <2>5. WritesHold(files, w)
    BY <2>3, <2>4, ManyBatches
  <2> QED
    BY <2>5 DEF w
<1>10. CASE /\ broken # {}
            /\ LET first == CHOOSE i \in broken : \A j \in broken : i <= j
               IN  Serve(p, written(first - 1), Failure("powerflow_failed", {}),
                         PersistFailed("persist_failed"))
  <2> DEFINE first == CHOOSE i \in broken : \A j \in broken : i <= j
  <2>1. broken \in SUBSET Nat
    BY <1>3, <1>6
  <2>2. \E i \in broken : \A j \in broken : i <= j
    BY <1>10, <2>1, FirstExists
  <2>3. first \in broken
    BY <2>2
  <2>4. Serve(p, written(first - 1), Failure("powerflow_failed", {}),
              PersistFailed("persist_failed"))
    BY <1>10
  <2> HIDE DEF first
  <2>5. first - 1 \in 0..n
    BY <1>3, <1>6, <2>3
  <2> DEFINE w == written(first - 1)
  <2>6. WritesHold(files, w)
    BY <1>9, <2>5
  <2>7. Serve(p, w, Failure("powerflow_failed", {}), Failure("persist_failed", {}))
    BY <2>4 DEF PersistFailed
  <2> HIDE DEF w
  <2> QED
    BY <2>6, <2>7, FailureHolds, ServeServes
<1>11. CASE Serve(p, Append(written(n), <<File("results/contingency", aggregate)>>),
                  Ok(c, aggregate, evidence), PersistFailed("persist_failed"))
  <2> DEFINE w == written(n)
             f == File("results/contingency", aggregate)
             T == files \cup Contents(w) \cup {f}
  <2>1. WritesHold(files, w)
    BY <1>3, <1>9
  <2>2. DOMAIN w = 1..n /\ \A i \in 1..n : w[i] = scenarios[i].files
    OBVIOUS
  <2> HIDE DEF w
  <2>3. \A i \in 1..n : ToSet(scenarios[i].files) \subseteq T
    BY <2>2 DEF Contents
  <2>4. ContextHolds(T, c)
    BY <1>2, RevisionGrows
  <2>5. \A e \in evidence : EvidenceIn(T, e)
    BY <1>4, <1>7, <2>3 DEF EvidenceIn, In
  <2>6. ASSUME NEW s \in results
        PROVE  ResultIn(T, s) /\ MatchingContext(s, aggregate)
    <3>1. PICK i \in 1..n : s = scenarios[i].result
      BY <1>7
    <3>2. s.kind = "result" /\ s.context = c /\ s.net = c.net
      BY <1>4, <3>1
    <3>3. \E place \in ResultPlaces : File(place, s) \in T
      BY <1>4, <2>3, <3>1
    <3> QED
      BY <1>8, <3>2, <3>3 DEF ResultIn, In, MatchingContext
  <2>7. ResultHolds(T, aggregate)
    BY <1>8, <2>4, <2>5, <2>6 DEF ResultHolds
  <2>8. FileHolds(T, f)
    BY <2>7 DEF FileHolds, File, ResultPlaces
  <2>9. ResultIn(T, aggregate)
    BY <1>8 DEF ResultIn, In, ResultPlaces
  <2>10. AnswerHolds(T, Ok(c, aggregate, evidence))
    BY <1>8, <2>4, <2>5, <2>9 DEF AnswerHolds, Ok
  <2>11. Serve(p, Append(w, <<f>>), Ok(c, aggregate, evidence), Failure("persist_failed", {}))
    BY <1>11 DEF w, PersistFailed
  <2> HIDE DEF f
  <2>12. WritesHold(files, Append(w, <<f>>)) /\ Contents(Append(w, <<f>>)) = Contents(w) \cup {f}
    BY <2>1, <2>8, OneMoreFile
  <2>13. AnswerHolds(files \cup Contents(Append(w, <<f>>)), Ok(c, aggregate, evidence))
    <3>1. files \cup Contents(Append(w, <<f>>)) = T
      BY <2>12
    <3> QED
      BY <2>10, <3>1
  <2> QED
    BY <2>11, <2>12, <2>13, FailureHolds, ServeServes
<1> QED
  BY <1>5, <1>10, <1>11

-----------------------------------------------------------------------------
(* The invariant is inductive *)

LEMMA StoreStart == StoreInit => StoreInv
<1> SUFFICES ASSUME StoreInit PROVE StoreInv
  OBVIOUS
<1>1. ASSUME NEW f \in Opened
      PROVE  \E m \in Model : \/ f = File("models", RegisteredNet(m))
                              \/ f = File("contexts", RegisteredContext(m))
  BY DEF Opened
<1>2. ASSUME NEW m \in Model PROVE ContextHolds(Opened, RegisteredContext(m))
  <2> DEFINE c == RegisteredContext(m)
  <2>1. /\ c.kind = "context" /\ c.model = m /\ c.net = RegisteredNet(m)
        /\ c.net.kind = "network" /\ c.origin = "registered" /\ c.ancestors = {}
    BY DEF RegisteredContext, ContextDoc, RegisteredNet, Network
  <2>2. In(Opened, "contexts", c) /\ In(Opened, "models", RegisteredNet(m))
    BY DEF In, Opened
  <2> HIDE DEF c
  <2>3. ContextHolds(Opened, c)
    BY <2>1, <2>2 DEF ContextHolds, RevisionHolds
  <2> QED
    BY <2>3 DEF c
<1>3. ASSUME NEW f \in Opened PROVE FileHolds(Opened, f)
  BY <1>1, <1>2 DEF FileHolds, File, ResultPlaces
<1>4. FilesInv
  BY <1>3 DEF FilesInv, StoreInit
<1>5. TodoInv
  BY NoBatch DEF TodoInv, StoreInit
<1>6. PendingInv /\ AnswersInv
  BY DEF PendingInv, AnswersInv, StoreInit
<1> QED
  BY <1>4, <1>5, <1>6 DEF StoreInv

LEMMA ReceiveKeeps ==
    ASSUME AnswersInv, NEW a, AnswerHolds(files, a), Receive(a)
    PROVE  \A b \in answers' : AnswerHolds(files, b)
  BY DEF Receive, AnswersInv

LEMMA ReadKeeps ==
    ASSUME StoreInv, ReadStep
    PROVE  StoreInv'
<1>1. AnswersInv'
  BY ReceiveKeeps DEF ReadStep, StoreInv, AnswersInv
<1> QED
  BY <1>1 DEF ReadStep, StoreInv, FilesInv, TodoInv, PendingInv

LEMMA ServeKeeps ==
    ASSUME StoreInv, NEW p \in Process, ServeStep(p)
    PROVE  StoreInv'
<1>1. PICK w, a, oserror :
         /\ WritesHold(files, w)
         /\ AnswerHolds(files \cup Contents(w), a) /\ AnswerHolds(files, oserror)
         /\ todo' = [todo EXCEPT ![p] = w]
         /\ pending' = [pending EXCEPT ![p] = [answer |-> a, oserror |-> oserror]]
         /\ UNCHANGED <<files, answers>>
  BY DEF ServeStep, Serve
<1>2. /\ todo'[p] = w /\ pending'[p].answer = a /\ pending'[p].oserror = oserror
      /\ \A q \in Process \ {p} : todo'[q] = todo[q] /\ pending'[q] = pending[q]
      /\ todo' = [q \in Process |-> todo'[q]] /\ pending' = [q \in Process |-> pending'[q]]
  BY <1>1 DEF StoreInv, TodoInv, PendingInv
<1>3. TodoInv'
  BY <1>1, <1>2 DEF StoreInv, TodoInv
<1>4. PendingInv'
  BY <1>1, <1>2 DEF StoreInv, PendingInv
<1> QED
  BY <1>1, <1>3, <1>4 DEF StoreInv, FilesInv, AnswersInv

LEMMA CommitKeeps ==
    ASSUME StoreInv, NEW p \in Process, Commit(p)
    PROVE  StoreInv'
<1> DEFINE w == todo[p]
           f == Head(Head(w))
           v == Remaining(w)
<1>1. /\ w # <<>> /\ files' = files \cup {f} /\ todo' = [todo EXCEPT ![p] = v]
      /\ UNCHANGED <<pending, answers>>
  BY DEF Commit
<1>2. /\ FileHolds(files \cup {f}, f) /\ WritesHold(files \cup {f}, v)
      /\ Contents(w) = {f} \cup Contents(v)
  BY <1>1, CommitWrites DEF StoreInv, TodoInv
<1> HIDE DEF f, v
<1>3. /\ todo'[p] = v /\ \A q \in Process \ {p} : todo'[q] = todo[q]
      /\ todo' = [q \in Process |-> todo'[q]]
  BY <1>1 DEF StoreInv, TodoInv
<1>4. FilesInv'
  BY <1>1, <1>2, FileGrows DEF StoreInv, FilesInv
<1>5. TodoInv'
  <2>1. \A q \in Process \ {p} : WritesHold(files', todo[q])
    BY <1>1, WritesGrow DEF StoreInv, TodoInv
  <2> QED
    BY <1>1, <1>2, <1>3, <2>1 DEF TodoInv
<1>6. PendingInv'
  <2>1. ASSUME NEW q \in Process \ {p}
        PROVE  \/ pending[q] = None /\ todo[q] = <<>>
               \/ /\ AnswerHolds(files' \cup Contents(todo[q]), pending[q].answer)
                  /\ AnswerHolds(files', pending[q].oserror)
    <3>1. /\ files \subseteq files'
          /\ files \cup Contents(todo[q]) \subseteq files' \cup Contents(todo[q])
      BY <1>1
    <3> QED
      BY <3>1, AnswerGrows DEF StoreInv, PendingInv
  <2>2. /\ AnswerHolds(files' \cup Contents(v), pending[p].answer)
        /\ AnswerHolds(files', pending[p].oserror)
    <3>1. /\ AnswerHolds(files \cup Contents(w), pending[p].answer)
          /\ AnswerHolds(files, pending[p].oserror)
      BY <1>1 DEF StoreInv, PendingInv
    <3>2. files \cup Contents(w) = files' \cup Contents(v) /\ files \subseteq files'
      BY <1>1, <1>2
    <3> QED
      BY <3>1, <3>2, AnswerGrows
  <2> QED
    BY <1>1, <1>3, <2>1, <2>2 DEF StoreInv, PendingInv
<1>7. AnswersInv'
  BY <1>1, AnswerGrows DEF StoreInv, AnswersInv
<1> QED
  BY <1>4, <1>5, <1>6, <1>7 DEF StoreInv

LEMMA AnswerKeeps ==
    ASSUME StoreInv, NEW p \in Process, Answer(p)
    PROVE  StoreInv'
<1>1. AnswerHolds(files, pending[p].answer)
  <2>1. AnswerHolds(files \cup Contents(<<>>), pending[p].answer)
    BY DEF StoreInv, PendingInv, Answer
  <2>2. files \cup Contents(<<>>) = files
    BY NoBatch
  <2> QED
    BY <2>1, <2>2
<1>2. AnswersInv'
  BY <1>1, ReceiveKeeps DEF StoreInv, AnswersInv, Answer
<1>3. PendingInv'
  BY DEF StoreInv, PendingInv, Answer
<1> QED
  BY <1>2, <1>3 DEF StoreInv, FilesInv, TodoInv, Answer

LEMMA AbandonKeeps ==
    ASSUME StoreInv, NEW p \in Process, NEW a, AnswerHolds(files, a), Abandon(p, a)
    PROVE  StoreInv'
<1>1. AnswersInv'
  BY ReceiveKeeps DEF StoreInv, AnswersInv, Abandon
<1>2. /\ todo'[p] = <<>> /\ pending'[p] = None
      /\ \A q \in Process \ {p} : todo'[q] = todo[q] /\ pending'[q] = pending[q]
      /\ todo' = [q \in Process |-> todo'[q]] /\ pending' = [q \in Process |-> pending'[q]]
      /\ UNCHANGED files
  BY DEF StoreInv, TodoInv, PendingInv, Abandon
<1>3. TodoInv'
  BY <1>2, NoBatch DEF StoreInv, TodoInv
<1>4. PendingInv'
  BY <1>2 DEF StoreInv, PendingInv
<1> QED
  BY <1>1, <1>2, <1>3, <1>4 DEF StoreInv, FilesInv

LEMMA StoreStep == StoreInv /\ [StoreNext]_storeVars => StoreInv'
<1> SUFFICES ASSUME StoreInv, [StoreNext]_storeVars PROVE StoreInv'
  OBVIOUS
<1>1. CASE UNCHANGED storeVars
  BY <1>1 DEF storeVars, StoreInv, FilesInv, TodoInv, PendingInv, AnswersInv
<1>2. ASSUME NEW p \in Process, ReadStep \/ ServeStep(p) PROVE StoreInv'
  BY <1>2, ReadKeeps, ServeKeeps
<1>3. ASSUME NEW p \in Process,
             \/ ContextOpen(p) \/ ModelCreate(p) \/ RevisionDerive(p) \/ EquivalentDerive(p)
             \/ ContextGet(p) \/ ElementGet(p) \/ DatasetDescribe(p) \/ DatasetQuery(p)
             \/ Components(p) \/ Catalog(p) \/ CreatorDescribe(p)
             \/ BranchEndpoints(p) \/ ConstraintsDescribe(p)
             \/ AnalysisRun(p) \/ Powerflow(p) \/ Contingency(p)
             \/ ViolationsEvaluate(p) \/ RiskRank(p)
             \/ ResultQuery(p) \/ BranchesRank(p) \/ ResultCompare(p) \/ EvidenceGet(p)
      PROVE  StoreInv'
  BY <1>2, <1>3, OpeningServes, ReadersRead, FactServes, AnalysesServe, ContingencyServes,
     ResultReadersRead
<1>4. ASSUME NEW p \in Process, WriteFails(p) PROVE StoreInv'
  <2>1. AnswerHolds(files, pending[p].oserror)
    BY <1>4 DEF StoreInv, PendingInv, WriteFails
  <2> QED
    BY <1>4, <2>1, AbandonKeeps DEF WriteFails
<1>5. ASSUME NEW p \in Process, Killed(p) PROVE StoreInv'
  BY <1>5, FailureHolds, AbandonKeeps DEF Killed, Died
<1> QED
  BY <1>1, <1>3, <1>4, <1>5, CommitKeeps, AnswerKeeps DEF StoreNext

\* In every reachable state the files lead to one another, and what is being
\* written and answered does so when its turn comes.
THEOREM StoreInvariant == StoreSpec => []StoreInv
  BY StoreStart, StoreStep, PTL DEF StoreSpec

-----------------------------------------------------------------------------
(* The theorems *)

\* Evidence that is there is of an allowed type, and is about its result.
LEMMA EvidenceVerified ==
    ASSUME StoreInv, NEW e, EvidenceIn(files, e)
    PROVE  VerifyEvidence(e) /\ EvidenceHolds(files, e)
<1>1. ASSUME At("network-facts", e) PROVE AllowedFact(e) /\ EvidenceHolds(files, e)
  <2>1. FileHolds(files, File("network-facts", e))
    BY <1>1 DEF StoreInv, FilesInv, At, File
  <2> QED
    BY <2>1 DEF FileHolds, File
<1>2. ASSUME At("analysis", e) PROVE AllowedEvidence(e) /\ EvidenceHolds(files, e)
  <2>1. FileHolds(files, File("analysis", e))
    BY <1>2 DEF StoreInv, FilesInv, At, File
  <2> QED
    BY <2>1 DEF FileHolds, File
<1>3. At("network-facts", e) \/ At("analysis", e)
  BY DEF EvidenceIn, In, File, At
<1> QED
  BY <1>1, <1>2, <1>3 DEF VerifyEvidence

\* A result that is there leads to what is there.
LEMMA ResultVerified ==
    ASSUME StoreInv, NEW r, ResultIn(files, r)
    PROVE  VerifyResult(r) /\ ResultHolds(files, r)
<1>1. PICK place \in ResultPlaces : File(place, r) \in files
  BY DEF ResultIn, In
<1>2. FileHolds(files, File(place, r))
  BY <1>1 DEF StoreInv, FilesInv
<1>3. ResultHolds(files, r)
  BY <1>1, <1>2 DEF FileHolds, File
<1>4. r.context.kind = "context" /\ r.net.kind = "network"
  BY <1>3 DEF ResultHolds, ContextHolds, RevisionHolds
<1>5. r.context # None /\ r.net # None
  BY <1>4 DEF None
<1>6. \E q \in ResultPlaces : At(q, r)
  BY <1>1 DEF At, File
<1> QED
  BY <1>3, <1>5, <1>6 DEF VerifyResult, ResultDocument

LEMMA ResultAdmitted ==
    ASSUME StoreInv, NEW r, ResultIn(files, r)
    PROVE  AdmitsResult(r) /\ (r.source # None => Loads(r.source))
<1>1. VerifyResult(r) /\ ResultHolds(files, r)
  BY ResultVerified
<1>2. VerifyContext(r.context)
  BY <1>1, HoldsRequire DEF ResultHolds
<1>3. \A e \in r.evidence : VerifyEvidence(e)
  BY <1>1, EvidenceVerified DEF ResultHolds
<1>4. \A s \in r.scenarios : VerifyResult(s) /\ MatchingContext(s, r)
  BY <1>1, ResultVerified DEF ResultHolds
<1>5. r.source # None => Loads(r.source)
  BY <1>1 DEF ResultHolds, Loads, In, File, At
<1> QED
  BY <1>1, <1>2, <1>3, <1>4, <1>5 DEF AdmitsResult

LEMMA EvidenceAdmitted ==
    ASSUME StoreInv, NEW e, EvidenceIn(files, e)
    PROVE  AdmitsEvidence(e)
<1>1. VerifyEvidence(e) /\ EvidenceHolds(files, e)
  BY EvidenceVerified
<1>2. VerifyContext(e.context)
  BY <1>1, HoldsRequire DEF EvidenceHolds
<1>3. e.result # None => VerifyResult(e.result) /\ MatchingContext(e.result, e)
  BY <1>1, ResultVerified DEF EvidenceHolds
<1> QED
  BY <1>1, <1>2, <1>3 DEF AdmitsEvidence

\* Whatever the audit finds on disk about a result agrees with it.
LEMMA OnDiskAgrees ==
    ASSUME StoreInv, NEW r, NEW e \in EvidenceOnDisk(r), ResultIn(files, r)
    PROVE  AllowedEvidence(e) /\ MatchingContext(r, e)
<1>1. e \in Stored("analysis") /\ e.result = r
  BY DEF EvidenceOnDisk
<1>2. PICK f \in files : f.at = "analysis" /\ f.doc = e
  BY <1>1 DEF Stored
<1>3. FileHolds(files, f)
  BY DEF StoreInv, FilesInv
<1>4. AllowedEvidence(e) /\ EvidenceHolds(files, e)
  BY <1>2, <1>3 DEF FileHolds
<1>5. r # None
  BY DEF ResultIn, None
<1> QED
  BY <1>1, <1>4, <1>5 DEF EvidenceHolds

LEMMA ResultAgrees ==
    ASSUME StoreInv, NEW r, ResultIn(files, r), NEW claimed,
           \A e \in claimed : EvidenceIn(files, e)
    PROVE  LinksAgree(r, claimed)
<1>1. VerifyResult(r) /\ ResultHolds(files, r)
  BY ResultVerified
<1>2. ASSUME NEW e \in claimed, e.result = r PROVE MatchingContext(r, e)
  <2>1. EvidenceHolds(files, e)
    BY <1>2, EvidenceVerified
  <2>2. r # None
    BY DEF ResultIn, None
  <2> QED
    BY <1>2, <2>1, <2>2 DEF EvidenceHolds
<1>3. \A e \in EvidenceOnDisk(r) : AllowedEvidence(e) /\ MatchingContext(r, e)
  BY OnDiskAgrees
<1>4. ASSUME NEW s \in r.scenarios
      PROVE  /\ VerifyResult(s)
             /\ \A e \in EvidenceOnDisk(s) :
                   AllowedEvidence(e) /\ MatchingContext(s, e) /\ MatchingContext(r, e)
  <2>1. ResultIn(files, s) /\ MatchingContext(s, r)
    BY <1>1 DEF ResultHolds
  <2>2. VerifyResult(s)
    BY <2>1, ResultVerified
  <2>3. \A e \in EvidenceOnDisk(s) : AllowedEvidence(e) /\ MatchingContext(s, e)
    BY <2>1, OnDiskAgrees
  <2> QED
    BY <2>1, <2>2, <2>3 DEF MatchingContext
<1> QED
  BY <1>1, <1>2, <1>3, <1>4 DEF LinksAgree

\* The audit of evidence that is there, with a result it links or without one.
LEMMA AuditPasses ==
    ASSUME StoreInv, NEW claimed, \A e \in claimed : EvidenceIn(files, e),
           NEW declared,
           \A r \in declared : ResultIn(files, r) /\ Linked(r, claimed)
    PROVE  Audit(claimed, declared) = {}
<1> DEFINE isResult(r) == r.kind = "result"
           results     == {r \in declared : isResult(r)}
<1>1. declared = results
  BY DEF ResultIn
<1>2. \A e \in claimed : VerifyEvidence(e)
  BY EvidenceVerified
<1>3. \A r \in results : VerifyResult(r) /\ Linked(r, claimed)
  BY ResultVerified
<1>4. ASSUME NEW r \in Documents(results, claimed) PROVE LinksAgree(r, claimed)
  <2>1. CASE r \in declared
    BY <2>1, ResultAgrees
  <2>2. CASE r \notin declared
    <3>1. PICK e \in claimed : e.result = r /\ e.result # None
      BY <1>1, <2>2 DEF Documents
    <3>2. EvidenceHolds(files, e)
      BY <3>1, EvidenceVerified
    <3>3. ResultIn(files, r)
      BY <3>1, <3>2 DEF EvidenceHolds
    <3> QED
      BY <3>3, ResultAgrees
  <2> QED
    BY <2>1, <2>2
<1> QED
  BY <1>1, <1>2, <1>3, <1>4 DEF Audit

\* Every file leads only to files that are there: whoever finds a context, a
\* result or an evidence record can read on (revisions.py _persist, results.py
\* persist, analyses.py run_n_minus_one).
THEOREM FilesLead == StoreSpec => []LinksHold
<1>1. StoreInv => LinksHold
  <2> SUFFICES ASSUME StoreInv PROVE LinksHold
    OBVIOUS
  <2>1. \A place : \A doc \in Stored(place) : In(files, place, doc)
    <3> SUFFICES ASSUME NEW place, NEW doc \in Stored(place) PROVE In(files, place, doc)
      OBVIOUS
    <3>1. PICK f \in files : f.at = place /\ f.doc = doc
      BY DEF Stored
    <3>2. f = File(f.at, f.doc)
      BY DEF StoreInv, FilesInv, FileHolds
    <3> QED
      BY <3>1, <3>2 DEF In
  <2>2. ASSUME NEW c \in Stored("contexts") PROVE Require(c)
    <3>1. FileHolds(files, File("contexts", c))
      BY <2>1 DEF In, StoreInv, FilesInv
    <3> QED
      BY <3>1, HoldsRequire DEF FileHolds, File
  <2>3. ASSUME NEW place \in ResultPlaces, NEW r \in Stored(place)
        PROVE  AdmitsResult(r) /\ (r.source # None => Loads(r.source))
    <3>1. FileHolds(files, File(place, r))
      BY <2>1 DEF In, StoreInv, FilesInv
    <3>2. ResultIn(files, r)
      BY <2>1, <3>1 DEF FileHolds, File, ResultHolds, ResultIn
    <3> QED
      BY <3>2, ResultAdmitted
  <2>4. ASSUME NEW e \in Stored("analysis") \cup Stored("network-facts")
        PROVE  AdmitsEvidence(e)
    BY <2>1, EvidenceAdmitted DEF EvidenceIn
  <2> QED
    BY <2>2, <2>3, <2>4 DEF LinksHold
<1> QED
  BY <1>1, StoreInvariant, PTL

\* grid-agent admits whatever a successful answer refers to, when it is given
\* and ever after (projector.py admit).
THEOREM AnswersStayAdmitted == StoreSpec => []AnswersAdmitted
<1>1. StoreInv => AnswersAdmitted
  <2> SUFFICES ASSUME StoreInv, NEW a \in answers PROVE Admits(a)
    BY DEF AnswersAdmitted, Answered
  <2>1. AnswerHolds(files, a)
    BY DEF StoreInv, AnswersInv
  <2> QED
    BY <2>1, ResultAdmitted, EvidenceAdmitted, HoldsRequire DEF AnswerHolds, Admits
<1> QED
  BY <1>1, StoreInvariant, PTL

\* A claim that cites a result with the evidence that came with it passes the
\* audit, whatever else is on disk (integrity.py audit_answer_references).
THEOREM ClaimsStayLinked == StoreSpec => []ClaimsPassAudit
<1>1. StoreInv => ClaimsPassAudit
  <2> SUFFICES ASSUME StoreInv, NEW a \in Answered, a.result # None, a.evidence # {}
               PROVE  Audit(a.evidence, {a.result}) = {}
    BY DEF ClaimsPassAudit
  <2>1. AnswerHolds(files, a) /\ a.code = "ok"
    BY DEF StoreInv, AnswersInv, Answered
  <2>2. ResultIn(files, a.result) /\ \A e \in a.evidence : EvidenceIn(files, e)
    BY <2>1 DEF AnswerHolds
  <2>3. Linked(a.result, a.evidence)
    BY <2>1 DEF AnswerHolds, Linked
  <2> QED
    BY <2>2, <2>3, AuditPasses
<1> QED
  BY <1>1, StoreInvariant, PTL

\* What a failed answer names as evidence can be cited
\* (persist_non_convergence_diagnostics before _failure).
THEOREM FailuresStayEvidenced == StoreSpec => []FailuresAreEvidenced
<1>1. StoreInv => FailuresAreEvidenced
  <2> SUFFICES ASSUME StoreInv, NEW a \in answers PROVE Audit(a.evidence, {}) = {}
    BY DEF FailuresAreEvidenced
  <2>1. \A e \in a.evidence : EvidenceIn(files, e)
    BY DEF StoreInv, AnswersInv, AnswerHolds
  <2> QED
    BY <2>1, AuditPasses
<1> QED
  BY <1>1, StoreInvariant, PTL

\* A context that was once the answer can be used by every later call, with
\* all the contexts it was derived from (models.py require).
THEOREM ContextsStay == StoreSpec => []ContextsStayUsable
<1>1. StoreInv => ContextsStayUsable
  BY HoldsRequire DEF StoreInv, AnswersInv, AnswerHolds, ContextsStayUsable, Answered
<1> QED
  BY <1>1, StoreInvariant, PTL
=============================================================================
