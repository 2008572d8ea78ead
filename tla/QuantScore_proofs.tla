------------------------- MODULE QuantScore_proofs -------------------------
(***************************************************************************)
(* Proofs about QuantScore, for any revisions, references, slices and       *)
(* series, and any number of commands, stops and events: what is published  *)
(* belongs together and holds weights, and what a series does not score it  *)
(* leaves alone.                                                            *)
(*                                                                          *)
(* The invariant says what each command still has to do, and what the steps *)
(* it has done have left for those that follow.                             *)
(***************************************************************************)
EXTENDS QuantScore, WellFoundedInduction, TLAPS

\* The hypotheses of two of the theorems, each of which the code can be used against.
\* fetch marks its directory last.
FetchEnds == "fetch" \notin Stoppable
\* A series with --sample and neither --revisions nor --slices is no subset.
SamplesInSubsets == \A a \in Series : a.sample # None => Subset(a)

Info == [refs : SUBSET Ref, base : SUBSET Rev]
CardOf == [revs : SUBSET Rev, refs : SUBSET Ref, fresh : BOOLEAN]
Maybe(S) == S \cup {None}
IsResults(q) ==
    /\ q = [ref |-> q.ref, rows |-> q.rows] /\ q.ref \in 1 .. MaxVersion
    /\ q.rows \in [DOMAIN q.rows -> 1 .. MaxVersion] /\ DOMAIN q.rows \subseteq Label
IsMain(m) ==
    /\ m = [qb |-> m.qb, refinfo |-> m.refinfo, card |-> m.card]
    /\ DOMAIN m.qb = ToSet(Scored) /\ \A sl \in ToSet(Scored) : m.qb[sl] # None => IsResults(m.qb[sl])
    /\ m.refinfo \in Maybe(Info) /\ m.card \in CardOf

ScoreTypes ==
    /\ trace \in [ToSet(Slices) -> 0 .. MaxVersion]
    /\ sampled \in [ToSet(Slices) -> 0 .. MaxVersion]
    /\ dir \in [Rev -> Holds] /\ base \in [Rev -> Holds]
    /\ qb = [k \in Key |-> qb[k]] /\ \A k \in Key : qb[k] # None => IsResults(qb[k])
    /\ refinfo \in Maybe(Info) /\ original \in Maybe(Info)
    /\ thresholds \subseteq Thr
    /\ logits \subseteq [key : Key, of : 1 .. MaxVersion]
    /\ card \in Maybe(CardOf)
    /\ fetched \in BOOLEAN
    /\ hub = [main |-> hub.main, rev |-> hub.rev, base |-> hub.base]
    /\ hub.main # None => IsMain(hub.main)
    /\ hub.rev \in [Rev -> Holds] /\ hub.base \in [Rev -> Holds]
    /\ cmd \in {Idle, [op |-> "upload"], [op |-> "fetch"]}
                \cup {[op |-> "qbench", args |-> a] : a \in Series}

\* What each command has left.
BenchSteps ==
    {"reference", "prune"} \X {None} \cup {"score", "parity"} \X Wanted(cmd.args)
UploadSteps ==
    /\ \A s \in todo : s.do \in {"rung", "main", "revision"}
    /\ \A s \in todo : s.do = "main" => card # None
    /\ \A s \in todo : s.do # "main" => s.on \in Rev /\ ~fetched
FetchSteps ==
    /\ IsMain(hub.main)
    /\ \A s \in todo : s.do \in {"results", "stand-in", "rewrite", "mark"}
    /\ \A s \in todo : s.do = "stand-in" => s.on \in Rev
    /\ \A s \in todo : s.do = "rewrite" => hub.main.refinfo # None
    /\ fetched \/ Once("mark") \subseteq todo
    /\ hub.main.refinfo # None =>
          Once("rewrite") \subseteq todo \/ original = hub.main.refinfo

\* A slice is still to be scored, or its arms have their rows.
HasRows(k) ==
    /\ qb[k] # None
    /\ cmd.args.revisions = None => qb[k].ref = Version(k)
    /\ \A l \in Arms(cmd.args, k) : l \in DOMAIN qb[k].rows /\ qb[k].rows[l] = Version(k)
Benched ==
    /\ ~fetched
    /\ \A s \in todo : <<s.do, s.on>> \in BenchSteps
    /\ \A k \in Wanted(cmd.args) : Steps("score", {k}) \subseteq todo \/ HasRows(k)
    /\ cmd.args.sample \in ToSet(Slices) => sampled[cmd.args.sample] # 0

Work ==
    /\ \A s \in todo : s = [do |-> s.do, on |-> s.on]
    /\ cmd.op = "none" => todo = {}
    /\ cmd.op = "qbench" => Benched
    /\ cmd.op = "upload" => UploadSteps
    /\ cmd.op = "fetch" => FetchSteps

\* Stand-ins are only in a directory that is being fetched or was.
LocalWhole ==
    FetchEnds /\ ~fetched /\ cmd.op # "fetch" =>
        \A r \in Rev : dir[r] # "stand-in" /\ base[r] # "stand-in"

\* A card is fresh while the rows and references it was rendered from are there.
CardFresh ==
    card # None /\ card.fresh =>
        /\ card.refs # {} => refinfo # None
        /\ refinfo # None => card.refs \subseteq refinfo.refs
        /\ \A sl \in Composite :
             /\ Labels("ref", card.refs) \subseteq Labelled(qb[Full(sl)])
             /\ qb[Full(sl)] # None => Labels("rev", card.revs) \subseteq Labelled(qb[Full(sl)])

\* What was fetched as reference.json is kept only by a fetch and by the directory
\* it has marked, which publishes what is published.
ReferenceFetched ==
    /\ FetchEnds /\ original # None =>
          (fetched \/ cmd.op = "fetch") /\ refinfo.refs = original.refs
    /\ fetched /\ hub.main.refinfo # None => Staged = hub.main.refinfo

HubSound == FetchEnds => HubWhole /\ PublishedMatchesCard

ScoreInv ==
    ScoreTypes /\ Work /\ LocalWhole /\ CardFresh /\ ReferenceFetched /\ HubSound

(***************************************************************************)
(* Values.                                                                  *)
(***************************************************************************)
LEMMA ResultsThere == ASSUME NEW q, IsResults(q) PROVE q # None
PROOF
<1>1. q.rows \in UNION {[S -> 1 .. MaxVersion] : S \in SUBSET Label}
  BY DEF IsResults
<1>2. q \in Results
  BY <1>1 DEF IsResults, Results
<1> QED BY <1>2, ResultsAssumption

LEMMA OneMore ==
    ASSUME NEW S, NEW seq \in Seq(S), NEW x \in S
    PROVE  /\ seq \o <<x>> \in Seq(S) /\ Len(seq \o <<x>>) = Len(seq) + 1
           /\ \A i \in 1 .. Len(seq) : (seq \o <<x>>)[i] = seq[i]
           /\ (seq \o <<x>>)[Len(seq) + 1] = x
PROOF
<1>1. <<x>> \in Seq(S) /\ Len(<<x>>) = 1 /\ <<x>>[1] = x
  OBVIOUS
<1>2. seq \o <<x>> \in Seq(S) /\ Len(seq \o <<x>>) = Len(seq) + 1
  BY <1>1
<1>3. \A i \in 1 .. Len(seq) : (seq \o <<x>>)[i] = seq[i]
  BY <1>1
<1>4. (seq \o <<x>>)[Len(seq) + 1] = x
  BY <1>1
<1> QED BY <1>2, <1>3, <1>4

LEMMA ScoredSlices ==
    /\ ToSet(Scored) = ToSet(Slices) \cup {"raw"}
    /\ Len(Scored) \in Nat /\ DOMAIN Scored = 1 .. Len(Scored)
    /\ None \notin ToSet(Scored)
PROOF
<1> DEFINE S == ToSet(Slices) \cup {"raw"}
<1>1. /\ Len(Slices) \in Nat /\ DOMAIN Slices = 1 .. Len(Slices)
      /\ Slices = [i \in 1 .. Len(Slices) |-> Slices[i]]
  BY ScoreAssumption
<1>2. \A i \in 1 .. Len(Slices) : Slices[i] \in S
  BY <1>1 DEF ToSet
<1>3. Slices \in Seq(S) /\ "raw" \in S
  BY <1>1, <1>2
<1> HIDE DEF S
<1>4. /\ Scored \in Seq(S) /\ Len(Scored) = Len(Slices) + 1
      /\ \A i \in 1 .. Len(Slices) : Scored[i] = Slices[i]
      /\ Scored[Len(Slices) + 1] = "raw"
  BY <1>3, OneMore DEF Scored
<1>5. DOMAIN Scored = 1 .. Len(Slices) + 1 /\ \A i \in DOMAIN Scored : Scored[i] \in S
  BY <1>1, <1>4
<1>6. \A x \in ToSet(Scored) : x \in S
  BY <1>5 DEF ToSet
<1>7. \A x \in S : x \in ToSet(Scored)
  BY <1>1, <1>4, <1>5 DEF ToSet, S
<1> QED BY <1>1, <1>4, <1>5, <1>6, <1>7, ScoreAssumption DEF S

LEMMA StageValues ==
    /\ DOMAIN Stage = {"reference", "score", "parity", "prune", "rung", "main", "revision",
                       "results", "stand-in", "rewrite", "mark"}
    /\ Stage["reference"] = 1 /\ Stage["score"] = 2 /\ Stage["parity"] = 3 /\ Stage["prune"] = 4
    /\ Stage["rung"] = 5 /\ Stage["main"] = 6 /\ Stage["revision"] = 7 /\ Stage["results"] = 8
    /\ Stage["stand-in"] = 9 /\ Stage["rewrite"] = 10 /\ Stage["mark"] = 11
PROOF
<1>1. DOMAIN Stages = 1 .. 11
  BY DEF Stages
<1>2. /\ Stages[1] = "reference" /\ Stages[2] = "score" /\ Stages[3] = "parity"
      /\ Stages[4] = "prune" /\ Stages[5] = "rung" /\ Stages[6] = "main"
      /\ Stages[7] = "revision" /\ Stages[8] = "results" /\ Stages[9] = "stand-in"
      /\ Stages[10] = "rewrite" /\ Stages[11] = "mark"
  BY DEF Stages
<1>3. ToSet(Stages) = {"reference", "score", "parity", "prune", "rung", "main", "revision",
                       "results", "stand-in", "rewrite", "mark"}
  BY <1>1, <1>2 DEF ToSet
<1>4. ASSUME NEW i \in 1 .. 11 PROVE Stage[Stages[i]] = i
  <2>1. Stages[i] \in ToSet(Stages)
    BY <1>1 DEF ToSet
  <2>2. \A j \in 1 .. 11 : Stages[j] = Stages[i] => j = i
    BY <1>2
  <2> QED BY <1>1, <2>1, <2>2 DEF Stage, Nth
<1> QED BY <1>2, <1>3, <1>4 DEF Stage, Nth

LEMMA PlaceNat == \A sl \in ToSet(Scored) : Place[sl] \in Nat
PROOF
<1> SUFFICES ASSUME NEW sl \in ToSet(Scored) PROVE Place[sl] \in Nat
  OBVIOUS
<1>1. \E i \in DOMAIN Scored : Scored[i] = sl
  BY DEF ToSet
<1>2. Place[sl] \in DOMAIN Scored
  BY <1>1 DEF Place, Nth
<1> QED BY <1>2, ScoredSlices

LEMMA LeastOf ==
    ASSUME NEW T, T # {}, NEW f, \A t \in T : f[t] \in Nat
    PROVE  \E s \in T : \A t \in T : f[s] <= f[t]
PROOF
<1> DEFINE N == {f[t] : t \in T}
<1>1. N \subseteq Nat /\ N # {}
  OBVIOUS
<1> HIDE DEF N
<1>2. PICK x \in N : \A y \in N : ~(<<y, x>> \in OpToRel(<, Nat))
  BY <1>1, WFMin, NatLessThanWellFounded, Zenon
<1>3. \A y \in N : ~(y < x)
  BY <1>1, <1>2, Zenon DEF OpToRel
<1>4. \A y \in N : x <= y
  BY <1>1, <1>3
<1> QED BY <1>4 DEF N

\* What is due is one of the steps left, and none left comes before it.
LEMMA DueFirst ==
    ASSUME todo # {}, \A s \in todo : s.do \in DOMAIN Stage,
           \A s \in todo : s.do \in {"score", "parity"} => s.on.slice \in ToSet(Scored)
    PROVE  Due \in todo /\ \A t \in todo : Stage[Due.do] <= Stage[t.do]
PROOF
<1> DEFINE first == {s \in todo : \A t \in todo : Stage[s.do] <= Stage[t.do]}
           IsFirst(s) == s.do \in {"score", "parity"} =>
                           \A t \in first : Place[s.on.slice] <= Place[t.on.slice]
<1>1. first # {}
  <2> DEFINE f == [s \in todo |-> Stage[s.do]]
  <2>1. \A t \in todo : f[t] \in Nat
    BY StageValues
  <2>2. \E s \in todo : \A t \in todo : f[s] <= f[t]
    BY <2>1, LeastOf
  <2> QED BY <2>2
<1>2. \E s \in first : IsFirst(s)
  <2>1. PICK u \in first : TRUE
    BY <1>1
  <2>2. \A s \in first : Stage[s.do] = Stage[u.do]
    BY <2>1, StageValues
  <2>3. \A s \in first : s.do = u.do
    BY <2>1, <2>2, StageValues
  <2>4. CASE u.do \notin {"score", "parity"}
    BY <2>1, <2>4
  <2>5. CASE u.do \in {"score", "parity"}
    <3> DEFINE g == [s \in first |-> Place[s.on.slice]]
    <3>1. \A t \in first : g[t] \in Nat
      BY <2>3, <2>5, PlaceNat
    <3>2. \E s \in first : \A t \in first : g[s] <= g[t]
      BY <1>1, <3>1, LeastOf
    <3> QED BY <3>2
  <2> QED BY <2>4, <2>5
<1>3. Due = CHOOSE s \in first : IsFirst(s)
  BY DEF Due
<1> HIDE DEF IsFirst
<1>4. Due \in first
  BY <1>2, <1>3
<1> QED BY <1>4
LEMMA LabelSets ==
    ASSUME NEW set
    PROVE  /\ \A k : Labels(k, {}) = {}
           /\ set \subseteq Rev =>
                Labels("rev", set) \subseteq Label /\ Labels("base", set) \subseteq Label
           /\ set \subseteq Ref =>
                Labels("ref", set) \subseteq Label /\ Labels("parity", set) \subseteq Label
           /\ set \subseteq Thr => Labels("thr", set) \subseteq Label
  BY DEF Labels, Label

(***************************************************************************)
(* The invariant holds at first.                                            *)
(***************************************************************************)
LEMMA RowsTyped ==
    ASSUME NEW D \in SUBSET Label, NEW f \in [D -> 1 .. MaxVersion], NEW v \in 1 .. MaxVersion
    PROVE  IsResults([ref |-> v, rows |-> f])
  BY DEF IsResults

LEMMA InitScore == Init => ScoreInv
PROOF
<1> SUFFICES ASSUME Init PROVE ScoreInv
  OBVIOUS
<1>1. dir \in [Rev -> Holds] /\ base \in [Rev -> Holds]
      /\ \A r \in Rev : dir[r] # "stand-in" /\ base[r] # "stand-in"
  BY DEF Init, Holds
<1>2. 1 \in 1 .. MaxVersion /\ 0 \in 0 .. MaxVersion /\ 1 \in 0 .. MaxVersion
  BY ScoreAssumption
<1>3. /\ hub = [main |-> hub.main, rev |-> hub.rev, base |-> hub.base]
      /\ hub.main # None => IsMain(hub.main)
      /\ hub.rev \in [Rev -> {"none", "weights"}] /\ hub.base \in [Rev -> {"none", "weights"}]
      /\ PublishedMatchesCard
  <2>1. CASE hub = NothingPublished
    BY <2>1 DEF NothingPublished, PublishedMatchesCard
  <2>2. CASE hub = EarlierSet(Complete)
    <3> DEFINE Rows(sl) == Labels("rev", Complete) \cup Labels("ref", Ref)
                           \cup IF sl \in Composite THEN Labels("base", Rev) ELSE {}
               Held(sl) == [ref |-> 1, rows |-> [l \in Rows(sl) |-> 1]]
    <3>1. \A sl : Rows(sl) \subseteq Label
      BY LabelSets DEF Complete
    <3>2. ASSUME NEW sl
          PROVE  /\ IsResults(Held(sl)) /\ Held(sl) # None
                 /\ DOMAIN Held(sl).rows = Rows(sl)
                 /\ Labels("rev", Complete) \cup Labels("ref", Ref) \subseteq Rows(sl)
      <4>1. [l \in Rows(sl) |-> 1] \in [Rows(sl) -> 1 .. MaxVersion]
        BY <1>2
      <4>2. IsResults(Held(sl))
        BY <1>2, <3>1, <4>1, RowsTyped
      <4> QED BY <4>2, ResultsThere
    <3>3. hub.main = [qb |-> [sl \in ToSet(Scored) |-> Held(sl)],
                      refinfo |-> [refs |-> Ref, base |-> Rev],
                      card |-> [revs |-> Complete, refs |-> Ref, fresh |-> TRUE]]
      BY <2>2 DEF EarlierSet
    <3> HIDE DEF Rows, Held
    <3>4. IsMain(hub.main)
      <4>1. Complete \in SUBSET Rev
        BY DEF Complete
      <4>2. hub.main.refinfo \in Info /\ hub.main.card \in CardOf
        BY <3>3, <4>1 DEF Info, CardOf
      <4>3. DOMAIN hub.main.qb = ToSet(Scored)
            /\ \A sl \in ToSet(Scored) : hub.main.qb[sl] = Held(sl)
        BY <3>3
      <4> QED BY <3>2, <3>3, <4>2, <4>3 DEF IsMain, Maybe
    <3>5. \A sl \in Composite : hub.main.qb[sl] = Held(sl)
      BY <3>3, ScoredSlices, ScoreAssumption
    <3>6. \A sl \in Composite : Labelled(hub.main.qb[sl]) = Rows(sl)
      BY <3>2, <3>5 DEF Labelled
    <3>7. PublishedMatchesCard
      <4>1. hub.main.card.refs = Ref /\ hub.main.card.revs = Complete
        BY <3>3
      <4> QED BY <3>2, <3>6, <4>1, Zenon DEF PublishedMatchesCard
    <3>8. /\ hub = [main |-> hub.main, rev |-> hub.rev, base |-> hub.base]
          /\ hub.rev \in [Rev -> {"none", "weights"}] /\ hub.base \in [Rev -> {"none", "weights"}]
      BY <2>2 DEF EarlierSet
    <3> QED BY <3>4, <3>7, <3>8
  <2> QED BY <2>1, <2>2 DEF Init
<1>4. ScoreTypes
  BY <1>1, <1>2, <1>3 DEF Init, ScoreTypes, Holds, Maybe, NoResults
<1>5. Work /\ LocalWhole /\ CardFresh /\ ReferenceFetched
  BY <1>1 DEF Init, Work, LocalWhole, CardFresh, ReferenceFetched, Idle
<1>6. HubWhole
  BY <1>3 DEF HubWhole, Range
<1> QED BY <1>3, <1>4, <1>5, <1>6 DEF ScoreInv, HubSound
(***************************************************************************)
(* Every step preserves it.                                                 *)
(***************************************************************************)
BenchDo == {"reference", "score", "parity", "prune"}
UploadDo == {"rung", "main", "revision"}
FetchDo == {"results", "stand-in", "rewrite", "mark"}

LEMMA WantedKeys ==
    ASSUME NEW a
    PROVE  \A k \in Wanted(a) :
             /\ k \in Key /\ k.slice \in ToSet(Scored)
             /\ k = [slice |-> k.slice, sampled |-> k.slice = a.sample]
             /\ k.slice # "raw" => k.slice \in ToSet(Slices) /\ trace[k.slice] # 0
PROOF
<1> SUFFICES ASSUME NEW k \in Wanted(a)
             PROVE  /\ k \in Key /\ k.slice \in ToSet(Scored)
                    /\ k = [slice |-> k.slice, sampled |-> k.slice = a.sample]
                    /\ k.slice # "raw" => k.slice \in ToSet(Slices) /\ trace[k.slice] # 0
  OBVIOUS
<1>1. PICK sl \in Asked(a) : (sl = "raw" \/ trace[sl] # 0)
                              /\ k = [slice |-> sl, sampled |-> sl = a.sample]
  BY DEF Wanted, Keys
<1>2. k.slice = sl /\ k.sampled = (sl = a.sample)
  BY <1>1
<1>3. sl \in ToSet(Scored)
  BY DEF Asked
<1>4. (sl = a.sample) \in BOOLEAN
  OBVIOUS
<1>5. k \in Key
  BY <1>1, <1>3, <1>4 DEF Key
<1> QED BY <1>1, <1>2, <1>3, <1>5, ScoredSlices

\* A slice that is scored has the trace it is scored on.
LEMMA VersionThere ==
    ASSUME ScoreTypes, NEW a, a.sample \in ToSet(Slices) => sampled[a.sample] # 0,
           NEW k \in Wanted(a)
    PROVE  Version(k) \in 1 .. MaxVersion
PROOF
<1>1. /\ k.slice # "raw" => k.slice \in ToSet(Slices) /\ trace[k.slice] # 0
      /\ k.sampled = (k.slice = a.sample)
  BY WantedKeys
<1>2. CASE k.slice = "raw"
  BY <1>2, ScoreAssumption DEF Version
<1>3. CASE k.slice # "raw" /\ k.sampled
  <2>1. k.slice \in ToSet(Slices) /\ sampled[k.slice] # 0 /\ sampled[k.slice] \in 0 .. MaxVersion
    BY <1>1, <1>3 DEF ScoreTypes
  <2> QED BY <1>3, <2>1, ScoreAssumption DEF Version
<1>4. CASE k.slice # "raw" /\ ~k.sampled
  <2>1. k.slice \in ToSet(Slices) /\ trace[k.slice] # 0 /\ trace[k.slice] \in 0 .. MaxVersion
    BY <1>1, <1>4 DEF ScoreTypes
  <2> QED BY <1>4, <2>1, ScoreAssumption DEF Version
<1> QED BY <1>2, <1>3, <1>4

\* The step that is due says which command is under way.
LEMMA DueStep ==
    ASSUME ScoreTypes, Work, todo # {}
    PROVE  /\ Due \in todo /\ Due = [do |-> Due.do, on |-> Due.on]
           /\ Due.do \in BenchDo => cmd.op = "qbench" /\ Benched
           /\ Due.do \in UploadDo => cmd.op = "upload" /\ UploadSteps
           /\ Due.do \in FetchDo => cmd.op = "fetch" /\ FetchSteps
           /\ Due.do \in {"score", "parity"} => Due.on \in Wanted(cmd.args)
           /\ \A t \in todo : Stage[Due.do] <= Stage[t.do]
PROOF
<1>1. cmd.op \in {"qbench", "upload", "fetch"}
  BY DEF ScoreTypes, Work, Idle
<1>2. Benched => \A s \in todo : s.do \in BenchDo
                   /\ (s.do \in {"score", "parity"} => s.on \in Wanted(cmd.args))
  BY DEF Benched, BenchSteps, BenchDo
<1>3. /\ \A s \in todo : s.do \in DOMAIN Stage
      /\ \A s \in todo : s.do \in {"score", "parity"} => s.on \in Wanted(cmd.args)
  <2>1. CASE cmd.op = "qbench"
    BY <1>2, <2>1, StageValues DEF Work, BenchDo
  <2>2. CASE cmd.op = "upload"
    BY <2>2, StageValues DEF Work, UploadSteps
  <2>3. CASE cmd.op = "fetch"
    BY <2>3, StageValues DEF Work, FetchSteps
  <2> QED BY <1>1, <2>1, <2>2, <2>3
<1>4. \A s \in todo : s.do \in {"score", "parity"} => s.on.slice \in ToSet(Scored)
  BY <1>3, WantedKeys
<1>5. Due \in todo /\ \A t \in todo : Stage[Due.do] <= Stage[t.do]
  BY <1>3, <1>4, DueFirst
<1>6. Due = [do |-> Due.do, on |-> Due.on]
  BY <1>5 DEF Work
<1>7. CASE cmd.op = "qbench"
  BY <1>2, <1>3, <1>5, <1>6, <1>7 DEF Work, BenchDo, UploadDo, FetchDo
<1>8. CASE cmd.op = "upload"
  BY <1>3, <1>5, <1>6, <1>8 DEF Work, UploadSteps, BenchDo, UploadDo, FetchDo
<1>9. CASE cmd.op = "fetch"
  BY <1>3, <1>5, <1>6, <1>9 DEF Work, FetchSteps, BenchDo, UploadDo, FetchDo
<1> QED BY <1>1, <1>7, <1>8, <1>9

\* The rest of the invariant, by what it is about.
LEMMA SameDirs ==
    ASSUME LocalWhole, UNCHANGED <<dir, base, fetched>>, cmd'.op # "fetch" => cmd.op # "fetch"
    PROVE  LocalWhole'
  BY DEF LocalWhole

LEMMA SameScores ==
    ASSUME CardFresh, UNCHANGED <<card, refinfo, qb>>
    PROVE  CardFresh'
  BY DEF CardFresh, Labelled

LEMMA SamePublished ==
    ASSUME HubSound, UNCHANGED hub
    PROVE  HubSound'
  BY DEF HubSound, HubWhole, PublishedMatchesCard

LEMMA SameReference ==
    ASSUME ReferenceFetched, UNCHANGED <<refinfo, original, fetched, hub>>,
           cmd.op = "fetch" => cmd'.op = "fetch" \/ original = None \/ fetched
    PROVE  ReferenceFetched'
  BY DEF ReferenceFetched, Staged
\* What a series wants does not change under it.
LEMMA BenchSame ==
    ASSUME UNCHANGED <<cmd, trace, sampled, dir, base>>
    PROVE  /\ Wanted(cmd.args)' = Wanted(cmd.args)
           /\ \A k : Arms(cmd.args, k)' = Arms(cmd.args, k) /\ Version(k)' = Version(k)
  BY DEF Wanted, Asked, Keys, Arms, Version, Revisions, Baselines, Complete, Rungs

LEMMA BenchOnward ==
    ASSUME ScoreTypes, Work, todo # {}, Due.do \in BenchDo, todo' = todo \ {Due},
           UNCHANGED <<cmd, trace, sampled, dir, base, fetched>>,
           \A k \in Wanted(cmd.args) : HasRows(k) => HasRows(k)',
           \A k \in Wanted(cmd.args) : Due = [do |-> "score", on |-> k] => HasRows(k)'
    PROVE  Work'
PROOF
<1>1. cmd.op = "qbench" /\ Benched /\ Due = [do |-> Due.do, on |-> Due.on]
  BY DueStep
<1>2. Wanted(cmd.args)' = Wanted(cmd.args)
  BY BenchSame
<1>3. \A s \in todo' : <<s.do, s.on>> \in BenchSteps'
  BY <1>1, <1>2 DEF Benched, BenchSteps
<1>4. \A k \in Wanted(cmd.args) : Steps("score", {k}) \subseteq todo' \/ HasRows(k)'
  <2> SUFFICES ASSUME NEW k \in Wanted(cmd.args), ~HasRows(k)'
               PROVE  Steps("score", {k}) \subseteq todo'
    OBVIOUS
  <2>1. [do |-> "score", on |-> k] \in todo
    BY <1>1 DEF Benched, Steps
  <2>2. [do |-> "score", on |-> k] # Due
    OBVIOUS
  <2> QED BY <2>1, <2>2 DEF Steps
<1>5. Benched'
  BY <1>1, <1>2, <1>3, <1>4 DEF Benched
<1> QED BY <1>1, <1>5 DEF Work

LEMMA QBenchStep ==
    ASSUME ScoreInv, NEW a \in Series, NEW mismatch \in BOOLEAN, QBench(a, mismatch)
    PROVE  ScoreInv'
PROOF
<1>1. /\ cmd = Idle /\ cmd.op = "none" /\ todo = {} /\ ~fetched
      /\ UNCHANGED <<trace, dir, base, qb, refinfo, logits, card, fetched, original, hub>>
  BY DEF ScoreInv, Work, QBench, Fails, Start, Ready, Idle, Allowed
<1>2. sampled' \in [ToSet(Slices) -> 0 .. MaxVersion] /\ thresholds' \subseteq Thr
  <2>1. thresholds' \subseteq a.thrs \cup thresholds
    BY DEF QBench
  <2>2. thresholds' \subseteq Thr
    BY <2>1, ScoreAssumption DEF ScoreInv, ScoreTypes
  <2>3. sampled' = sampled \/ sampled' = [sampled EXCEPT ![a.sample] = trace[a.sample]]
    BY DEF QBench
  <2>4. a.sample \in ToSet(Slices) => trace[a.sample] \in 0 .. MaxVersion
    BY DEF ScoreInv, ScoreTypes
  <2> QED BY <2>2, <2>3, <2>4 DEF ScoreInv, ScoreTypes
<1>3. \/ UNCHANGED <<cmd, todo>>
      \/ /\ cmd' = [op |-> "qbench", args |-> a] /\ ~Unknown(a)
         /\ todo' = Once("reference") \cup Steps("score", Wanted(a))
                     \cup (IF a.parity = {} THEN {} ELSE Steps("parity", Wanted(a)))
                     \cup Once("prune")
         /\ sampled' = IF a.sample # None /\ sampled[a.sample] = 0
                       THEN [sampled EXCEPT ![a.sample] = trace[a.sample]] ELSE sampled
  BY DEF QBench, Fails, Start
<1>4. cmd'.op \in {"none", "qbench"} /\ ScoreTypes'
  <2>1. cmd' \in {Idle} \cup {[op |-> "qbench", args |-> b] : b \in Series}
        /\ cmd'.op \in {"none", "qbench"}
    BY <1>1, <1>3 DEF Idle
  <2> QED BY <1>1, <1>2, <2>1 DEF ScoreInv, ScoreTypes
<1>5. Work'
  <2>1. CASE UNCHANGED <<cmd, todo>>
    BY <1>1, <2>1 DEF Work
  <2>2. CASE ~UNCHANGED <<cmd, todo>>
    <3>1. cmd'.op = "qbench" /\ cmd'.args = a /\ Wanted(cmd.args)' = Wanted(a)
      BY <1>1, <1>3, <2>2 DEF Wanted, Asked, Keys
    <3>2. a.sample \in ToSet(Slices) => sampled'[a.sample] # 0
      <4>1. SUFFICES ASSUME a.sample \in ToSet(Slices) PROVE sampled'[a.sample] # 0
        OBVIOUS
      <4>2. a.sample # None
        BY <4>1, ScoredSlices
      <4>3. trace[a.sample] # 0
        BY <1>3, <2>2, <4>2 DEF Unknown
      <4>4. CASE sampled[a.sample] = 0
        BY <1>3, <2>2, <4>1, <4>2, <4>3, <4>4 DEF ScoreInv, ScoreTypes
      <4>5. CASE sampled[a.sample] # 0
        BY <1>3, <2>2, <4>2, <4>5
      <4> QED BY <4>4, <4>5
    <3>3. \A s \in todo' : s = [do |-> s.do, on |-> s.on]
      BY <1>3, <2>2 DEF Once, Steps
    <3>4. \A s \in todo' : <<s.do, s.on>> \in BenchSteps'
      BY <1>3, <2>2, <3>1 DEF Once, Steps, BenchSteps
    <3>5. \A k \in Wanted(a) : Steps("score", {k}) \subseteq todo'
      BY <1>3, <2>2 DEF Steps
    <3>6. Benched'
      BY <1>1, <3>1, <3>2, <3>4, <3>5 DEF Benched
    <3> QED BY <3>1, <3>3, <3>6 DEF Work
  <2> QED BY <2>1, <2>2
<1> QED
  BY <1>1, <1>4, <1>5, SameDirs, SameScores, SamePublished, SameReference DEF ScoreInv
LEMMA MovedStale ==
    ASSUME ScoreTypes, card' = Moved
    PROVE  card' \in Maybe(CardOf) /\ CardFresh'
PROOF
<1>1. CASE card = None
  BY <1>1 DEF Moved, Maybe, CardFresh
<1>2. CASE card # None
  <2>1. card' = [card EXCEPT !.fresh = FALSE] /\ card \in CardOf
    BY <1>2 DEF Moved, ScoreTypes, Maybe
  <2>2. card' \in CardOf /\ card'.fresh = FALSE
    BY <2>1 DEF CardOf
  <2> QED BY <2>2 DEF Maybe, CardFresh
<1> QED BY <1>1, <1>2

LEMMA ArmsTyped ==
    ASSUME NEW a \in Series
    PROVE  /\ Baselines(a) \subseteq Rev
           /\ \A k : Arms(a, k) \subseteq Label
           /\ \A k : \A l \in Arms(a, k) : l.kind # "parity"
           /\ Labels("parity", a.parity) \subseteq Label
           /\ \A l \in Labels("parity", a.parity) : l.kind = "parity"
PROOF
<1>1. /\ Revisions(a) \subseteq Rev /\ Baselines(a) \subseteq Rev
      /\ a.refs \subseteq Ref /\ a.thrs \subseteq Thr /\ a.parity \subseteq Ref
  BY ScoreAssumption DEF Revisions, Baselines, Complete, Rungs
<1>2. /\ Labels("rev", Revisions(a)) \subseteq Label /\ Labels("ref", a.refs) \subseteq Label
      /\ Labels("thr", a.thrs) \subseteq Label /\ Labels("base", Baselines(a)) \subseteq Label
      /\ Labels("parity", a.parity) \subseteq Label
  BY <1>1, LabelSets
<1>3. \A k : Arms(a, k) \subseteq Label
  BY <1>2 DEF Arms
<1>4. \A k : \A l \in Arms(a, k) : l.kind # "parity"
  BY DEF Arms, Labels
<1> QED BY <1>1, <1>2, <1>3, <1>4 DEF Labels

LEMMA RecordReferenceStep ==
    ASSUME ScoreInv, RecordReference
    PROVE  ScoreInv'
PROOF
<1> DEFINE a == cmd.args
<1>1. /\ todo # {} /\ Due.do \in BenchDo /\ Due.do = "reference" /\ todo' = todo \ {Due}
      /\ UNCHANGED <<trace, sampled, dir, base, qb, thresholds, logits, fetched, original, hub>>
      /\ UNCHANGED cmd /\ card' = Moved
  BY DEF RecordReference, At, Onward, BenchDo
<1>2. cmd.op = "qbench" /\ ~fetched /\ a \in Series
  BY <1>1, DueStep DEF ScoreInv, Benched, ScoreTypes, Idle
<1>3. refinfo' \in Maybe(Info)
  <2>1. a.refs \subseteq Ref /\ Baselines(a) \subseteq Rev
    BY <1>2, ArmsTyped, ScoreAssumption
  <2>2. CASE refinfo' = refinfo
    BY <2>2 DEF ScoreInv, ScoreTypes
  <2>3. CASE refinfo' = [refs |-> a.refs, base |-> Baselines(a)]
    BY <2>1, <2>3 DEF Info, Maybe
  <2>4. CASE refinfo # None /\ refinfo' = [refinfo EXCEPT !.refs = @ \cup a.refs]
    BY <2>1, <2>4 DEF Info, Maybe, ScoreInv, ScoreTypes
  <2> QED BY <2>2, <2>3, <2>4 DEF RecordReference, Recorded
<1>4. ScoreTypes' /\ CardFresh'
  BY <1>1, <1>3, MovedStale DEF ScoreInv, ScoreTypes
<1>5. Work'
  <2>1. \A k : HasRows(k) => HasRows(k)'
    BY <1>1, BenchSame DEF HasRows
  <2>2. \A k : Due # [do |-> "score", on |-> k]
    BY <1>1
  <2> QED BY <1>1, <2>1, <2>2, BenchOnward DEF ScoreInv
<1>6. ReferenceFetched'
  BY <1>1, <1>2 DEF ScoreInv, ReferenceFetched
<1> QED BY <1>1, <1>4, <1>5, <1>6, SameDirs, SamePublished DEF ScoreInv

\* The rows that a slice has when its arms were scored.
LEMMA NewRows ==
    ASSUME NEW old, old # None => IsResults(old), NEW D \in SUBSET Label,
           NEW v \in 1 .. MaxVersion, NEW new, new = [ref |-> v, rows |-> [l \in D |-> v]],
           NEW res \in {new, Merged(old, new)}
    PROVE  /\ IsResults(res) /\ res # None
           /\ \A l \in D : l \in DOMAIN res.rows /\ res.rows[l] = v
           /\ res = Merged(old, new) => KeptBut(D, old, res)
PROOF
<1>1. IsResults(new) /\ new # None
  BY RowsTyped, ResultsThere
<1>2. CASE old = None
  BY <1>1, <1>2 DEF Merged, KeptBut, Labelled
<1>3. CASE old # None /\ res = Merged(old, new)
  <2> DEFINE f == Replacing(new.rows, old.rows)
  <2>1. IsResults(old) /\ res = [ref |-> old.ref, rows |-> f]
    BY <1>3 DEF Merged, IsResults
  <2>2. /\ DOMAIN f = D \cup DOMAIN old.rows
        /\ \A l \in D : f[l] = v
        /\ \A l \in DOMAIN old.rows \ D : f[l] = old.rows[l]
        /\ f = [l \in D \cup DOMAIN old.rows |-> f[l]]
    BY DEF Replacing
  <2>3. f \in [D \cup DOMAIN old.rows -> 1 .. MaxVersion] /\ D \cup DOMAIN old.rows \subseteq Label
    BY <2>1, <2>2 DEF IsResults
  <2>4. IsResults(res) /\ res # None
    BY <2>1, <2>3, RowsTyped, ResultsThere DEF IsResults
  <2>5. KeptBut(D, old, res)
    BY <1>3, <2>1, <2>2, <2>4 DEF KeptBut, Labelled
  <2> QED BY <2>1, <2>2, <2>4, <2>5
<1>4. CASE old # None /\ res # Merged(old, new)
  BY <1>1, <1>4
<1> QED BY <1>2, <1>3, <1>4
LEMMA ScoreSliceStep ==
    ASSUME ScoreInv, ScoreSlice
    PROVE  /\ ScoreInv'
           /\ \A j \in Key \ Wanted(cmd.args) : qb'[j] = qb[j]
           /\ cmd.args.revisions # None =>
                \A j \in Key : KeptBut(Own(cmd.args, j), qb[j], qb'[j])
PROOF
<1> DEFINE a == cmd.args
           k == Due.on
           new == [ref |-> Version(k), rows |-> [l \in Arms(a, k) |-> Version(k)]]
<1>1. /\ todo # {} /\ Due.do \in BenchDo /\ Due.do = "score"
      /\ logits' \in Cached(Entry(k))
      /\ UNCHANGED <<trace, sampled, dir, base, refinfo, thresholds, fetched, original, hub>>
  BY DEF ScoreSlice, At, BenchDo
<1>2. /\ cmd.op = "qbench" /\ ~fetched /\ Benched /\ a \in Series /\ k \in Wanted(a)
      /\ Due = [do |-> "score", on |-> k]
  BY <1>1, DueStep DEF ScoreInv, Benched, ScoreTypes, Idle
<1>3. k \in Key /\ Version(k) \in 1 .. MaxVersion /\ Arms(a, k) \in SUBSET Label
  BY <1>2, WantedKeys, VersionThere, ArmsTyped DEF ScoreInv, Benched
<1>4. logits' \subseteq [key : Key, of : 1 .. MaxVersion]
  <2>1. PICK some \in SUBSET logits : logits' = some \cup {Entry(k)}
    BY <1>1 DEF Cached
  <2> QED BY <1>3, <2>1 DEF Entry, ScoreInv, ScoreTypes
<1>5. CASE Halt /\ UNCHANGED <<qb, card, spent>>
  <2>1. cmd' = Idle /\ todo' = {} /\ UNCHANGED <<qb, card>> /\ cmd'.op = "none"
    BY <1>5 DEF Halt, Idle
  <2>2. ScoreTypes'
    BY <1>1, <1>4, <2>1 DEF ScoreInv, ScoreTypes
  <2>3. Work'
    BY <2>1 DEF Work
  <2> QED
    BY <1>1, <1>2, <2>1, <2>2, <2>3, SameDirs, SameScores, SamePublished, SameReference
    DEF ScoreInv, KeptBut
<1>6. CASE /\ qb' = [qb EXCEPT ![k] = IF a.revisions = None THEN new ELSE Merged(@, new)]
           /\ card' = Moved /\ Onward
  <2>1. todo' = todo \ {Due} /\ UNCHANGED cmd
    BY <1>6 DEF Onward
  <2>2. PICK res : /\ res = IF a.revisions = None THEN new ELSE Merged(qb[k], new)
                   /\ qb' = [qb EXCEPT ![k] = res]
    BY <1>6
  <2>3. qb[k] # None => IsResults(qb[k])
    BY <1>3 DEF ScoreInv, ScoreTypes
  <2>4. /\ IsResults(res) /\ res # None
        /\ \A l \in Arms(a, k) : l \in DOMAIN res.rows /\ res.rows[l] = Version(k)
        /\ a.revisions # None => KeptBut(Arms(a, k), qb[k], res)
        /\ a.revisions = None => res.ref = Version(k)
    BY <1>3, <2>2, <2>3, NewRows
  <2>5. /\ qb' = [j \in Key |-> qb'[j]] /\ qb'[k] = res
        /\ \A j \in Key : j # k => qb'[j] = qb[j]
    BY <1>3, <2>2 DEF ScoreInv, ScoreTypes
  <2>6. ScoreTypes' /\ CardFresh'
    BY <1>1, <1>4, <1>6, <2>1, <2>4, <2>5, MovedStale DEF ScoreInv, ScoreTypes
  <2>7. Wanted(a)' = Wanted(a) /\ \A j : Arms(a, j)' = Arms(a, j) /\ Version(j)' = Version(j)
    BY <1>1, <2>1, BenchSame
  <2>8. ASSUME NEW j \in Wanted(a), HasRows(j) \/ j = k PROVE HasRows(j)'
    <3>1. CASE j = k
      BY <2>1, <2>4, <2>5, <2>7, <3>1 DEF HasRows
    <3>2. CASE j # k
      BY <2>1, <2>5, <2>7, <2>8, <3>2, WantedKeys DEF HasRows
    <3> QED BY <3>1, <3>2
  <2>9. \A j \in Wanted(a) : Due = [do |-> "score", on |-> j] => HasRows(j)'
    BY <2>8
  <2>10. Work'
    BY <1>1, <2>1, <2>8, <2>9, BenchOnward DEF ScoreInv
  <2>11. a.revisions # None => \A j \in Key : KeptBut(Own(a, j), qb[j], qb'[j])
    BY <2>4, <2>5 DEF KeptBut, Own
  <2>12. \A j \in Key \ Wanted(a) : qb'[j] = qb[j]
    BY <1>2, <2>5
  <2> QED
    BY <1>1, <2>1, <2>6, <2>10, <2>11, <2>12, SameDirs, SamePublished, SameReference DEF ScoreInv
<1> QED BY <1>5, <1>6 DEF ScoreSlice

LEMMA ScoreParityStep ==
    ASSUME ScoreInv, ScoreParity
    PROVE  /\ ScoreInv'
           /\ \A j \in Key \ Wanted(cmd.args) : qb'[j] = qb[j]
           /\ \A j \in Key : KeptBut(Own(cmd.args, j), qb[j], qb'[j])
PROOF
<1> DEFINE a == cmd.args
           k == Due.on
           add == [l \in Labels("parity", a.parity) |-> Version(k)]
<1>1. /\ todo # {} /\ Due.do \in BenchDo /\ Due.do = "parity"
      /\ todo' = todo \ {Due} /\ UNCHANGED cmd
      /\ UNCHANGED <<trace, sampled, dir, base, refinfo, thresholds, logits, card, fetched,
                     original, hub>>
      /\ qb' = qb \/ qb' = [qb EXCEPT ![k].rows = Replacing(add, @)]
  BY DEF ScoreParity, At, Onward, BenchDo
<1>2. /\ cmd.op = "qbench" /\ ~fetched /\ Benched /\ a \in Series /\ k \in Wanted(a)
      /\ \A t \in todo : Stage[Due.do] <= Stage[t.do]
  BY <1>1, DueStep DEF ScoreInv, Benched, ScoreTypes, Idle
<1>3. k \in Key /\ Version(k) \in 1 .. MaxVersion
  BY <1>2, WantedKeys, VersionThere DEF ScoreInv, Benched
<1>4. HasRows(k)
  <2>1. [do |-> "score", on |-> k] \notin todo
    BY <1>1, <1>2, StageValues
  <2> QED BY <1>2, <2>1 DEF Benched, Steps
<1>5. IsResults(qb[k])
  BY <1>3, <1>4 DEF HasRows, ScoreInv, ScoreTypes
<1>6. CASE qb' = qb
  <2>1. \A j : HasRows(j) => HasRows(j)'
    BY <1>1, <1>6, BenchSame DEF HasRows
  <2>2. \A j : Due # [do |-> "score", on |-> j]
    BY <1>1
  <2>3. Work'
    BY <1>1, <2>1, <2>2, BenchOnward DEF ScoreInv
  <2>4. ScoreTypes'
    BY <1>1, <1>6 DEF ScoreInv, ScoreTypes
  <2> QED
    BY <1>1, <1>6, <2>3, <2>4, SameDirs, SameScores, SamePublished, SameReference
    DEF ScoreInv, KeptBut
<1>7. CASE qb' = [qb EXCEPT ![k].rows = Replacing(add, @)]
  <2> DEFINE f == Replacing(add, qb[k].rows)
  <2>1. /\ DOMAIN f = Labels("parity", a.parity) \cup DOMAIN qb[k].rows
        /\ \A l \in DOMAIN qb[k].rows : l \notin Labels("parity", a.parity) => f[l] = qb[k].rows[l]
        /\ \A l \in Labels("parity", a.parity) : f[l] = Version(k)
        /\ f = [l \in Labels("parity", a.parity) \cup DOMAIN qb[k].rows |-> f[l]]
    BY DEF Replacing
  <2>2. DOMAIN f \subseteq Label /\ f \in [DOMAIN f -> 1 .. MaxVersion]
    BY <1>2, <1>3, <1>5, <2>1, ArmsTyped DEF IsResults
  <2> HIDE DEF f
  <2>3. /\ qb' = [j \in Key |-> qb'[j]] /\ qb'[k] = [ref |-> qb[k].ref, rows |-> f]
        /\ \A j \in Key : j # k => qb'[j] = qb[j]
    BY <1>3, <1>5, <1>7 DEF f, ScoreInv, ScoreTypes, IsResults
  <2>4. qb'[k].rows = f /\ qb'[k].ref = qb[k].ref
    BY <2>3
  <2>5. IsResults(qb'[k]) /\ qb'[k] # None
    <3>1. IsResults([ref |-> qb[k].ref, rows |-> f])
      BY <1>5, <2>2, RowsTyped DEF IsResults
    <3> QED BY <2>3, <3>1, ResultsThere
  <2>6. ScoreTypes'
    BY <1>1, <2>3, <2>5 DEF ScoreInv, ScoreTypes
  <2>7. /\ \A j \in Key : Labelled(qb[j]) \subseteq Labelled(qb'[j])
        /\ \A j \in Key : qb'[j] # None => qb[j] # None
    BY <1>4, <2>1, <2>3, <2>5 DEF Labelled, HasRows
  <2>8. \A j \in Key : KeptBut(Own(a, j), qb[j], qb'[j])
    <3> SUFFICES ASSUME NEW j \in Key PROVE KeptBut(Own(a, j), qb[j], qb'[j])
      OBVIOUS
    <3>1. CASE j = k
      <4>1. Labelled(qb[k]) = DOMAIN qb[k].rows /\ Labelled(qb'[k]) = DOMAIN f
        BY <1>4, <2>3, <2>5 DEF Labelled, HasRows
      <4>2. \A l \in DOMAIN qb[k].rows : l \in DOMAIN f /\ (l \in Own(a, k) \/ f[l] = qb[k].rows[l])
        BY <2>1 DEF Own
      <4> QED BY <2>4, <3>1, <4>1, <4>2 DEF KeptBut
    <3>2. CASE j # k
      BY <2>3, <3>2 DEF KeptBut
    <3> QED BY <3>1, <3>2
  <2>9. \A j \in Key \ Wanted(a) : qb'[j] = qb[j]
    BY <1>2, <2>3
  <2>10. CardFresh'
    <3>1. \A sl \in Composite : Full(sl) \in Key
      BY ScoredSlices, ScoreAssumption DEF Full, Key
    <3> QED BY <1>1, <2>7, <3>1 DEF ScoreInv, CardFresh
  <2>11. Wanted(a)' = Wanted(a) /\ \A j : Arms(a, j)' = Arms(a, j) /\ Version(j)' = Version(j)
    BY <1>1, BenchSame
  <2>12. ASSUME NEW j \in Wanted(a), HasRows(j) PROVE HasRows(j)'
    <3>1. CASE j = k
      <4>1. \A l \in Arms(a, k) : l \notin Labels("parity", a.parity)
        BY <1>2, ArmsTyped
      <4>2. \A l \in Arms(a, k) : l \in DOMAIN f /\ f[l] = Version(k)
        BY <1>4, <2>1, <4>1 DEF HasRows
      <4>3. a.revisions = None => qb'[k].ref = Version(k)
        BY <1>4, <2>4 DEF HasRows
      <4> QED BY <1>1, <2>5, <2>11, <2>4, <3>1, <4>2, <4>3 DEF HasRows
    <3>2. CASE j # k
      BY <1>1, <2>3, <2>11, <2>12, <3>2, WantedKeys DEF HasRows
    <3> QED BY <3>1, <3>2
  <2>13. \A j : Due # [do |-> "score", on |-> j]
    BY <1>1
  <2>14. Work'
    BY <1>1, <2>12, <2>13, BenchOnward DEF ScoreInv
  <2> QED
    BY <1>1, <2>6, <2>10, <2>14, <2>8, <2>9, SameDirs, SamePublished, SameReference DEF ScoreInv
<1> QED BY <1>1, <1>6, <1>7

LEMMA PruneStep ==
    ASSUME ScoreInv, Prune
    PROVE  ScoreInv'
PROOF
<1>1. /\ todo # {} /\ Due.do \in BenchDo /\ Due.do = "prune" /\ logits' \subseteq logits
      /\ todo' = todo \ {Due} /\ UNCHANGED cmd
      /\ UNCHANGED <<trace, sampled, dir, base, results, card, fetched, original, hub>>
  BY DEF Prune, At, Onward, BenchDo
<1>2. \A j : HasRows(j) => HasRows(j)'
  BY <1>1, BenchSame DEF HasRows, results
<1>3. \A j : Due # [do |-> "score", on |-> j]
  BY <1>1
<1>4. Work'
  BY <1>1, <1>2, <1>3, BenchOnward DEF ScoreInv
<1>5. ScoreTypes'
  BY <1>1 DEF ScoreInv, ScoreTypes, results
<1> QED
  BY <1>1, <1>4, <1>5, SameDirs, SameScores, SamePublished, SameReference DEF ScoreInv, results
LEMMA CardStep ==
    ASSUME ScoreInv, Card
    PROVE  ScoreInv'
PROOF
<1>1. /\ cmd.op = "none" /\ todo = {}
      /\ UNCHANGED <<trace, sampled, dir, base, results, logits, fetched, original, hub, cmd, todo>>
  BY DEF ScoreInv, Work, Card, Ready, Idle
<1>2. CASE UNCHANGED card
  <2>1. ScoreTypes' /\ Work'
    BY <1>1, <1>2 DEF ScoreInv, ScoreTypes, Work, results
  <2> QED
    BY <1>1, <1>2, <2>1, SameDirs, SameScores, SamePublished, SameReference
    DEF ScoreInv, results
<1>3. CASE card' = [revs |-> CardRevs, refs |-> CardRefs, fresh |-> TRUE]
  <2>1. CardRevs \subseteq Rev /\ CardRefs \subseteq Ref
    BY DEF CardRevs, CardRefs, Complete, ScoreInv, ScoreTypes, Maybe, Info
  <2>2. card' \in CardOf
    BY <1>3, <2>1 DEF CardOf
  <2>3. ScoreTypes' /\ Work'
    BY <1>1, <2>2 DEF ScoreInv, ScoreTypes, Work, Maybe, results
  <2>4. CardFresh'
    <3>1. /\ CardRefs # {} => refinfo # None
          /\ refinfo # None => CardRefs \subseteq refinfo.refs
      BY DEF CardRefs
    <3>2. ASSUME NEW sl \in Composite
          PROVE  Labels("ref", CardRefs) \subseteq Labelled(qb[Full(sl)])
      <4> SUFFICES ASSUME NEW f \in CardRefs
                   PROVE  [kind |-> "ref", of |-> f] \in Labelled(qb[Full(sl)])
        BY DEF Labels
      <4>1. sl \in Shown /\ HasRow([kind |-> "ref", of |-> f], sl)
        BY DEF CardRefs
      <4> QED BY <4>1 DEF Shown, HasRow, Labelled
    <3>3. ASSUME NEW sl \in Composite, qb[Full(sl)] # None
          PROVE  Labels("rev", CardRevs) \subseteq Labelled(qb[Full(sl)])
      <4> SUFFICES ASSUME NEW r \in CardRevs
                   PROVE  [kind |-> "rev", of |-> r] \in Labelled(qb[Full(sl)])
        BY DEF Labels
      <4>1. sl \in Shown
        BY <3>3, ScoredSlices, ScoreAssumption DEF Shown
      <4>2. HasRow([kind |-> "rev", of |-> r], sl)
        BY <4>1 DEF CardRevs
      <4> QED BY <3>3, <4>2 DEF HasRow, Labelled
    <3>4. UNCHANGED <<qb, refinfo>> /\ card'.refs = CardRefs /\ card'.revs = CardRevs
      BY <1>1, <1>3 DEF results
    <3>5. \A q : Labelled(q)' = Labelled(q)
      BY DEF Labelled
    <3> QED BY <3>1, <3>2, <3>3, <3>4, <3>5 DEF CardFresh
  <2> QED
    BY <1>1, <2>3, <2>4, SameDirs, SamePublished, SameReference DEF ScoreInv, results
<1> QED BY <1>2, <1>3 DEF Card

(***************************************************************************)
(* upload                                                                   *)
(***************************************************************************)
LEMMA UploadStep ==
    ASSUME ScoreInv, NEW uncalibrated \in BOOLEAN, Upload(uncalibrated)
    PROVE  ScoreInv'
PROOF
<1>1. /\ cmd.op = "none" /\ todo = {}
      /\ UNCHANGED <<trace, sampled, dir, base, results, logits, card, fetched, original, hub>>
  BY DEF ScoreInv, Work, Upload, Fails, Start, Ready, Idle, local
<1>2. \/ UNCHANGED <<cmd, todo>>
      \/ /\ cmd' = [op |-> "upload"] /\ ~(uncalibrated /\ fetched)
         /\ todo' = (IF uncalibrated THEN Steps("rung", Rungs) ELSE {})
                    \cup (IF card = None THEN {} ELSE Once("main"))
                    \cup Steps("revision", Uploads)
  BY DEF Upload, Fails, Start
<1>3. cmd'.op \in {"none", "upload"} /\ ScoreTypes'
  BY <1>1, <1>2 DEF ScoreInv, ScoreTypes, Idle, results
<1>4. Work'
  <2>1. CASE UNCHANGED <<cmd, todo>>
    BY <1>1, <2>1 DEF Work
  <2>2. CASE ~UNCHANGED <<cmd, todo>>
    <3>1. \A s \in todo' :
            \/ s \in Steps("rung", Rungs) /\ uncalibrated
            \/ s \in Once("main") /\ card # None
            \/ s \in Steps("revision", Uploads)
      BY <1>2, <2>2
    <3>2. Rungs \subseteq Rev /\ Uploads \subseteq Rev /\ (Uploads # {} => ~fetched)
      BY DEF Rungs, Uploads, Complete
    <3>3. \A s \in todo' : s = [do |-> s.do, on |-> s.on]
      BY <3>1 DEF Once, Steps
    <3>4. UploadSteps'
      BY <1>1, <1>2, <2>2, <3>1, <3>2 DEF UploadSteps, Once, Steps
    <3> QED BY <1>2, <2>2, <3>3, <3>4 DEF Work
  <2> QED BY <2>1, <2>2
<1> QED
  BY <1>1, <1>3, <1>4, SameDirs, SameScores, SamePublished, SameReference DEF ScoreInv, results

LEMMA UploadOnward ==
    ASSUME ScoreInv, todo # {}, Due.do \in UploadDo, todo' = todo \ {Due},
           UNCHANGED <<cmd, card, fetched>>
    PROVE  Work'
PROOF
<1>1. cmd.op = "upload" /\ UploadSteps
  BY DueStep DEF ScoreInv
<1> QED BY <1>1 DEF Work, UploadSteps, ScoreInv

\* The rows that are published are results, and the references the card is
\* rendered from are among them.
LEMMA StagedTyped ==
    ASSUME ScoreTypes, NEW q, q # None => IsResults(q)
    PROVE  /\ q = None => StagedRows(q) = None
           /\ q # None => /\ IsResults(StagedRows(q)) /\ StagedRows(q) # None
                         /\ \A l \in DOMAIN q.rows :
                               l.kind = "rev" \/ Staged = None \/ l.of \in Staged.refs
                                 => l \in DOMAIN StagedRows(q).rows
PROOF
<1>1. q = None => StagedRows(q) = None
  BY DEF StagedRows
<1>2. CASE q # None /\ Staged = None
  BY <1>2 DEF StagedRows
<1>3. CASE q # None /\ Staged # None
  <2> DEFINE D == Kept(q.rows, Staged.refs)
             f == [l \in D |-> q.rows[l]]
  <2>1. D \subseteq DOMAIN q.rows
    BY DEF Kept
  <2>2. StagedRows(q) = [ref |-> q.ref, rows |-> f]
    BY <1>3 DEF StagedRows, IsResults
  <2>3. D \subseteq Label /\ f \in [D -> 1 .. MaxVersion] /\ q.ref \in 1 .. MaxVersion
    BY <1>3, <2>1 DEF IsResults
  <2>4. IsResults(StagedRows(q))
    BY <2>2, <2>3, RowsTyped
  <2>5. \A l \in DOMAIN q.rows : l.kind = "rev" \/ l.of \in Staged.refs => l \in D
    BY DEF Kept
  <2>6. DOMAIN StagedRows(q).rows = D
    BY <2>2
  <2> QED BY <1>3, <2>4, <2>5, <2>6, ResultsThere
<1> QED BY <1>1, <1>2, <1>3
LEMMA UploadMainStep ==
    ASSUME ScoreInv, UploadMain
    PROVE  ScoreInv'
PROOF
<1> DEFINE new == [qb |-> [sl \in ToSet(Scored) |-> StagedRows(qb[Full(sl)])],
                   refinfo |-> Staged, card |-> card]
<1>1. /\ todo # {} /\ Due.do \in UploadDo /\ Due.do = "main" /\ todo' = todo \ {Due}
      /\ UNCHANGED <<cmd, local>> /\ hub' = [hub EXCEPT !.main = new]
  BY DEF UploadMain, At, Onward, UploadDo
<1>2. UNCHANGED <<trace, sampled, dir, base, qb, refinfo, thresholds, logits, card, fetched,
                  original>>
  BY <1>1 DEF local, results
<1>3. hub' = [main |-> new, rev |-> hub.rev, base |-> hub.base]
  BY <1>1 DEF ScoreInv, ScoreTypes
<1> HIDE DEF new
<1>4. /\ hub'.main = new /\ UNCHANGED <<hub.rev, hub.base>>
      /\ hub' = [main |-> hub'.main, rev |-> hub'.rev, base |-> hub'.base]
  BY <1>3
<1>5. card \in CardOf
  BY <1>1, DueStep DEF ScoreInv, UploadSteps, ScoreTypes, Maybe
<1>6. ASSUME NEW sl \in ToSet(Scored) PROVE qb[Full(sl)] # None => IsResults(qb[Full(sl)])
  <2>1. Full(sl) \in Key
    BY DEF Full, Key
  <2> QED BY <2>1 DEF ScoreInv, ScoreTypes
<1>7. IsMain(new)
  <2>1. Staged \in Maybe(Info)
    BY DEF Staged, ScoreInv, ScoreTypes
  <2>2. \A sl \in ToSet(Scored) : new.qb[sl] # None => IsResults(new.qb[sl])
    BY <1>6, StagedTyped DEF new, ScoreInv
  <2> QED BY <1>5, <2>1, <2>2 DEF new, IsMain
<1>8. ScoreTypes'
  BY <1>1, <1>2, <1>4, <1>7 DEF ScoreInv, ScoreTypes
<1>9. ASSUME FetchEnds PROVE PublishedMatchesCard'
  <2> SUFFICES ASSUME card.fresh, NEW sl \in Composite
               PROVE  LET rows == Labelled(new.qb[sl])
                      IN  /\ Labels("ref", card.refs) \subseteq rows
                          /\ new.qb[sl] # None => Labels("rev", card.revs) \subseteq rows
    <3>1. new.card = card /\ \A q : Labelled(q)' = Labelled(q)
      BY DEF new, Labelled
    <3> QED BY <1>4, <3>1 DEF PublishedMatchesCard, Labelled
  <2> DEFINE q == qb[Full(sl)]
  <2>1. sl \in ToSet(Scored) /\ new.qb[sl] = StagedRows(q)
    BY ScoredSlices, ScoreAssumption DEF new
  <2>2. /\ card.refs # {} => refinfo # None /\ card.refs \subseteq refinfo.refs
        /\ Labels("ref", card.refs) \subseteq Labelled(q)
        /\ q # None => Labels("rev", card.revs) \subseteq Labelled(q)
    <3>1. card # None
      BY <1>1, DueStep DEF ScoreInv, UploadSteps
    <3> QED BY <3>1 DEF ScoreInv, CardFresh
  <2>3. /\ q # None => IsResults(q)
        /\ q = None => StagedRows(q) = None
        /\ q # None => StagedRows(q) # None
             /\ \A l \in DOMAIN q.rows :
                   l.kind = "rev" \/ Staged = None \/ l.of \in Staged.refs
                     => l \in DOMAIN StagedRows(q).rows
    BY <1>6, <2>1, StagedTyped DEF ScoreInv
  <2>4. card.refs # {} => Staged # None /\ card.refs \subseteq Staged.refs
    BY <1>9, <2>2 DEF Staged, ScoreInv, ReferenceFetched
  <2>5. ASSUME NEW f \in card.refs PROVE [kind |-> "ref", of |-> f] \in Labelled(StagedRows(q))
    <3>1. [kind |-> "ref", of |-> f] \in Labelled(q)
      BY <2>2 DEF Labels
    <3>2. q # None /\ [kind |-> "ref", of |-> f] \in DOMAIN q.rows
      BY <3>1 DEF Labelled
    <3>3. f \in Staged.refs
      BY <2>4
    <3> QED BY <2>3, <3>2, <3>3 DEF Labelled
  <2>6. ASSUME NEW r \in card.revs, q # None
        PROVE  [kind |-> "rev", of |-> r] \in Labelled(StagedRows(q))
    <3>1. [kind |-> "rev", of |-> r] \in Labelled(q)
      BY <2>2, <2>6 DEF Labels
    <3>2. [kind |-> "rev", of |-> r] \in DOMAIN q.rows
      BY <2>6, <3>1 DEF Labelled
    <3> QED BY <2>3, <2>6, <3>2 DEF Labelled
  <2> QED BY <2>1, <2>3, <2>5, <2>6 DEF Labels
<1>10. HubSound'
  BY <1>4, <1>9 DEF ScoreInv, HubSound, HubWhole
<1>11. ReferenceFetched'
  <2>1. hub'.main.refinfo = Staged /\ Staged' = Staged
    BY <1>2, <1>4 DEF new, Staged
  <2> QED BY <1>1, <1>2, <2>1 DEF ScoreInv, ReferenceFetched
<1>12. Work'
  BY <1>1, <1>2, UploadOnward
<1> QED
  BY <1>1, <1>2, <1>8, <1>10, <1>11, <1>12, SameDirs, SameScores DEF ScoreInv

LEMMA UploadRevisionStep ==
    ASSUME ScoreInv, UploadRevision
    PROVE  ScoreInv'
PROOF
<1> DEFINE r == Due.on
<1>1. /\ todo # {} /\ Due.do \in UploadDo /\ Due.do = "revision" /\ todo' = todo \ {Due}
      /\ UNCHANGED <<cmd, local>> /\ hub' = [hub EXCEPT !.rev[r] = dir[r]]
  BY DEF UploadRevision, At, Onward, UploadDo
<1>2. UNCHANGED <<trace, sampled, dir, base, qb, refinfo, thresholds, logits, card, fetched,
                  original>>
  BY <1>1 DEF local, results
<1>3. r \in Rev /\ ~fetched /\ cmd.op = "upload"
  BY <1>1, DueStep DEF ScoreInv, UploadSteps
<1>4. (FetchEnds => dir[r] # "stand-in") /\ dir[r] \in Holds
  BY <1>3 DEF ScoreInv, LocalWhole, ScoreTypes
<1>5. hub' = [main |-> hub.main, rev |-> [hub.rev EXCEPT ![r] = dir[r]], base |-> hub.base]
  BY <1>1 DEF ScoreInv, ScoreTypes
<1>6. /\ UNCHANGED <<hub.main, hub.base>> /\ hub'.rev = [hub.rev EXCEPT ![r] = dir[r]]
      /\ hub' = [main |-> hub'.main, rev |-> hub'.rev, base |-> hub'.base]
  BY <1>5
<1>7. hub'.rev \in [Rev -> Holds]
  BY <1>3, <1>4, <1>6 DEF ScoreInv, ScoreTypes
<1>8. ScoreTypes'
  BY <1>1, <1>2, <1>6, <1>7 DEF ScoreInv, ScoreTypes, IsMain
<1>9. HubSound'
  BY <1>3, <1>4, <1>6 DEF ScoreInv, ScoreTypes, HubSound, HubWhole, PublishedMatchesCard, Range
<1>10. ReferenceFetched'
  BY <1>1, <1>2, <1>3, <1>6 DEF ScoreInv, ReferenceFetched, Staged
<1>11. Work'
  BY <1>1, <1>2, UploadOnward
<1> QED BY <1>1, <1>2, <1>8, <1>9, <1>10, <1>11, SameDirs, SameScores DEF ScoreInv

LEMMA UploadRungStep ==
    ASSUME ScoreInv, UploadRung
    PROVE  ScoreInv'
PROOF
<1> DEFINE r == Due.on
<1>1. /\ todo # {} /\ Due.do \in UploadDo /\ Due.do = "rung" /\ todo' = todo \ {Due}
      /\ UNCHANGED <<cmd, local>> /\ hub' = [hub EXCEPT !.base[r] = base[r]]
  BY DEF UploadRung, At, Onward, UploadDo
<1>2. UNCHANGED <<trace, sampled, dir, base, qb, refinfo, thresholds, logits, card, fetched,
                  original>>
  BY <1>1 DEF local, results
<1>3. r \in Rev /\ ~fetched /\ cmd.op = "upload"
  BY <1>1, DueStep DEF ScoreInv, UploadSteps
<1>4. (FetchEnds => base[r] # "stand-in") /\ base[r] \in Holds
  BY <1>3 DEF ScoreInv, LocalWhole, ScoreTypes
<1>5. hub' = [main |-> hub.main, rev |-> hub.rev, base |-> [hub.base EXCEPT ![r] = base[r]]]
  BY <1>1 DEF ScoreInv, ScoreTypes
<1>6. /\ UNCHANGED <<hub.main, hub.rev>> /\ hub'.base = [hub.base EXCEPT ![r] = base[r]]
      /\ hub' = [main |-> hub'.main, rev |-> hub'.rev, base |-> hub'.base]
  BY <1>5
<1>7. hub'.base \in [Rev -> Holds]
  BY <1>3, <1>4, <1>6 DEF ScoreInv, ScoreTypes
<1>8. ScoreTypes'
  BY <1>1, <1>2, <1>6, <1>7 DEF ScoreInv, ScoreTypes, IsMain
<1>9. HubSound'
  BY <1>3, <1>4, <1>6 DEF ScoreInv, ScoreTypes, HubSound, HubWhole, PublishedMatchesCard, Range
<1>10. ReferenceFetched'
  BY <1>1, <1>2, <1>3, <1>6 DEF ScoreInv, ReferenceFetched, Staged
<1>11. Work'
  BY <1>1, <1>2, UploadOnward
<1> QED BY <1>1, <1>2, <1>8, <1>9, <1>10, <1>11, SameDirs, SameScores DEF ScoreInv
(***************************************************************************)
(* fetch                                                                    *)
(***************************************************************************)
LEMMA FetchStep ==
    ASSUME ScoreInv, Fetch
    PROVE  ScoreInv'
PROOF
<1>1. /\ cmd.op = "none" /\ todo = {}
      /\ UNCHANGED <<trace, sampled, dir, base, results, logits, card, fetched, original, hub>>
  BY DEF ScoreInv, Work, Fetch, Fails, Start, Ready, Idle, local
<1>2. \/ UNCHANGED <<cmd, todo>>
      \/ /\ cmd' = [op |-> "fetch"] /\ hub.main # None
         /\ todo' = Once("results") \cup Steps("stand-in", Published)
                    \cup (IF hub.main.refinfo = None THEN {} ELSE Once("rewrite"))
                    \cup Once("mark")
  BY DEF Fetch, Fails, Start
<1>3. cmd'.op \in {"none", "fetch"} /\ ScoreTypes'
  BY <1>1, <1>2 DEF ScoreInv, ScoreTypes, IsMain, Idle, results
<1>4. Work'
  <2>1. CASE UNCHANGED <<cmd, todo>>
    BY <1>1, <2>1 DEF Work
  <2>2. CASE ~UNCHANGED <<cmd, todo>>
    <3>1. \A s \in todo' :
            \/ s \in Once("results") \cup Once("mark") \/ s \in Steps("stand-in", Published)
            \/ s \in Once("rewrite") /\ hub.main.refinfo # None
      BY <1>2, <2>2
    <3>2. \A s \in todo' : s = [do |-> s.do, on |-> s.on]
      BY <3>1 DEF Once, Steps
    <3>3. IsMain(hub.main) /\ Published \subseteq Rev
      BY <1>2, <2>2 DEF ScoreInv, ScoreTypes, Published
    <3>4. \A s \in todo' :
            /\ s.do \in {"results", "stand-in", "rewrite", "mark"}
            /\ s.do = "stand-in" => s.on \in Rev
            /\ s.do = "rewrite" => hub.main.refinfo # None
      BY <3>1, <3>3 DEF Once, Steps
    <3>5. Once("mark") \subseteq todo'
          /\ (hub.main.refinfo # None => Once("rewrite") \subseteq todo')
      BY <1>2, <2>2
    <3>6. FetchSteps'
      BY <1>1, <3>3, <3>4, <3>5 DEF FetchSteps, IsMain, Once, Steps
    <3> QED BY <1>2, <2>2, <3>2, <3>6 DEF Work
  <2> QED BY <2>1, <2>2
<1> QED
  BY <1>1, <1>3, <1>4, SameDirs, SameScores, SamePublished, SameReference DEF ScoreInv, results

LEMMA FetchOnward ==
    ASSUME ScoreInv, todo # {}, Due.do \in FetchDo, todo' = todo \ {Due}, UNCHANGED <<cmd, hub>>,
           fetched => fetched', Due.do = "mark" => fetched',
           original' = IF Due.do = "rewrite" THEN hub.main.refinfo ELSE original
    PROVE  Work' /\ cmd.op = "fetch" /\ FetchSteps
PROOF
<1>1. /\ cmd.op = "fetch" /\ FetchSteps /\ Due \in todo
      /\ Due = [do |-> Due.do, on |-> Due.on]
  BY DueStep DEF ScoreInv
<1>2. \A s \in todo' : s = [do |-> s.do, on |-> s.on] /\ s \in todo
  BY DEF ScoreInv, Work
<1>3. fetched' \/ Once("mark") \subseteq todo'
  BY <1>1 DEF FetchSteps, Once, Steps
<1>4. hub.main.refinfo # None =>
          Once("rewrite") \subseteq todo' \/ original' = hub.main.refinfo
  BY <1>1 DEF FetchSteps, Once, Steps
<1>5. FetchSteps'
  BY <1>1, <1>2, <1>3, <1>4 DEF FetchSteps, IsMain, Once, Steps
<1> QED BY <1>1, <1>2, <1>5 DEF Work

LEMMA FetchResultsStep ==
    ASSUME ScoreInv, FetchResults
    PROVE  ScoreInv'
PROOF
<1>1. /\ todo # {} /\ Due.do \in FetchDo /\ Due.do = "results" /\ todo' = todo \ {Due}
      /\ card' = Moved
      /\ UNCHANGED <<cmd, trace, sampled, dir, base, refinfo, thresholds, logits, fetched,
                     original, hub>>
  BY DEF FetchResults, At, Onward, FetchDo
<1>2. Work' /\ FetchSteps
  BY <1>1, FetchOnward
<1>3. /\ qb' = [k \in Key |-> qb'[k]]
      /\ \A k \in Key : qb'[k] # None => IsResults(qb'[k])
  <2>1. \A k \in Key : hub.main.qb[k.slice] # None => IsResults(hub.main.qb[k.slice])
    BY <1>2 DEF FetchSteps, IsMain, Key
  <2> QED BY <2>1 DEF FetchResults, ScoreInv, ScoreTypes
<1>4. ScoreTypes' /\ CardFresh'
  BY <1>1, <1>3, MovedStale DEF ScoreInv, ScoreTypes, IsMain
<1> QED BY <1>1, <1>2, <1>4, SameDirs, SamePublished, SameReference DEF ScoreInv

LEMMA FetchStandInStep ==
    ASSUME ScoreInv, FetchStandIn
    PROVE  ScoreInv'
PROOF
<1>1. /\ todo # {} /\ Due.do \in FetchDo /\ Due.do = "stand-in" /\ todo' = todo \ {Due}
      /\ dir' = [dir EXCEPT ![Due.on] = StandIn(@)]
      /\ UNCHANGED <<cmd, trace, sampled, base, results, logits, card, fetched, original, hub>>
  BY DEF FetchStandIn, At, Onward, FetchDo
<1>2. Work' /\ cmd.op = "fetch"
  BY <1>1, FetchOnward
<1>3. dir' \in [Rev -> Holds]
  BY <1>1 DEF ScoreInv, ScoreTypes, StandIn, Holds
<1>4. ScoreTypes' /\ LocalWhole'
  BY <1>1, <1>2, <1>3 DEF ScoreInv, ScoreTypes, IsMain, LocalWhole, results
<1> QED
  BY <1>1, <1>2, <1>4, SameScores, SamePublished, SameReference DEF ScoreInv, results

LEMMA RewriteReferenceStep ==
    ASSUME ScoreInv, RewriteReference
    PROVE  ScoreInv'
PROOF
<1> DEFINE info == hub.main.refinfo
           stands == info.base \cap Published
<1>1. /\ todo # {} /\ Due.do \in FetchDo /\ Due.do = "rewrite" /\ todo' = todo \ {Due}
      /\ card' = Moved /\ original' = info /\ refinfo' = [info EXCEPT !.base = stands]
      /\ base' = [r \in Rev |-> IF r \in stands THEN StandIn(base[r]) ELSE base[r]]
      /\ UNCHANGED <<cmd, trace, sampled, dir, qb, thresholds, logits, fetched, hub>>
  BY DEF RewriteReference, At, Onward, FetchDo
<1>2. Work' /\ cmd.op = "fetch" /\ FetchSteps
  BY <1>1, FetchOnward
<1>3. info \in Info
  BY <1>1, <1>2, DueStep DEF ScoreInv, FetchSteps, IsMain, Maybe
<1>4. refinfo' \in Info /\ refinfo'.refs = info.refs
  BY <1>1, <1>3 DEF Info
<1>5. base' \in [Rev -> Holds]
  BY <1>1 DEF ScoreInv, ScoreTypes, StandIn, Holds
<1>6. ScoreTypes' /\ CardFresh'
  BY <1>1, <1>3, <1>4, <1>5, MovedStale DEF ScoreInv, ScoreTypes, IsMain, Maybe
<1>7. LocalWhole'
  BY <1>1, <1>2 DEF LocalWhole
<1>8. ReferenceFetched'
  BY <1>1, <1>2, <1>4 DEF ReferenceFetched, Staged
<1> QED BY <1>1, <1>2, <1>6, <1>7, <1>8, SamePublished DEF ScoreInv

LEMMA MarkFetchedStep ==
    ASSUME ScoreInv, MarkFetched
    PROVE  ScoreInv'
PROOF
<1>1. /\ todo # {} /\ Due.do \in FetchDo /\ Due.do = "mark" /\ todo' = todo \ {Due}
      /\ fetched' = TRUE
      /\ UNCHANGED <<cmd, trace, sampled, dir, base, results, logits, card, original, hub>>
  BY DEF MarkFetched, At, Onward, FetchDo
<1>2. Work' /\ cmd.op = "fetch" /\ FetchSteps
  BY <1>1, FetchOnward
<1>3. hub.main.refinfo # None => original = hub.main.refinfo
  <2>1. \A t \in todo : Stage["mark"] <= Stage[t.do]
    BY <1>1, DueStep DEF ScoreInv
  <2>2. [do |-> "rewrite", on |-> None] \notin todo
    BY <2>1, StageValues
  <2> QED BY <1>2, <2>2 DEF FetchSteps, Once, Steps
<1>4. ReferenceFetched'
  BY <1>1, <1>2, <1>3 DEF ScoreInv, ReferenceFetched, Staged, results
<1>5. ScoreTypes' /\ LocalWhole'
  BY <1>1 DEF ScoreInv, ScoreTypes, IsMain, LocalWhole, results
<1> QED BY <1>1, <1>2, <1>4, <1>5, SameScores, SamePublished DEF ScoreInv, results

(***************************************************************************)
(* What happens besides.                                                    *)
(***************************************************************************)
LEMMA ExitStep ==
    ASSUME ScoreInv, Exit
    PROVE  ScoreInv'
PROOF
<1>1. /\ todo = {} /\ cmd' = Idle /\ cmd'.op = "none" /\ UNCHANGED todo
      /\ UNCHANGED <<trace, sampled, dir, base, results, logits, card, fetched, original, hub>>
  BY DEF Exit, Idle, local
<1>2. cmd.op = "fetch" => fetched
  BY <1>1 DEF ScoreInv, Work, FetchSteps, Once, Steps
<1>3. ScoreTypes' /\ Work'
  BY <1>1 DEF ScoreInv, ScoreTypes, IsMain, Work, results
<1>4. LocalWhole'
  BY <1>1, <1>2 DEF ScoreInv, LocalWhole
<1> QED BY <1>1, <1>2, <1>3, <1>4, SameScores, SamePublished, SameReference DEF ScoreInv, results

LEMMA StopStep ==
    ASSUME ScoreInv, Stop
    PROVE  ScoreInv'
PROOF
<1>1. /\ FetchEnds => cmd.op # "fetch"
      /\ cmd' = Idle /\ cmd'.op = "none" /\ todo' = {}
      /\ UNCHANGED <<trace, sampled, dir, base, results, logits, card, fetched, original, hub>>
  BY DEF Stop, Halt, Idle, local, FetchEnds
<1>2. ScoreTypes' /\ Work'
  BY <1>1 DEF ScoreInv, ScoreTypes, IsMain, Work, results
<1>3. LocalWhole' /\ ReferenceFetched'
  BY <1>1 DEF ScoreInv, LocalWhole, ReferenceFetched, Staged, results
<1> QED BY <1>1, <1>2, <1>3, SameScores, SamePublished DEF ScoreInv, results

LEMMA EventStep ==
    ASSUME ScoreInv,
           (\E sl \in ToSet(Slices) : Retrace(sl)) \/ (\E r \in Rev : Converted(r)) \/ NewWorkdir
    PROVE  ScoreInv'
PROOF
<1>1. cmd.op = "none" /\ UNCHANGED <<cmd, todo, hub>>
  BY DEF Retrace, Converted, NewWorkdir, Idle
<1>2. Work'
  BY <1>1 DEF ScoreInv, Work
<1>3. ASSUME NEW sl \in ToSet(Slices), Retrace(sl) PROVE ScoreInv'
  <2>1. trace' = [trace EXCEPT ![sl] = @ + 1] /\ trace[sl] < MaxVersion
        /\ UNCHANGED <<sampled, dir, base, results, logits, card, fetched, original>>
    BY <1>3 DEF Retrace
  <2>2. trace' \in [ToSet(Slices) -> 0 .. MaxVersion]
    BY <2>1, ScoreAssumption DEF ScoreInv, ScoreTypes
  <2>3. ScoreTypes'
    BY <1>1, <2>1, <2>2 DEF ScoreInv, ScoreTypes, IsMain, results
  <2> QED
    BY <1>1, <1>2, <2>1, <2>3, SameDirs, SameScores, SamePublished, SameReference
    DEF ScoreInv, results
<1>4. ASSUME NEW r \in Rev, Converted(r) PROVE ScoreInv'
  <2>1. /\ dir' = [dir EXCEPT ![r] = "weights"] /\ base' = [base EXCEPT ![r] = "weights"]
        /\ UNCHANGED <<trace, sampled, results, logits, card, fetched, original>>
    BY <1>4 DEF Converted
  <2>2. ScoreTypes' /\ LocalWhole'
    BY <1>1, <2>1 DEF ScoreInv, ScoreTypes, IsMain, LocalWhole, Holds, results
  <2> QED
    BY <1>1, <1>2, <2>1, <2>2, SameScores, SamePublished, SameReference DEF ScoreInv, results
<1>5. CASE NewWorkdir
  <2>1. 0 \in 0 .. MaxVersion
    BY ScoreAssumption
  <2>2. ScoreTypes'
    BY <1>1, <1>5, <2>1 DEF NewWorkdir, NoResults, ScoreInv, ScoreTypes, IsMain, Holds, Maybe
  <2>3. LocalWhole' /\ CardFresh' /\ ReferenceFetched'
    BY <1>1, <1>5 DEF NewWorkdir, LocalWhole, CardFresh, ReferenceFetched
  <2> QED BY <1>1, <1>2, <2>2, <2>3, SamePublished DEF ScoreInv
<1> QED BY <1>3, <1>4, <1>5

LEMMA StutterStep ==
    ASSUME ScoreInv, UNCHANGED vars
    PROVE  ScoreInv'
PROOF
<1>1. /\ UNCHANGED <<cmd, todo>>
      /\ UNCHANGED <<trace, sampled, dir, base, results, logits, card, fetched, original, hub>>
  BY DEF vars, local
<1>2. ScoreTypes'
  BY <1>1 DEF ScoreInv, ScoreTypes, IsMain, results
<1>3. Wanted(cmd.args)' = Wanted(cmd.args) /\ \A k : HasRows(k)' = HasRows(k)
  BY <1>1, BenchSame DEF HasRows, results
<1>4. Work'
  BY <1>1, <1>3 DEF ScoreInv, Work, Benched, BenchSteps, UploadSteps, FetchSteps, IsMain
<1> QED
  BY <1>1, <1>2, <1>4, SameDirs, SameScores, SamePublished, SameReference DEF ScoreInv, results

LEMMA ScoreStep == ScoreInv /\ [Next]_vars => ScoreInv'
  BY QBenchStep, RecordReferenceStep, ScoreSliceStep, ScoreParityStep, PruneStep, CardStep,
     UploadStep, UploadMainStep, UploadRevisionStep, UploadRungStep, FetchStep,
     FetchResultsStep, FetchStandInStep, RewriteReferenceStep, MarkFetchedStep, ExitStep,
     StopStep, EventStep, StutterStep
  DEF Next

LEMMA ScoreAlways == Spec => []ScoreInv
  BY InitScore, ScoreStep, PTL DEF Spec

(***************************************************************************)
(* What follows.                                                            *)
(***************************************************************************)
\* What is published belongs together, whatever series, cards, uploads and
\* fetches came before and wherever they were stopped, a fetch excepted: it holds
\* weights, and a card that is fresh compares the rows it is published with.
THEOREM AlwaysPublishedSound ==
    ASSUME FetchEnds
    PROVE  Spec => []PublishedSound
PROOF
<1>1. ScoreInv => PublishedSound
  <2> SUFFICES ASSUME ScoreInv PROVE TypeOK
    BY DEF ScoreInv, HubSound, PublishedSound
  <2>1. \A k \in Key : qb[k] # None =>
          /\ DOMAIN qb[k].rows \subseteq Label
          /\ \A l \in DOMAIN qb[k].rows : qb[k].rows[l] \in 1 .. MaxVersion
    BY DEF ScoreInv, ScoreTypes, IsResults
  <2>2. refinfo # None => refinfo.refs \subseteq Ref /\ refinfo.base \subseteq Rev
    BY DEF ScoreInv, ScoreTypes, Maybe, Info
  <2> QED BY <2>1, <2>2 DEF ScoreInv, ScoreTypes, TypeOK
<1> QED BY <1>1, ScoreAlways, PTL

\* A series that exits with 0 leaves every arm of every slice it was to score with
\* a row of the trace that is there, whatever results it was merged into; with all
\* revisions the reference row is of that trace too.
THEOREM AlwaysSeriesScored == Spec => SeriesScored
PROOF
<1>1. ScoreInv /\ [Next]_vars =>
        [cmd.op = "qbench" /\ cmd' = Idle /\ ok' =>
           \A k \in Wanted(cmd.args) :
               /\ cmd.args.revisions = None => qb[k] # None /\ qb[k].ref = Version(k)
               /\ \A l \in Arms(cmd.args, k) :
                      l \in Labelled(qb[k]) /\ qb[k].rows[l] = Version(k)]_vars
  <2> SUFFICES ASSUME ScoreInv, Next, cmd.op = "qbench", cmd' = Idle, ok',
                      NEW k \in Wanted(cmd.args)
               PROVE  /\ cmd.args.revisions = None => qb[k] # None /\ qb[k].ref = Version(k)
                      /\ \A l \in Arms(cmd.args, k) :
                             l \in Labelled(qb[k]) /\ qb[k].rows[l] = Version(k)
    OBVIOUS
  <2>1. Exit
    <3>1. cmd # Idle /\ cmd # cmd'
      BY DEF Idle
    <3>2. ~Stop /\ ~ScoreSlice
      BY <3>1 DEF Stop, Halt, ScoreSlice, Onward
    <3> QED
      BY <3>1, <3>2
      DEF Next, QBench, RecordReference, ScoreParity, Prune, Card, Upload, UploadMain,
          UploadRevision, UploadRung, Fetch, FetchResults, FetchStandIn, RewriteReference,
          MarkFetched, Retrace, Converted, NewWorkdir, Fails, Start, Ready, Onward
  <2>2. HasRows(k)
    BY <2>1 DEF Exit, ScoreInv, Work, Benched, Steps
  <2> QED BY <2>2 DEF HasRows, Labelled
<1> QED BY <1>1, ScoreAlways, PTL DEF Spec, SeriesScored

\* No series drops the reference logits of a whole slice's present trace, but to
\* make room for a slice that the cache is too small for: pruning takes superseded
\* ones, if samples are drawn in subset series.
THEOREM AlwaysLogitsKept ==
    ASSUME SamplesInSubsets
    PROVE  Spec => LogitsKept
PROOF
<1>1. ScoreInv /\ [Next]_vars =>
        [\A sl \in ToSet(Slices) :
           LET now == [key |-> Full(sl), of |-> trace[sl]]
           IN  /\ now \in logits /\ cmd.op = "qbench"
               /\ At("score") => Fits(Entry(Due.on))
               => now \in logits']_vars
  <2> SUFFICES ASSUME ScoreInv, Next, cmd.op = "qbench", NEW sl \in ToSet(Slices),
                      [key |-> Full(sl), of |-> trace[sl]] \in logits,
                      At("score") => Fits(Entry(Due.on))
               PROVE  [key |-> Full(sl), of |-> trace[sl]] \in logits'
    OBVIOUS
  <2> DEFINE now == [key |-> Full(sl), of |-> trace[sl]]
  <2>1. cmd # Idle
    BY DEF Idle
  <2>2. CASE Prune
    <3>1. CASE ~Pruned(cmd.args)
      BY <2>2, <3>1 DEF Prune
    <3>2. CASE Pruned(cmd.args)
      <4>1. cmd.args \in Series /\ cmd.args.slices = None /\ cmd.args.sample = None
        BY <3>2 DEF Pruned, Subset, SamplesInSubsets, ScoreInv, ScoreTypes, Idle
      <4>2. now.of \in 1 .. MaxVersion
        BY DEF ScoreInv, ScoreTypes
      <4>3. trace[sl] # 0 /\ sl # None /\ sl # "raw" /\ sl \in ToSet(Scored)
        BY <4>2, ScoredSlices, ScoreAssumption
      <4>4. Full(sl) \in Wanted(cmd.args)
        BY <4>1, <4>3 DEF Wanted, Asked, Keys, Full
      <4>5. Version(Full(sl)) = trace[sl]
        BY <4>3 DEF Version, Full
      <4> QED BY <2>2, <3>2, <4>4, <4>5 DEF Prune, Entry
    <3> QED BY <3>1, <3>2
  <2>3. CASE ScoreSlice
    BY <2>3 DEF ScoreSlice, Cached
  <2>4. CASE ~Prune /\ ~ScoreSlice
    <3>1. UNCHANGED logits
      BY <2>1, <2>4
      DEF Next, QBench, RecordReference, ScoreParity, Card, Upload, UploadMain,
          UploadRevision, UploadRung, Fetch, FetchResults, FetchStandIn, RewriteReference,
          MarkFetched, Exit, Stop, Retrace, Converted, NewWorkdir, local
    <3> QED BY <3>1
  <2> QED BY <2>2, <2>3, <2>4
<1> QED BY <1>1, ScoreAlways, PTL DEF Spec, LogitsKept

\* What a series does not score it leaves alone, whatever results it merges into
\* and whenever it stops: slices it is not asked for, and, if it is a run of some
\* revisions, every row, reference and rung but its own.
LEMMA AlwaysNothingLost == Spec => NothingLost
PROOF
<1> DEFINE Keeps(a) ==
             /\ \A k \in Key \ Wanted(a) : qb'[k] = qb[k]
             /\ Subset(a) => thresholds \subseteq thresholds'
             /\ a.revisions # None =>
                  /\ \A k \in Key : KeptBut(Own(a, k), qb[k], qb'[k])
                  /\ refinfo # None => /\ refinfo.refs \subseteq refinfo'.refs
                                       /\ refinfo.base \subseteq refinfo'.base
<1>1. ScoreInv /\ [Next]_vars =>
        [\A c \in {cmd, cmd'} : c.op = "qbench" => Keeps(c.args)]_vars
  <2> SUFFICES ASSUME ScoreInv, Next, NEW c \in {cmd, cmd'}, c.op = "qbench"
               PROVE  Keeps(c.args)
    OBVIOUS
  <2>1. ASSUME UNCHANGED <<qb, refinfo>>, Subset(c.args) => thresholds \subseteq thresholds'
        PROVE  Keeps(c.args)
    BY <2>1 DEF KeptBut
  <2> HIDE DEF Keeps
  <2>2. ASSUME NEW a \in Series, NEW mismatch \in BOOLEAN, QBench(a, mismatch)
        PROVE  Keeps(c.args)
    <3>1. cmd = Idle /\ UNCHANGED <<qb, refinfo>> /\ cmd.op = "none"
      BY <2>2 DEF QBench, Fails, Start, Ready, Idle
    <3>2. cmd' = [op |-> "qbench", args |-> a] /\ c = cmd'
      BY <2>2, <3>1 DEF QBench, Fails, Start
    <3>3. Subset(a) => thresholds \subseteq thresholds'
      BY <2>2 DEF QBench
    <3> QED BY <2>1, <3>1, <3>2, <3>3
  <2>3. CASE RecordReference
    <3>1. todo # {} /\ Due.do \in BenchDo /\ UNCHANGED <<cmd, qb, thresholds>> /\ c = cmd
      BY <2>3 DEF RecordReference, At, Onward, BenchDo
    <3>2. c.args.revisions # None /\ refinfo # None =>
            refinfo.refs \subseteq refinfo'.refs /\ refinfo.base \subseteq refinfo'.base
      BY <2>3, <3>1 DEF RecordReference, Recorded, ScoreInv, ScoreTypes, Maybe, Info
    <3> QED BY <3>1, <3>2 DEF Keeps, KeptBut
  <2>4. CASE ScoreSlice \/ ScoreParity
    <3>1. UNCHANGED <<refinfo, thresholds>> /\ cmd' \in {cmd, Idle}
      BY <2>4 DEF ScoreSlice, ScoreParity, Onward, Halt
    <3>2. c = cmd
      BY <3>1 DEF Idle
    <3>3. \A k \in Key \ Wanted(c.args) : qb'[k] = qb[k]
      BY <2>4, <3>2, ScoreSliceStep, ScoreParityStep
    <3>4. c.args.revisions # None => \A k \in Key : KeptBut(Own(c.args, k), qb[k], qb'[k])
      BY <2>4, <3>2, ScoreSliceStep, ScoreParityStep
    <3> QED BY <3>1, <3>3, <3>4 DEF Keeps
  <2>5. CASE Prune
    BY <2>1, <2>5 DEF Prune, results
  <2>6. CASE Exit \/ Stop
    BY <2>1, <2>6 DEF Exit, Stop, local, results
  <2>7. ASSUME UploadMain \/ UploadRevision \/ UploadRung
                 \/ FetchResults \/ FetchStandIn \/ RewriteReference \/ MarkFetched
        PROVE  FALSE
    <3>1. todo # {} /\ Due.do \in UploadDo \cup FetchDo /\ UNCHANGED cmd
      BY <2>7
      DEF UploadMain, UploadRevision, UploadRung, FetchResults, FetchStandIn, RewriteReference,
          MarkFetched, At, Onward, UploadDo, FetchDo
    <3> QED BY <3>1, DueStep DEF ScoreInv
  <2>8. ASSUME \/ Card \/ Fetch \/ \E uncalibrated \in BOOLEAN : Upload(uncalibrated)
               \/ \E sl \in ToSet(Slices) : Retrace(sl)
               \/ \E r \in Rev : Converted(r)
               \/ NewWorkdir
        PROVE  FALSE
    <3>1. cmd = Idle /\ cmd' \in {cmd, [op |-> "upload"], [op |-> "fetch"]}
      BY <2>8
      DEF Card, Fetch, Upload, Fails, Start, Ready, Retrace, Converted, NewWorkdir
    <3> QED BY <3>1 DEF Idle
  <2> QED BY <2>2, <2>3, <2>4, <2>5, <2>6, <2>7, <2>8 DEF Next
<1> QED BY <1>1, ScoreAlways, PTL DEF Spec, NothingLost

\* A card rendered again from a fetched directory leaves the published
\* reference.json as it was.
LEMMA AlwaysReferenceKept == Spec => ReferenceKept
PROOF
<1>1. ScoreInv /\ [Next]_vars =>
        [fetched /\ cmd.op = "upload" /\ hub.main.refinfo # None =>
           hub'.main.refinfo = hub.main.refinfo]_vars
  <2> SUFFICES ASSUME ScoreInv, Next, fetched, hub.main.refinfo # None
               PROVE  hub'.main.refinfo = hub.main.refinfo
    OBVIOUS
  <2>1. hub = [main |-> hub.main, rev |-> hub.rev, base |-> hub.base]
        /\ Staged = hub.main.refinfo
    BY DEF ScoreInv, ScoreTypes, ReferenceFetched
  <2>2. CASE UploadMain
    <3> DEFINE new == [qb |-> [sl \in ToSet(Scored) |-> StagedRows(qb[Full(sl)])],
                       refinfo |-> Staged, card |-> card]
    <3>1. hub' = [hub EXCEPT !.main = new]
      BY <2>2 DEF UploadMain
    <3>2. hub'.main = new
      BY <2>1, <3>1
    <3> QED BY <2>1, <3>2
  <2>3. CASE UploadRevision \/ UploadRung
    BY <2>1, <2>3 DEF UploadRevision, UploadRung
  <2>4. CASE ~UploadMain /\ ~UploadRevision /\ ~UploadRung
    BY <2>4
    DEF Next, QBench, RecordReference, ScoreSlice, ScoreParity, Prune, Card, Upload, Fetch,
        FetchResults, FetchStandIn, RewriteReference, MarkFetched, Exit, Stop, Retrace,
        Converted, NewWorkdir
  <2> QED BY <2>2, <2>3, <2>4
<1> QED BY <1>1, ScoreAlways, PTL DEF Spec, ReferenceKept

\* What a series did not score, and what was published for the card, stay as they
\* were through what is run or published later.
THEOREM AlwaysResultsKept == Spec => ResultsKept
  BY AlwaysNothingLost, AlwaysReferenceKept, PTL DEF ResultsKept
=============================================================================
