---------------------------- MODULE Settings_proofs ----------------------------
(***************************************************************************)
(* Proofs about Settings: whatever the documents hold and however links    *)
(* change during a load, an accepted agent configuration keeps its uploads *)
(* apart on the server and notices every change that rsync would send, and *)
(* an accepted bot configuration keeps within the public API's limit.      *)
(***************************************************************************)
EXTENDS Settings, TLAPS

Labels == {Str[v] : v \in DOMAIN Str}
Built == [label : Labels, paths : Seq(PathOf), exclude : Seq(PatternOf)]

\* Where a load is, and for which program.
StageInv ==
  /\ program \in {"agent", "bot"} /\ disk \in Disks
  /\ program = "agent" => doc \in AgentDocs
  /\ program = "bot" => doc \in BotDocs /\ sources = <<>>
  /\ pc \in {"read", "sources", "exists", "resolve", "upload", "done"}
  /\ result \in {"none", "ok"} \cup Errors
  /\ (pc = "done") <=> (result # "none")
  /\ pc \in {"sources", "exists", "resolve"} => program = "agent"
  /\ pc = "upload" => program = "bot"
  /\ pc = "read" => sources = <<>>

\* What has been built so far, against what the document holds.
BuiltInv ==
  /\ sources \in Seq(Built)
  /\ program = "agent" => Len(sources) <= Len(doc.sources)
  /\ pc \in {"exists", "resolve"} => Len(sources) > 0
  /\ pc = "resolve" => Len(Paths) < Len(Raw.paths)
  /\ \A m \in 1..Len(sources) :
       /\ Len(sources[m].paths) <= Len(doc.sources[m].paths)
       /\ Len(sources[m].exclude) >= Len(DefaultExcludes)

\* Sources that are finished have no two paths of one name.
Finished(m) == m < Len(sources) \/ pc = "sources" \/ result = "ok"
ApartInv == \A m \in 1..Len(sources) : Finished(m) => ~Conflict(sources[m].paths)

AcceptedInv ==
  result = "ok" =>
    /\ program = "agent" =>
         \A m, n \in 1..Len(sources) : sources[m].label = sources[n].label => m = n
    /\ program = "bot" => PartFits(doc.part, doc.base)

IInv == StageInv /\ BuiltInv /\ ApartInv /\ AcceptedInv

--------------------------------------------------------------------------------
(* Sequences *)

\* An index of a sequence is its last or below it.
LEMMA LastOrBelow == \A n \in Nat : ~(n < n) /\ \A k \in 1..n : k # n => k < n
  OBVIOUS

\* The default patterns are a sequence.
LEMMA Defaults == DefaultExcludes \in Seq(PatternOf) /\ Len(DefaultExcludes) \in Nat
  <1>1. DefaultExcludes \in Seq(PatternOf)
    BY SettingsAssumption, Zenon
  <1> QED BY <1>1

\* What Append() makes of a sequence.
LEMMA Appended ==
  ASSUME NEW S, NEW s \in Seq(S), NEW x \in S
  PROVE  /\ Append(s, x) \in Seq(S) /\ Len(Append(s, x)) = Len(s) + 1
         /\ \A k \in 1..Len(s) : Append(s, x)[k] = s[k]
         /\ Append(s, x)[Len(s) + 1] = x
  OBVIOUS

\* What a sequence becomes when one of its elements is replaced.
LEMMA Replaced ==
  ASSUME NEW S, NEW s \in Seq(S), NEW n \in 1..Len(s), NEW x \in S
  PROVE  /\ [s EXCEPT ![n] = x] \in Seq(S) /\ Len([s EXCEPT ![n] = x]) = Len(s)
         /\ \A k \in 1..Len(s) : k # n => [s EXCEPT ![n] = x][k] = s[k]
         /\ [s EXCEPT ![n] = x][n] = x
  OBVIOUS

\* What one sequence after another is.
LEMMA Joined ==
  ASSUME NEW S, NEW s \in Seq(S), NEW t \in Seq(S)
  PROVE  /\ s \o t \in Seq(S) /\ Len(s \o t) = Len(s) + Len(t)
         /\ \A k \in 1..Len(s) : (s \o t)[k] = s[k]
         /\ \A k \in 1..Len(t) : (s \o t)[Len(s) + k] = t[k]
  OBVIOUS

\* A document of the agent, as far as the proofs look into it.
LEMMA DocFacts ==
  ASSUME IInv, program = "agent"
  PROVE  /\ doc.sources \in Seq(SourceOf) /\ Len(doc.sources) \in Nat /\ Len(sources) \in Nat
         /\ \A m \in 1..Len(doc.sources) : doc.sources[m] \in SourceOf
         /\ \A m \in 1..Len(sources) : sources[m] \in Built
  <1>1. doc \in AgentDocOf
    BY SettingsAssumption DEF IInv, StageInv
  <1>2. doc.sources \in Seq(SourceOf)
    BY <1>1 DEF AgentDocOf
  <1>3. sources \in Seq(Built)
    BY DEF IInv, BuiltInv
  <1> HIDE DEF SourceOf
  <1> QED BY <1>2, <1>3

\* The source that is being built.
LEMMA LastFacts ==
  ASSUME IInv, pc \in {"exists", "resolve"}
  PROVE  /\ program = "agent" /\ Len(sources) \in 1..Len(doc.sources)
         /\ Raw \in SourceOf /\ sources[Len(sources)] \in Built
         /\ Raw.paths \in Seq(DOMAIN Own) /\ Raw.exclude \in Seq(PatternOf)
         /\ Paths \in Seq(PathOf) /\ sources[Len(sources)].exclude \in Seq(PatternOf)
         /\ Len(Paths) <= Len(Raw.paths)
  <1>1. program = "agent"
    BY DEF IInv, StageInv
  <1>2. Len(sources) \in 1..Len(doc.sources)
    BY <1>1, DocFacts DEF IInv, BuiltInv
  <1>3. Raw \in SourceOf /\ sources[Len(sources)] \in Built
    BY <1>1, <1>2, DocFacts DEF Raw
  <1>4. Len(Paths) <= Len(Raw.paths)
    BY <1>2 DEF IInv, BuiltInv, Paths, Raw
  <1>5. Raw.paths \in Seq(DOMAIN Own) /\ Raw.exclude \in Seq(PatternOf)
    BY <1>3 DEF SourceOf
  <1>6. Paths \in Seq(PathOf) /\ sources[Len(sources)].exclude \in Seq(PatternOf)
    BY <1>3 DEF Built, Paths
  <1> QED BY <1>1, <1>2, <1>3, <1>4, <1>5, <1>6

--------------------------------------------------------------------------------
(* The steps *)

\* Nothing has been read.
LEMMA InitIInv == Init => IInv
  <1> SUFFICES ASSUME Init PROVE IInv
    OBVIOUS
  <1>1. StageInv
    BY DEF Init, StageInv, Errors
  <1>2. sources = <<>> /\ Len(sources) = 0 /\ sources \in Seq(Built) /\ result = "none" /\ pc = "read"
    BY DEF Init
  <1>3. program = "agent" => Len(sources) <= Len(doc.sources)
    <2> SUFFICES ASSUME program = "agent" PROVE 0 <= Len(doc.sources)
      BY <1>2
    <2>1. doc \in AgentDocOf
      BY SettingsAssumption DEF Init
    <2> QED BY <2>1 DEF AgentDocOf
  <1>4. BuiltInv
    BY <1>2, <1>3 DEF BuiltInv
  <1>5. ApartInv /\ AcceptedInv
    BY <1>2 DEF ApartInv, AcceptedInv
  <1> QED BY <1>1, <1>4, <1>5 DEF IInv

\* A load that ends with an error keeps what it has built.
LEMMA FailStep ==
  ASSUME IInv, NEW error \in Errors, End(error), result = "none"
  PROVE  IInv'
  <1>1. /\ pc' = "done" /\ result' = error /\ result' # "ok" /\ result' # "none"
        /\ UNCHANGED <<program, doc, disk, sources>>
    BY DEF End, Errors
  <1>2. StageInv'
    BY <1>1 DEF IInv, StageInv
  <1>3. BuiltInv'
    BY <1>1 DEF IInv, BuiltInv
  <1>4. ApartInv' /\ AcceptedInv'
    BY <1>1 DEF IInv, ApartInv, AcceptedInv, Finished, Conflict
  <1> QED BY <1>2, <1>3, <1>4 DEF IInv

\* The beginning of a load.
LEMMA ReadStep == IInv /\ (ReadFails \/ ReadAgent \/ ReadBot) => IInv'
  <1> SUFFICES ASSUME IInv, ReadFails \/ ReadAgent \/ ReadBot PROVE IInv'
    OBVIOUS
  <1>1. pc = "read" /\ sources = <<>> /\ result = "none"
    BY DEF IInv, StageInv, ReadFails, ReadAgent, ReadBot
  <1>2. CASE \E error \in Errors : End(error)
    BY <1>1, <1>2, FailStep
  <1>3. CASE ReadAgent /\ Go("sources") /\ UNCHANGED sources
    <2>1. /\ program = "agent" /\ pc' = "sources" /\ result' = "none" /\ sources' = <<>>
          /\ UNCHANGED <<program, doc, disk, sources, result>>
      BY <1>1, <1>3 DEF Go, ReadAgent
    <2>2. StageInv'
      BY <2>1 DEF IInv, StageInv
    <2>3. BuiltInv' /\ ApartInv' /\ AcceptedInv'
      BY <1>1, <2>1 DEF IInv, BuiltInv, ApartInv, AcceptedInv
    <2> QED BY <2>2, <2>3 DEF IInv
  <1>4. CASE ReadBot /\ Go("upload") /\ UNCHANGED sources
    <2>1. /\ program = "bot" /\ pc' = "upload" /\ result' = "none" /\ sources' = <<>>
          /\ UNCHANGED <<program, doc, disk, sources, result>>
      BY <1>1, <1>4 DEF Go, ReadBot
    <2>2. StageInv'
      BY <2>1 DEF IInv, StageInv
    <2>3. BuiltInv' /\ ApartInv' /\ AcceptedInv'
      BY <1>1, <2>1 DEF IInv, BuiltInv, ApartInv, AcceptedInv
    <2> QED BY <2>2, <2>3 DEF IInv
  <1>5. CASE ReadFails
    BY <1>2, <1>5 DEF ReadFails, Errors
  <1>6. CASE ReadAgent
    BY <1>2, <1>3, <1>6 DEF ReadAgent, Errors
  <1>7. CASE ReadBot
    BY <1>2, <1>4, <1>7 DEF ReadBot, Errors
  <1> QED BY <1>5, <1>6, <1>7

\* A source is opened.
LEMMA OpenStep == IInv /\ OpenSource => IInv'
  <1> SUFFICES ASSUME IInv, OpenSource PROVE IInv'
    OBVIOUS
  <1> DEFINE raw == doc.sources[Len(sources) + 1]
             new == [label |-> Str[raw.label], paths |-> <<>>, exclude |-> DefaultExcludes]
  <1>1. pc = "sources" /\ program = "agent" /\ result = "none" /\ Len(sources) < Len(doc.sources)
    BY DEF IInv, StageInv, OpenSource
  <1>2. CASE End("ConfigError")
    BY <1>1, <1>2, FailStep DEF Errors
  <1>3. CASE sources' = Append(sources, new) /\ Go("exists")
    <2>1. /\ pc' = "exists" /\ result' = "none" /\ UNCHANGED <<program, doc, disk, result>>
      BY <1>1, <1>3 DEF Go
    <2>2. sources \in Seq(Built) /\ Len(sources) + 1 \in 1..Len(doc.sources)
      BY <1>1, DocFacts DEF IInv, BuiltInv
    <2>3. raw \in SourceOf
      BY <1>1, <2>2, DocFacts
    <2>4. new \in Built
      <3>1. Str[raw.label] \in Labels
        BY <2>3 DEF SourceOf, Labels
      <3>2. <<>> \in Seq(PathOf) /\ DefaultExcludes \in Seq(PatternOf)
        BY Defaults
      <3> HIDE DEF raw
      <3> QED BY <3>1, <3>2 DEF Built
    <2> HIDE DEF new, raw
    <2>5. /\ sources' \in Seq(Built) /\ Len(sources') = Len(sources) + 1
          /\ \A k \in 1..Len(sources) : sources'[k] = sources[k]
          /\ sources'[Len(sources) + 1] = new
      BY <1>3, <2>2, <2>4, Appended
    <2>6. StageInv'
      BY <1>1, <2>1 DEF IInv, StageInv
    <2>7. ASSUME NEW m \in 1..Len(sources')
          PROVE  /\ Len(sources'[m].paths) <= Len(doc.sources[m].paths)
                 /\ Len(sources'[m].exclude) >= Len(DefaultExcludes)
      <3>1. CASE m \in 1..Len(sources)
        BY <2>5, <3>1 DEF IInv, BuiltInv
      <3>2. CASE m = Len(sources) + 1
        <4>1. sources'[m].paths = <<>> /\ sources'[m].exclude = DefaultExcludes
          BY <2>5, <3>2 DEF new
        <4>2. raw.paths \in Seq(DOMAIN Own)
          BY <2>3 DEF SourceOf
        <4>3. Len(raw.paths) \in Nat /\ Len(DefaultExcludes) \in Nat
          BY <4>2, Defaults
        <4>4. doc.sources[m] = raw
          BY <3>2 DEF raw
        <4> QED BY <4>1, <4>3, <4>4
      <3> QED BY <2>2, <2>5, <3>1, <3>2
    <2>8. BuiltInv'
      BY <2>1, <2>2, <2>5, <2>7 DEF BuiltInv
    <2>9. ApartInv'
      <3> SUFFICES ASSUME NEW m \in 1..Len(sources'), m < Len(sources') PROVE ~Conflict(sources'[m].paths)
        BY <2>1 DEF ApartInv, Finished, Conflict
      <3>1. m \in 1..Len(sources)
        BY <2>2, <2>5
      <3>2. ~Conflict(sources[m].paths)
        BY <1>1, <3>1 DEF IInv, ApartInv, Finished
      <3> QED BY <2>5, <3>1, <3>2
    <2>10. AcceptedInv'
      BY <2>1 DEF AcceptedInv
    <2> QED BY <2>6, <2>8, <2>9, <2>10 DEF IInv
  <1> QED BY <1>2, <1>3 DEF OpenSource

\* A change to the last source only: what it must be for the invariant to hold on.
LEMMA LastStep ==
  ASSUME IInv, pc \in {"exists", "resolve"}, result = "none",
         NEW s \in Built, sources' = [sources EXCEPT ![Len(sources)] = s],
         UNCHANGED <<program, doc, disk, result>>,
         Len(s.paths) <= Len(Raw.paths), Len(s.exclude) >= Len(DefaultExcludes),
         \/ pc' = "exists"
         \/ pc' = "sources" /\ ~Conflict(s.paths)
  PROVE  IInv'
  <1>1. /\ program = "agent" /\ Len(sources) \in 1..Len(doc.sources)
        /\ sources \in Seq(Built) /\ Raw = doc.sources[Len(sources)]
    BY LastFacts DEF IInv, BuiltInv, Raw
  <1>2. /\ sources' \in Seq(Built) /\ Len(sources') = Len(sources)
        /\ \A k \in 1..Len(sources) : k # Len(sources) => sources'[k] = sources[k]
        /\ sources'[Len(sources)] = s
        /\ Len(sources) \in Nat
    <2>1. Len(sources) \in 1..Len(sources)
      BY <1>1
    <2>2. Len(sources) \in Nat
      BY <1>1
    <2> QED BY <1>1, <2>1, <2>2, Replaced
  <1>3. StageInv'
    BY <1>1 DEF IInv, StageInv
  <1>4. BuiltInv'
    <2>1. ASSUME NEW m \in 1..Len(sources')
          PROVE  /\ Len(sources'[m].paths) <= Len(doc.sources[m].paths)
                 /\ Len(sources'[m].exclude) >= Len(DefaultExcludes)
      <3>1. CASE m = Len(sources)
        BY <1>1, <1>2, <3>1
      <3>2. CASE m # Len(sources)
        BY <1>2, <3>2 DEF IInv, BuiltInv
      <3> QED BY <3>1, <3>2
    <2> QED BY <1>1, <1>2, <2>1 DEF BuiltInv, IInv
  <1>5. ApartInv'
    <2> SUFFICES ASSUME NEW m \in 1..Len(sources'), Finished(m)' PROVE ~Conflict(sources'[m].paths)
      BY DEF ApartInv, Conflict
    <2>1. CASE m = Len(sources)
      <3>1. ~(m < Len(sources')) /\ result' # "ok"
        <4>1. Len(sources') = m /\ m \in Nat
          BY <1>2, <2>1, Zenon
        <4>2. result' = "none"
          OBVIOUS
        <4> QED BY <4>1, <4>2, LastOrBelow
      <3>2. pc' = "sources"
        BY <3>1 DEF Finished
      <3> QED BY <1>2, <2>1, <3>2
    <2>2. CASE m # Len(sources)
      <3>1. m \in 1..Len(sources) /\ m < Len(sources)
        <4>1. m \in 1..Len(sources) /\ Len(sources) \in Nat
          BY <1>2, Zenon
        <4> QED BY <4>1, <2>2, LastOrBelow, Zenon
      <3> QED BY <1>2, <2>2, <3>1 DEF IInv, ApartInv, Finished
    <2> QED BY <2>1, <2>2
  <1>6. AcceptedInv'
    BY DEF AcceptedInv
  <1> QED BY <1>3, <1>4, <1>5, <1>6 DEF IInv

\* The next path of the source being built, and where it leads.
LEMMA NextFacts ==
  ASSUME IInv, pc \in {"exists", "resolve"}, Len(Paths) < Len(Raw.paths)
  PROVE  /\ NextPath \in DOMAIN Own /\ Own[NextPath] \in PathOf
         /\ disk[NextPath].is \in {"there", "missing", "loop", "denied", "noUser"}
         /\ disk[NextPath].is = "there" => disk[NextPath].at \in PathOf
  <1>1. /\ Raw.paths \in Seq(DOMAIN Own) /\ Len(Paths) \in Nat /\ Len(Raw.paths) \in Nat
    <2>1. Raw.paths \in Seq(DOMAIN Own) /\ Paths \in Seq(PathOf)
      BY LastFacts
    <2> QED BY <2>1
  <1>2. Len(Paths) + 1 \in 1..Len(Raw.paths)
    BY <1>1
  <1>3. NextPath \in DOMAIN Own
    BY <1>1, <1>2 DEF NextPath
  <1>4. disk \in Disks
    BY DEF IInv, StageInv
  <1> QED BY <1>3, <1>4, SettingsAssumption

\* A path is checked.
LEMMA ExistsStep == IInv /\ PathExists => IInv'
  <1> SUFFICES ASSUME IInv, PathExists PROVE IInv'
    OBVIOUS
  <1>1. pc = "exists" /\ result = "none" /\ Len(Paths) < Len(Raw.paths)
    BY DEF IInv, StageInv, PathExists
  <1>2. disk[NextPath].is \in {"there", "missing", "loop", "denied", "noUser"}
    BY <1>1, NextFacts
  <1>3. CASE \E error \in Errors : End(error)
    BY <1>1, <1>3, FailStep
  <1>4. CASE Go("resolve") /\ UNCHANGED sources
    <2>1. pc' = "resolve" /\ UNCHANGED <<program, doc, disk, result, sources>>
      BY <1>4 DEF Go
    <2>2. program = "agent"
      BY <1>1, LastFacts
    <2>3. StageInv'
      BY <1>1, <2>1, <2>2 DEF IInv, StageInv
    <2>4. Len(sources') > 0 /\ Len(Paths') < Len(Raw'.paths)
      BY <1>1, <2>1 DEF IInv, BuiltInv, Paths, Raw
    <2>5. BuiltInv'
      BY <2>1, <2>4 DEF IInv, BuiltInv
    <2>6. ApartInv' /\ AcceptedInv'
      BY <1>1, <2>1 DEF IInv, ApartInv, AcceptedInv, Finished, Conflict
    <2> QED BY <2>3, <2>5, <2>6 DEF IInv
  <1>5. CASE disk[NextPath].is \in {"noUser", "denied"}
    BY <1>3, <1>5 DEF PathExists, Errors
  <1>6. CASE disk[NextPath].is \in {"missing", "loop"}
    BY <1>3, <1>6 DEF PathExists, Errors
  <1>7. CASE disk[NextPath].is = "there"
    BY <1>4, <1>7 DEF PathExists
  <1> QED BY <1>2, <1>5, <1>6, <1>7

\* A path is resolved.
LEMMA ResolveStep == IInv /\ PathResolved => IInv'
  <1> SUFFICES ASSUME IInv, PathResolved PROVE IInv'
    OBVIOUS
  <1> DEFINE to == IF disk[NextPath].is = "there" THEN disk[NextPath].at ELSE Own[NextPath]
             last == sources[Len(sources)]
             s == [last EXCEPT !.paths = Append(@, to)]
  <1>1. pc = "resolve" /\ result = "none" /\ Len(Paths) < Len(Raw.paths)
    BY DEF IInv, StageInv, BuiltInv, PathResolved
  <1>2. CASE End("ConfigError")
    BY <1>1, <1>2, FailStep DEF Errors
  <1>3. CASE sources' = [sources EXCEPT ![Len(sources)].paths = Append(@, to)] /\ Go("exists")
    <2>1. to \in PathOf
      BY <1>1, NextFacts
    <2>2. last \in Built /\ last.paths \in Seq(PathOf) /\ last.paths = Paths
      BY <1>1, LastFacts DEF Paths
    <2> HIDE DEF to
    <2>3. Append(last.paths, to) \in Seq(PathOf) /\ Len(Append(last.paths, to)) = Len(Paths) + 1
      BY <2>1, <2>2, Appended
    <2>4. /\ s \in Built /\ s.paths = Append(last.paths, to) /\ s.exclude = last.exclude
      BY <2>2, <2>3 DEF Built
    <2>5. Len(s.paths) <= Len(Raw.paths)
      <3>1. Raw.paths \in Seq(DOMAIN Own) /\ Paths \in Seq(PathOf)
        BY <1>1, LastFacts
      <3>2. Len(Raw.paths) \in Nat /\ Len(Paths) \in Nat
        BY <3>1
      <3> QED BY <1>1, <2>3, <2>4, <3>2
    <2>6. Len(s.exclude) >= Len(DefaultExcludes)
      <3>1. Len(sources) \in 1..Len(doc.sources)
        BY <1>1, LastFacts
      <3> HIDE DEF s
      <3> QED BY <2>4, <3>1 DEF IInv, BuiltInv
    <2>7. sources' = [sources EXCEPT ![Len(sources)] = s]
      BY <1>3
    <2>8. pc' = "exists" /\ UNCHANGED <<program, doc, disk, result>>
      BY <1>3 DEF Go
    <2> HIDE DEF s
    <2> QED BY <1>1, <2>4, <2>5, <2>6, <2>7, <2>8, LastStep
  <1> QED BY <1>2, <1>3 DEF PathResolved

\* A source is finished.
LEMMA CloseStep == IInv /\ CloseSource => IInv'
  <1> SUFFICES ASSUME IInv, CloseSource PROVE IInv'
    OBVIOUS
  <1> DEFINE last == sources[Len(sources)]
             s == [last EXCEPT !.exclude = @ \o Raw.exclude]
  <1>1. pc = "exists" /\ result = "none"
    BY DEF IInv, StageInv, CloseSource
  <1>2. CASE End("ConfigError")
    BY <1>1, <1>2, FailStep DEF Errors
  <1>3. CASE /\ ~Conflict(Paths)
             /\ sources' = [sources EXCEPT ![Len(sources)].exclude = @ \o Raw.exclude] /\ Go("sources")
    <2>1. /\ last \in Built /\ last.paths = Paths
          /\ last.exclude \in Seq(PatternOf) /\ Raw.exclude \in Seq(PatternOf)
      BY <1>1, LastFacts DEF Paths
    <2>2. /\ last.exclude \o Raw.exclude \in Seq(PatternOf)
          /\ Len(last.exclude \o Raw.exclude) = Len(last.exclude) + Len(Raw.exclude)
      BY <2>1, Joined
    <2>3. s \in Built /\ s.paths = Paths /\ s.exclude = last.exclude \o Raw.exclude
      BY <2>1, <2>2 DEF Built
    <2>4. Len(s.paths) <= Len(Raw.paths)
      BY <1>1, <2>3, LastFacts
    <2>5. Len(s.exclude) >= Len(DefaultExcludes)
      <3>1. Len(sources) \in 1..Len(doc.sources)
        BY <1>1, LastFacts
      <3>2. Len(last.exclude) >= Len(DefaultExcludes)
        BY <3>1 DEF IInv, BuiltInv
      <3>3. Len(last.exclude) \in Nat /\ Len(Raw.exclude) \in Nat /\ Len(DefaultExcludes) \in Nat
        BY <2>1, Defaults
      <3>4. Len(s.exclude) = Len(last.exclude) + Len(Raw.exclude)
        BY <2>2, <2>3, Zenon
      <3>5. \A a, b, c \in Nat : a >= c => a + b >= c
        OBVIOUS
      <3>6. Len(last.exclude) + Len(Raw.exclude) >= Len(DefaultExcludes)
        BY <3>2, <3>3, <3>5, Zenon
      <3> QED BY <3>4, <3>6, Zenon
    <2>6. sources' = [sources EXCEPT ![Len(sources)] = s]
      BY <1>3
    <2>7. pc' = "sources" /\ UNCHANGED <<program, doc, disk, result>>
      BY <1>3 DEF Go
    <2> HIDE DEF s
    <2> QED BY <1>1, <1>3, <2>3, <2>4, <2>5, <2>6, <2>7, LastStep
  <1> QED BY <1>2, <1>3 DEF CloseSource

\* The configuration is accepted, or its labels or its limit are not.
LEMMA EndStep == IInv /\ (CloseAgent \/ CloseBot) => IInv'
  <1> SUFFICES ASSUME IInv, CloseAgent \/ CloseBot PROVE IInv'
    OBVIOUS
  <1>1. result = "none" /\ pc \in {"sources", "upload"}
    BY DEF IInv, StageInv, CloseAgent, CloseBot
  <1>2. CASE \E error \in Errors : End(error)
    BY <1>1, <1>2, FailStep
  <1>3. CASE CloseAgent /\ End("ok")
    <2>1. /\ pc = "sources" /\ pc' = "done" /\ result' = "ok" /\ program = "agent"
          /\ UNCHANGED <<program, doc, disk, sources>>
      BY <1>3 DEF CloseAgent, End, IInv, StageInv
    <2>2. ~\E m, n \in DOMAIN sources : m # n /\ sources[m].label = sources[n].label
      BY <1>3 DEF CloseAgent, End
    <2>3. sources \in Seq(Built) /\ DOMAIN sources = 1..Len(sources)
      BY DEF IInv, BuiltInv
    <2>4. StageInv' /\ BuiltInv'
      BY <2>1 DEF IInv, StageInv, BuiltInv
    <2>5. ApartInv'
      BY <2>1 DEF IInv, ApartInv, Finished, Conflict
    <2>6. AcceptedInv'
      BY <2>1, <2>2, <2>3 DEF AcceptedInv
    <2> QED BY <2>4, <2>5, <2>6 DEF IInv
  <1>4. CASE CloseBot /\ End("ok")
    <2>1. /\ pc = "upload" /\ pc' = "done" /\ result' = "ok" /\ program = "bot" /\ sources = <<>>
          /\ UNCHANGED <<program, doc, disk, sources>>
      BY <1>4 DEF CloseBot, End, IInv, StageInv
    <2>2. PartFits(doc.part, doc.base)
      BY <1>4 DEF CloseBot, End
    <2>3. StageInv' /\ BuiltInv' /\ ApartInv'
      BY <2>1 DEF IInv, StageInv, BuiltInv, ApartInv
    <2>4. AcceptedInv'
      BY <2>1, <2>2 DEF AcceptedInv, PartFits, IsPublic
    <2> QED BY <2>3, <2>4 DEF IInv
  <1>5. CASE CloseAgent
    BY <1>2, <1>3, <1>5 DEF CloseAgent, Errors
  <1>6. CASE CloseBot
    BY <1>2, <1>4, <1>6 DEF CloseBot, Errors
  <1> QED BY <1>5, <1>6

\* The disk changes, or nothing does.
LEMMA DiskStep == IInv /\ (DiskChanges \/ UNCHANGED vars) => IInv'
  <1> SUFFICES ASSUME IInv, DiskChanges \/ UNCHANGED vars PROVE IInv'
    OBVIOUS
  <1>1. disk' \in Disks /\ UNCHANGED <<program, doc, pc, sources, result>>
    BY DEF DiskChanges, vars, IInv, StageInv
  <1>2. StageInv' /\ BuiltInv'
    BY <1>1 DEF IInv, StageInv, BuiltInv, Paths, Raw
  <1>3. ApartInv' /\ AcceptedInv'
    BY <1>1 DEF IInv, ApartInv, AcceptedInv, Finished, Conflict, PartFits, IsPublic
  <1> QED BY <1>2, <1>3 DEF IInv

\* The invariant holds throughout every load.
THEOREM SettingsInvariant == Spec => []IInv
  <1>1. IInv /\ [Next]_vars => IInv'
    BY ReadStep, OpenStep, ExistsStep, ResolveStep, CloseStep, EndStep, DiskStep DEF Next
  <1> QED BY <1>1, InitIInv, PTL DEF Spec

--------------------------------------------------------------------------------
(* What an accepted configuration promises *)

\* Every state has its type: see TypeOK.
THEOREM SettingsTypeCorrect == Spec => []TypeOK
  <1>1. ASSUME IInv PROVE TypeOK
    <2>1. /\ program \in {"agent", "bot"} /\ disk \in Disks
          /\ doc \in (IF program = "agent" THEN AgentDocs ELSE BotDocs)
          /\ pc \in {"read", "sources", "exists", "resolve", "upload", "done"}
          /\ result \in {"none", "ok"} \cup Errors
          /\ (pc = "done") = (result # "none")
      BY <1>1 DEF IInv, StageInv
    <2>2. sources \in Seq(Built) /\ DOMAIN sources = 1..Len(sources)
      BY <1>1 DEF IInv, BuiltInv
    <2>3. ASSUME NEW m \in DOMAIN sources
          PROVE  /\ DOMAIN sources[m] = {"label", "paths", "exclude"}
                 /\ Len(sources[m].paths) <= Len(doc.sources[m].paths)
                 /\ Len(sources[m].exclude) >= Len(DefaultExcludes)
      <3>1. sources[m] \in Built
        BY <2>2
      <3>2. DOMAIN sources[m] = {"label", "paths", "exclude"}
        BY <3>1 DEF Built
      <3> QED BY <1>1, <2>2, <3>2 DEF IInv, BuiltInv
    <2> QED BY <2>1, <2>3 DEF TypeOK
  <1> QED BY <1>1, SettingsInvariant, PTL

\* An accepted limit fits the API: see PublicPartFits.
THEOREM PublicLimitKept == Spec => []PublicPartFits
  <1>1. ASSUME IInv PROVE PublicPartFits
    BY <1>1 DEF IInv, AcceptedInv, PublicPartFits, PartFits, IsPublic
  <1> QED BY <1>1, SettingsInvariant, PTL

\* An item stands for a path of a source, and no other item of that source has a
\* path of its name.
LEMMA ItemFacts ==
  ASSUME IInv, NEW i \in Items
  PROVE  /\ program = "agent" /\ result = "ok" /\ i = <<i[1], i[2]>>
         /\ i[1] \in 1..Len(sources) /\ sources[i[1]] \in Built
         /\ i[2] \in 1..Len(sources[i[1]].paths)
         /\ sources[i[1]].paths[i[2]] \in PathOf
         /\ \A k \in 1..Len(sources[i[1]].paths) :
              NameOf(sources[i[1]].paths[k]) = NameOf(sources[i[1]].paths[i[2]]) => k = i[2]
  <1>1. program = "agent" /\ result = "ok"
    BY DEF Items
  <1>2. PICK m \in DOMAIN sources : i \in {<<m, n>> : n \in DOMAIN sources[m].paths}
    BY <1>1 DEF Items
  <1>3. PICK n \in DOMAIN sources[m].paths : i = <<m, n>>
    BY <1>2
  <1>4. sources \in Seq(Built) /\ DOMAIN sources = 1..Len(sources)
    BY DEF IInv, BuiltInv
  <1>5. sources[m] \in Built
    BY <1>4
  <1>6. sources[m].paths \in Seq(PathOf)
    BY <1>5 DEF Built
  <1>7. DOMAIN sources[m].paths = 1..Len(sources[m].paths) /\ sources[m].paths[n] \in PathOf
    BY <1>6
  <1>8. ~Conflict(sources[m].paths)
    BY <1>1, <1>4 DEF IInv, ApartInv, Finished
  <1>9. i[1] = m /\ i[2] = n
    BY <1>3
  <1>10. \A k \in 1..Len(sources[m].paths) :
           NameOf(sources[m].paths[k]) = NameOf(sources[m].paths[n]) => k = n
    BY <1>7, <1>8 DEF Conflict
  <1> HIDE DEF Built
  <1> QED BY <1>1, <1>3, <1>4, <1>5, <1>7, <1>9, <1>10

\* What the beginning and the rest of a sequence are.
LEMMA Parted ==
  ASSUME NEW S, NEW f \in Seq(S), NEW n \in 0..Len(f)
  PROVE  /\ SubSeq(f, 1, n) \in Seq(S) /\ Len(SubSeq(f, 1, n)) = n
         /\ \A k \in 1..n : SubSeq(f, 1, n)[k] = f[k]
         /\ SubSeq(f, n + 1, Len(f)) \in Seq(S) /\ Len(SubSeq(f, n + 1, Len(f))) = Len(f) - n
  OBVIOUS

\* Two places of two names each lie inside one another only if they are the same.
LEMMA PairsApart ==
  \A a, b, c, d : Below(<<a>> \o <<b>>, <<c>> \o <<d>>) => a = c /\ b = d
  <1> SUFFICES ASSUME NEW a, NEW b, NEW c, NEW d, Below(<<a>> \o <<b>>, <<c>> \o <<d>>)
               PROVE  a = c /\ b = d
    OBVIOUS
  <1> DEFINE S == {a, b, c, d}
             s == <<a>> \o <<b>>
             t == <<c>> \o <<d>>
  <1>1. \A x, y \in S : <<x>> \in Seq(S) /\ Len(<<x>>) = 1 /\ <<x>>[1] = x
    OBVIOUS
  <1>2. ASSUME NEW x \in S, NEW y \in S
        PROVE  /\ <<x>> \o <<y>> \in Seq(S) /\ Len(<<x>> \o <<y>>) = 2
               /\ (<<x>> \o <<y>>)[1] = x /\ (<<x>> \o <<y>>)[2] = y
    <2>1. /\ <<x>> \in Seq(S) /\ Len(<<x>>) = 1 /\ <<x>>[1] = x
          /\ <<y>> \in Seq(S) /\ Len(<<y>>) = 1 /\ <<y>>[1] = y
      BY <1>1
    <2> QED BY <2>1, Joined
  <1>3. s \in Seq(S) /\ Len(s) = 2 /\ s[1] = a /\ s[2] = b
    BY <1>2
  <1>4. t \in Seq(S) /\ Len(t) = 2 /\ t[1] = c /\ t[2] = d
    BY <1>2
  <1>5. Below(s, t)
    OBVIOUS
  <1> HIDE DEF s, t, S
  <1>6. SubSeq(t, 1, 2) = s
    BY <1>3, <1>5 DEF Below
  <1>7. \A k \in 1..2 : SubSeq(t, 1, 2)[k] = t[k]
    BY <1>4, Parted
  <1> QED BY <1>3, <1>4, <1>6, <1>7

\* Uploads are kept apart on the server: see DistinctDestinations.
THEOREM DestinationsApart == Spec => []DistinctDestinations
  <1>1. ASSUME IInv PROVE DistinctDestinations
    <2> SUFFICES ASSUME NEW i \in Items, NEW j \in Items, i # j,
                        sources[i[1]].label # ".", sources[j[1]].label # ".",
                        sources[i[1]].paths[i[2]] # <<>>, sources[j[1]].paths[j[2]] # <<>>,
                        Below(Destination(sources[i[1]].label, sources[i[1]].paths[i[2]]),
                              Destination(sources[j[1]].label, sources[j[1]].paths[j[2]]))
                 PROVE  FALSE
      BY DEF DistinctDestinations
    <2>1. /\ sources[i[1]].label = sources[j[1]].label
          /\ NameOf(sources[i[1]].paths[i[2]]) = NameOf(sources[j[1]].paths[j[2]])
      <3>1. Destination(sources[i[1]].label, sources[i[1]].paths[i[2]])
              = <<sources[i[1]].label>> \o <<NameOf(sources[i[1]].paths[i[2]])>>
        BY Zenon DEF Destination
      <3>2. Destination(sources[j[1]].label, sources[j[1]].paths[j[2]])
              = <<sources[j[1]].label>> \o <<NameOf(sources[j[1]].paths[j[2]])>>
        BY Zenon DEF Destination
      <3>3. Below(<<sources[i[1]].label>> \o <<NameOf(sources[i[1]].paths[i[2]])>>,
                  <<sources[j[1]].label>> \o <<NameOf(sources[j[1]].paths[j[2]])>>)
        BY <3>1, <3>2, Zenon
      <3> QED BY <3>3, PairsApart
    <2>2. i[1] = j[1]
      BY <1>1, <2>1, ItemFacts DEF IInv, AcceptedInv
    <2>3. i[2] = j[2]
      <3>1. j[2] \in 1..Len(sources[i[1]].paths)
        BY <1>1, <2>2, ItemFacts
      <3>2. NameOf(sources[i[1]].paths[j[2]]) = NameOf(sources[i[1]].paths[i[2]])
        BY <2>1, <2>2
      <3>3. \A k \in 1..Len(sources[i[1]].paths) :
              NameOf(sources[i[1]].paths[k]) = NameOf(sources[i[1]].paths[i[2]]) => k = i[2]
        BY <1>1, ItemFacts
      <3> QED BY <3>1, <3>2, <3>3
    <2>4. i = <<i[1], i[2]>> /\ j = <<j[1], j[2]>>
      BY <1>1, ItemFacts
    <2> QED BY <2>2, <2>3, <2>4
  <1> QED BY <1>1, SettingsInvariant, PTL

\* A pattern of one component that is not anchored fits every path whose last name
\* it matches.
LEMMA OneNameFits ==
  ASSUME NEW S, NEW t \in Seq(S), NEW n \in 1..Len(t), NEW p \in PatternOf,
         Len(p.names) = 1, ~p.anchored, t[n] \in p.names[1]
  PROVE  FitsEnd(SubSeq(t, 1, n), p)
  <1>1. n \in 0..Len(t) /\ n \in 1..n /\ n - 1 >= 0 /\ (n - 1) + 1 = n
    OBVIOUS
  <1>2. Len(SubSeq(t, 1, n)) = n /\ SubSeq(t, 1, n)[n] = t[n]
    BY <1>1, Parted
  <1>3. p.names \in Seq(SUBSET Names)
    BY DEF PatternOf
  <1>4. DOMAIN p.names = {1}
    BY <1>3
  <1>5. Len(SubSeq(t, 1, n)) - Len(p.names) = n - 1
    BY <1>2
  <1> QED BY <1>1, <1>2, <1>4, <1>5 DEF FitsEnd

\* What is_excluded() passes over in the names below an item, rsync leaves out,
\* whatever the names before them.
LEMMA ExcludedByBoth ==
  ASSUME NEW before \in Seq(Names), NEW parts \in Seq(Names), NEW ex \in Seq(PatternOf),
         \A k \in DOMAIN ex : SelfMatching(ex[k]), IsExcluded(parts, ex)
  PROVE  RsyncExcludes(before \o parts, ex)
  <1> DEFINE all == before \o parts
  <1>1. /\ all \in Seq(Names) /\ Len(all) = Len(before) + Len(parts)
        /\ \A n \in 1..Len(parts) : all[Len(before) + n] = parts[n]
    BY Joined
  <1>2. Len(before) \in Nat /\ Len(parts) \in Nat /\ DOMAIN parts = 1..Len(parts)
    OBVIOUS
  <1>3. PICK k \in DOMAIN ex :
          \/ ex[k].dir /\ \E n \in 1..(Len(parts) - 1) : ex[k].text = parts[n]
          \/ ~ex[k].dir /\ \E n \in DOMAIN parts : Fnmatch(parts[n], ex[k])
    BY DEF IsExcluded
  <1>4. ex[k] \in PatternOf
    OBVIOUS
  <1> HIDE DEF all
  <1>5. PICK n \in 1..Len(parts) :
          /\ ex[k].dir => n < Len(parts)
          /\ Len(ex[k].names) = 1 /\ ~ex[k].anchored /\ parts[n] \in ex[k].names[1]
    <2>1. CASE ex[k].dir
      <3>1. PICK n \in 1..(Len(parts) - 1) : ex[k].text = parts[n]
        BY <1>3, <2>1
      <3>2. n \in 1..Len(parts) /\ n < Len(parts)
        BY <1>2
      <3>3. parts[n] \in Names
        BY <3>2
      <3>4. ex[k].text # ""
        BY <3>1, <3>3, SettingsAssumption
      <3>5. Len(ex[k].names) = 1 /\ ~ex[k].anchored
        BY <1>4, <2>1, <3>4 DEF PatternOf
      <3>6. ex[k].text \in ex[k].names[1]
        BY <2>1, <3>4 DEF SelfMatching
      <3> QED BY <3>1, <3>2, <3>5, <3>6
    <2>2. CASE ~ex[k].dir
      BY <1>2, <1>3, <2>2 DEF Fnmatch
    <2> QED BY <2>1, <2>2
  <1>6. /\ Len(before) + n \in 1..Len(all) /\ all[Len(before) + n] = parts[n]
        /\ ex[k].dir => Len(before) + n < Len(all)
    BY <1>1, <1>2, <1>5
  <1>7. FitsEnd(SubSeq(all, 1, Len(before) + n), ex[k])
    BY <1>1, <1>4, <1>5, <1>6, OneNameFits
  <1>8. RsyncExcludes(all, ex)
    BY <1>6, <1>7 DEF RsyncExcludes
  <1> QED BY <1>8 DEF all

\* A file below an item that is not one of the directories is that item.
LEMMA BelowFile ==
  ASSUME NEW path \in PathOf, NEW f \in Files, Below(path, f)
  PROVE  /\ f \in PathOf
         /\ path \in Dirs => Len(path) < Len(f)
         /\ path \notin Dirs => f = path /\ path # <<>>
  <1>1. f \in PathOf /\ Len(f) \in Nat /\ Len(path) \in Nat /\ f \notin Dirs
    BY FilesAssumption DEF PathOf
  <1>2. Len(path) <= Len(f) /\ SubSeq(f, 1, Len(path)) = path
    BY DEF Below
  <1>3. Len(path) = Len(f) => f = path
    BY <1>1, <1>2 DEF PathOf
  <1>4. Len(path) < Len(f) => path \in Dirs
    <2> SUFFICES ASSUME Len(path) < Len(f) PROVE path \in Dirs
      OBVIOUS
    <2>1. Len(path) \in 0..(Len(f) - 1)
      BY <1>1
    <2>2. SubSeq(f, 1, Len(path)) \in Dirs
      BY <2>1, FilesAssumption, Zenon
    <2> QED BY <1>2, <2>2
  <1> QED BY <1>1, <1>2, <1>3, <1>4, FilesAssumption

\* What rsync would send is noticed when it changes: see SentIsNoticed.
THEOREM SentNoticed == Spec => []SentIsNoticed
  <1>1. ASSUME IInv PROVE SentIsNoticed
    <2> SUFFICES ASSUME NEW i \in Items, NEW f \in Files,
                        \A k \in DOMAIN sources[i[1]].exclude : SelfMatching(sources[i[1]].exclude[k]),
                        Sent(f, sources[i[1]], sources[i[1]].paths[i[2]])
                 PROVE  Noticed(f, sources[i[1]], sources[i[1]].paths[i[2]])
      BY DEF SentIsNoticed
    <2> DEFINE path == sources[i[1]].paths[i[2]]
               ex == sources[i[1]].exclude
               before == IF path = <<>> THEN <<>> ELSE <<NameOf(path)>>
               rest == Rest(path, f)
    <2>1. path \in PathOf /\ ex \in Seq(PatternOf)
      <3>1. path \in PathOf /\ sources[i[1]] \in Built
        BY <1>1, ItemFacts
      <3> QED BY <3>1 DEF Built
    <2>2. Below(path, f) /\ ~RsyncExcludes(before \o rest, ex)
      BY DEF Sent
    <2>3. before \in Seq(Names) /\ (path # <<>> => before = <<NameOf(path)>> /\ NameOf(path) \in Names)
      <3>1. CASE path = <<>>
        BY <3>1
      <3>2. CASE path # <<>>
        <4>1. path \in Seq(Names) /\ path # <<>>
          BY <2>1, <3>2 DEF PathOf
        <4> HIDE DEF path
        <4>2. NameOf(path) \in Names
          BY <4>1 DEF NameOf
        <4> QED BY <3>2, <4>2
      <3> QED BY <3>1, <3>2
    <2> HIDE DEF path, ex, before, rest
    <2>4. CASE path \in Dirs
      <3>1. f \in Seq(Names) /\ Len(path) < Len(f) /\ Len(path) \in 0..Len(f)
        BY <2>1, <2>2, <2>4, BelowFile DEF PathOf
      <3>2. rest \in Seq(Names) /\ Len(rest) = Len(f) - Len(path)
        BY <3>1, Parted DEF rest, Rest
      <3>3. rest # <<>>
        BY <3>1, <3>2
      <3>4. ~IsExcluded(rest, ex)
        BY <2>1, <2>2, <2>3, <3>2, ExcludedByBoth DEF ex
      <3>5. RelativeParts(f, path) = rest
        BY <2>2, <2>4 DEF RelativeParts, rest
      <3> QED BY <3>3, <3>4, <3>5 DEF Noticed, path, ex
    <2>5. CASE path \notin Dirs
      <3>1. f = path /\ path # <<>> /\ path \in Seq(Names)
        BY <2>1, <2>2, <2>5, BelowFile DEF PathOf
      <3>2. rest = <<>>
        BY <3>1 DEF rest, Rest
      <3>3. before = <<NameOf(path)>> /\ NameOf(path) \in Names
        BY <2>3, <3>1
      <3>4. before \o rest = <<>> \o <<NameOf(path)>>
        BY <3>2, <3>3
      <3>5. <<NameOf(path)>> \in Seq(Names) /\ <<>> \in Seq(Names) /\ <<NameOf(path)>> # <<>>
        BY <3>3
      <3>6. ~IsExcluded(<<NameOf(path)>>, ex)
        BY <2>1, <2>2, <3>4, <3>5, ExcludedByBoth DEF ex
      <3>7. RelativeParts(f, path) = <<NameOf(path)>>
        BY <2>5, <3>1 DEF RelativeParts
      <3> QED BY <3>5, <3>6, <3>7 DEF Noticed, path, ex
    <2> QED BY <2>4, <2>5
  <1> QED BY <1>1, SettingsInvariant, PTL
================================================================================
