-------------------------------- MODULE Settings --------------------------------
(***************************************************************************)
(* config.py: how agent.yaml, or bot.yaml with the bot's environment,      *)
(* becomes a configuration or an error; and what watcher.py and rsync make *)
(* of an agent's configuration that was accepted.                          *)
(*                                                                         *)
(* Paths of the laptop are sequences of names, the root <<>>.  The disk    *)
(* tells where each configured path leads: [is |-> "there", at |-> path],  *)
(* or nowhere.  It may change during a load, between the check that a path *)
(* exists and its resolution.                                              *)
(***************************************************************************)
EXTENDS Excludes

CONSTANTS
  Names,              \* names of files and directories
  AgentDocs,          \* what agent.yaml may hold
  BotDocs,            \* what bot.yaml and the bot's environment may hold
  Disks,              \* where the configured paths may lead
  Own,                \* Own[x]: the configured path x made absolute, no link followed
  Dirs, Files,        \* directories and files of the laptop
  Str,                \* Str[v]: str(v)
  BadLabel,           \* labels that are blank or hold one of _FORBIDDEN_IN_LABEL
  DefaultExcludes,    \* DEFAULT_EXCLUDES
  PublicMax, LocalMax \* _PUBLIC_MAX_PART_MB, _LOCAL_MAX_PART_MB

Errors == {"ConfigError", "otherError"}

PathOf == Seq(Names)
\* A pattern that ends in a slash spells out a name only if it is that name alone.
PatternOf ==
  {p \in [text : Names \cup {""}, names : Seq(SUBSET Names), dir : BOOLEAN, anchored : BOOLEAN] :
     p.dir /\ p.text # "" => Len(p.names) = 1 /\ ~p.anchored}
SourceOf ==
  [mapping : BOOLEAN, label : DOMAIN Str, paths : Seq(DOMAIN Own),
   excludeIsList : BOOLEAN, exclude : Seq(PatternOf)]
AgentDocOf ==
  [read : {"ok", "refused", "notUtf8"}, remote : BOOLEAN, sources : Seq(SourceOf)]

ASSUME SettingsAssumption ==
  /\ PublicMax \in Nat /\ LocalMax \in Nat /\ "" \notin Names
  /\ AgentDocs \subseteq AgentDocOf /\ DefaultExcludes \in Seq(PatternOf)
  /\ \A x \in DOMAIN Own : Own[x] \in PathOf
  /\ \A d \in Disks, x \in DOMAIN Own :
       d[x].is \in {"there", "missing", "loop", "denied", "noUser"}
         /\ (d[x].is = "there" => d[x].at \in PathOf)

\* A laptop's files lie in its directories.
ASSUME FilesAssumption ==
  /\ Files \subseteq PathOf /\ Dirs \subseteq PathOf /\ Dirs \cap Files = {} /\ <<>> \in Dirs
  /\ \A f \in Files : \A n \in 0..(Len(f) - 1) : SubSeq(f, 1, n) \in Dirs

VARIABLES
  program, \* the program that starts
  doc,     \* its document
  disk,    \* where the configured paths lead
  pc,      \* "read", "sources", "exists", "resolve", "upload" or "done"
  sources, \* the Source objects built, the last one with the paths found so far
  result   \* "none", "ok" or one of Errors

vars == <<program, doc, disk, pc, sources, result>>

Init ==
  /\ \/ program = "agent" /\ doc \in AgentDocs
     \/ program = "bot" /\ doc \in BotDocs
  /\ disk \in Disks
  /\ pc = "read" /\ sources = <<>> /\ result = "none"

Go(where) == pc' = where /\ UNCHANGED <<program, doc, disk, result>>
End(with) == pc' = "done" /\ result' = with /\ UNCHANGED <<program, doc, disk, sources>>

--------------------------------------------------------------------------------
(* _read_yaml() and load_agent_config() *)

\* A file that is not UTF-8 is neither an OSError nor a YAMLError.
ReadFails ==
  /\ pc = "read" /\ doc.read # "ok"
  /\ End(IF doc.read = "notUtf8" THEN "otherError" ELSE "ConfigError")

\* remote, and the list of sources
ReadAgent ==
  /\ pc = "read" /\ program = "agent" /\ doc.read = "ok"
  /\ IF ~doc.remote \/ doc.sources = <<>>
       THEN End("ConfigError")
       ELSE Go("sources") /\ UNCHANGED sources

Raw == doc.sources[Len(sources)]   \* the entry of the source being built
Paths == sources[Len(sources)].paths
NextPath == Raw.paths[Len(Paths) + 1] \* its next path

\* _build_source() up to its loop over the paths
OpenSource ==
  /\ pc = "sources" /\ Len(sources) < Len(doc.sources)
  /\ LET raw == doc.sources[Len(sources) + 1] IN
     IF ~raw.mapping \/ Str[raw.label] \in BadLabel \/ raw.paths = <<>>
       THEN End("ConfigError")
       ELSE /\ sources' = Append(sources, [label |-> Str[raw.label], paths |-> <<>>,
                                           exclude |-> DefaultExcludes])
            /\ Go("exists")

\* expanduser() and exists(): no home directory of that name, or no permission to
\* look, are no ConfigError.
PathExists ==
  /\ pc = "exists" /\ Len(Paths) < Len(Raw.paths)
  /\ CASE disk[NextPath].is \in {"noUser", "denied"} -> End("otherError")
       [] disk[NextPath].is \in {"missing", "loop"} -> End("ConfigError")
       [] disk[NextPath].is = "there" -> Go("resolve") /\ UNCHANGED sources

\* resolve(): a path that has gone since is taken as it is written.
PathResolved ==
  /\ pc = "resolve"
  /\ LET to == IF disk[NextPath].is = "there" THEN disk[NextPath].at ELSE Own[NextPath]
     IN IF disk[NextPath].is = "loop" THEN End("ConfigError")
        ELSE /\ sources' = [sources EXCEPT ![Len(sources)].paths = Append(@, to)]
             /\ Go("exists")

NameOf(path) == IF path = <<>> THEN "" ELSE path[Len(path)]

\* Mutant: the names the user wrote are compared.
ConflictAsWritten(paths) ==
  \E m, n \in DOMAIN paths : m # n /\ NameOf(Own[Raw.paths[m]]) = NameOf(Own[Raw.paths[n]])

\* duplicates
Conflict(paths) == \E m, n \in DOMAIN paths : m # n /\ NameOf(paths[m]) = NameOf(paths[n])

\* Mutant: the source's own patterns take the place of the defaults.
CloseSourceReplaces ==
  /\ pc = "exists" /\ Len(Paths) = Len(Raw.paths)
  /\ IF Conflict(Paths) \/ ~Raw.excludeIsList
       THEN End("ConfigError")
       ELSE /\ sources' = [sources EXCEPT ![Len(sources)].exclude = Raw.exclude]
            /\ Go("sources")

\* The rest of _build_source().
CloseSource ==
  /\ pc = "exists" /\ Len(Paths) = Len(Raw.paths)
  /\ IF Conflict(Paths) \/ ~Raw.excludeIsList
       THEN End("ConfigError")
       ELSE /\ sources' = [sources EXCEPT ![Len(sources)].exclude = @ \o Raw.exclude]
            /\ Go("sources")

\* The labels, and the end of load_agent_config().
CloseAgent ==
  /\ pc = "sources" /\ Len(sources) = Len(doc.sources)
  /\ End(IF \E m, n \in DOMAIN sources : m # n /\ sources[m].label = sources[n].label
           THEN "ConfigError" ELSE "ok")

--------------------------------------------------------------------------------
(* load_bot_config() *)

\* The store and the secrets.
ReadBot ==
  /\ pc = "read" /\ program = "bot" /\ doc.read = "ok"
  /\ CASE doc.store \in {"noUser", "denied"} -> End("otherError")
       [] doc.store \in {"none", "notDir"} \/ ~doc.secrets -> End("ConfigError")
       [] OTHER -> Go("upload") /\ UNCHANGED sources

\* _parse_api_base(): whether urlsplit() or .port raise, and whether the URL is a
\* bare scheme and host.
BaseBreaks(b) == b.port = "brackets" \/ (b.bare /\ b.port = "invalid")

\* Mutant: the host is compared as it was typed.
IsPublicAsTyped(b) == b.scheme = "https" /\ b.host = "public" /\ ~b.upper /\ b.port = "none"

\* The normalised base is _PUBLIC_API_BASE: the host in lower case, a port kept.
IsPublic(b) == b.scheme = "https" /\ b.host = "public" /\ b.port = "none"

\* _parse_max_part_mb(): "part" is 0 for what int() does not take.
PartFits(part, b) == part > 0 /\ part <= (IF IsPublic(b) THEN PublicMax ELSE LocalMax)

\* _parse_upload_settings(), and the end of load_bot_config().
CloseBot ==
  /\ pc = "upload"
  /\ End(CASE BaseBreaks(doc.base) -> "otherError"
           [] ~doc.base.bare \/ ~PartFits(doc.part, doc.base) -> "ConfigError"
           [] OTHER -> "ok")

\* Files are moved and links are changed while the configuration is read; users
\* come and go less often.
DiskChanges ==
  /\ pc = "resolve"
  /\ disk' \in Disks \ {disk}
  /\ \A x \in DOMAIN disk : (disk'[x].is = "noUser") = (disk[x].is = "noUser")
  /\ UNCHANGED <<program, doc, pc, sources, result>>

Next ==
  \/ ReadFails \/ ReadAgent \/ OpenSource \/ PathExists \/ PathResolved \/ CloseSource
  \/ CloseAgent \/ ReadBot \/ CloseBot \/ DiskChanges

Spec == Init /\ [][Next]_vars

--------------------------------------------------------------------------------
(* What becomes of an accepted configuration *)

\* Where build_rsync_args() puts the path of a source, below the store: under the
\* label, and under its own name unless it is the root of the disk.
Destination(label, path) ==
  (IF label = "." THEN <<>> ELSE <<label>>) \o (IF path = <<>> THEN <<>> ELSE <<NameOf(path)>>)

Below(path, f) == Len(path) <= Len(f) /\ SubSeq(f, 1, Len(path)) = path
Rest(path, f) == SubSeq(f, Len(path) + 1, Len(f))

\* build_targets() and _relative_parts(): <<>> when f is not below the target.
RelativeParts(f, path) ==
  IF path \in Dirs THEN IF Below(path, f) THEN Rest(path, f) ELSE <<>>
  ELSE IF f = path THEN <<NameOf(f)>> ELSE <<>>

\* match_target(): the targets of source s it may return for a change of f.
Noticed(f, s, path) ==
  RelativeParts(f, path) # <<>> /\ ~IsExcluded(RelativeParts(f, path), s.exclude)

\* The transfer of "path" takes f along: rsync's paths begin with the name of what
\* it was told to send.
Sent(f, s, path) ==
  /\ f \in Files /\ Below(path, f)
  /\ ~RsyncExcludes((IF path = <<>> THEN <<>> ELSE <<NameOf(path)>>) \o Rest(path, f), s.exclude)

\* An item of the accepted configuration, as numbers of source and path.
Items ==
  IF program = "agent" /\ result = "ok"
    THEN UNION {{<<m, n>> : n \in DOMAIN sources[m].paths} : m \in DOMAIN sources}
    ELSE {}

--------------------------------------------------------------------------------
(* Properties *)

TypeOK ==
  /\ program \in {"agent", "bot"} /\ disk \in Disks
  /\ doc \in (IF program = "agent" THEN AgentDocs ELSE BotDocs)
  /\ pc \in {"read", "sources", "exists", "resolve", "upload", "done"}
  /\ result \in {"none", "ok"} \cup Errors
  /\ (pc = "done") = (result # "none")
  /\ \A m \in DOMAIN sources :
       /\ DOMAIN sources[m] = {"label", "paths", "exclude"}
       /\ Len(sources[m].paths) <= Len(doc.sources[m].paths)
       /\ Len(sources[m].exclude) >= Len(DefaultExcludes)

\* No two items of an accepted configuration are stored over or inside each other,
\* whatever links were resolved and whatever changed meanwhile.  The label "." is
\* accepted and is the store itself: it is left out here.
DistinctDestinations ==
  \A i, j \in Items :
    LET s == sources[i[1]]  t == sources[j[1]] IN
    i # j /\ "." \notin {s.label, t.label} /\ <<>> \notin {s.paths[i[2]], t.paths[j[2]]} =>
      ~Below(Destination(s.label, s.paths[i[2]]), Destination(t.label, t.paths[j[2]]))

\* A pattern without wildcards that do not match themselves, as "[1]".
SelfMatching(p) == p.dir /\ p.text # "" => p.text \in p.names[1]

\* A change of a file that the upload of an item takes along is noticed for that
\* item: is_excluded() passes over nothing that rsync would send.
SentIsNoticed ==
  \A i \in Items :
    LET s == sources[i[1]] IN
    (\A k \in DOMAIN s.exclude : SelfMatching(s.exclude[k])) =>
      \A f \in Files : Sent(f, s, s.paths[i[2]]) => Noticed(f, s, s.paths[i[2]])

\* A bot at the public API never makes parts above its limit, however the host was
\* typed - unless the port is spelled out, which makes it another server.
PublicPartFits ==
  program = "bot" /\ result = "ok" =>
    /\ doc.part > 0
    /\ doc.base.host = "public" /\ doc.base.scheme = "https" /\ doc.base.port = "none" =>
         doc.part <= PublicMax
================================================================================
