------------------------------- MODULE MCSettings -------------------------------
(* A laptop with the folders d and e, each with a folder d or a repository in  *)
(* it, and configured paths that are such a folder, a file, or a link.         *)
EXTENDS Settings

MCNames == {"d", "e", "f", "k", "a", ".git", "build", "x.swp", "a[1]"}

MCDirs == {<<>>, <<"d">>, <<"d", ".git">>, <<"e">>, <<"e", "d">>, <<"e", "build">>}
MCFiles == {<<"d", "a">>, <<"d", ".git", "a">>, <<"e", ".git">>, <<"e", "d", "a">>,
            <<"e", "build", "a">>, <<"e", "x.swp">>, <<"f">>}

MCOwn == [dir |-> <<"d">>, other |-> <<"e">>, link |-> <<"k">>, file |-> <<"e", ".git">>]

There(path) == [is |-> "there", at |-> path]
Not(why) == [is |-> why]

MCDisks ==
  {[dir |-> There(<<"d">>), other |-> o, link |-> l, file |-> There(<<"e", ".git">>)] :
     o \in {There(<<"e">>), Not("denied"), Not("noUser")},
     l \in {There(<<"e", "d">>), There(<<"e">>), Not("missing"), Not("loop")}}

Pattern(text, names, isDir) == [text |-> text, names |-> names, dir |-> isDir, anchored |-> FALSE]

MCDefaultExcludes == <<Pattern(".git", <<{".git"}>>, TRUE), Pattern("", <<{"x.swp"}>>, FALSE)>>

Patterns ==
  {Pattern("build", <<{"build"}>>, TRUE), Pattern("", <<{"a"}>>, FALSE),
   Pattern("", <<{"build"}, {"a"}>>, FALSE), Pattern("a[1]", <<{"d"}>>, TRUE),
   [text |-> "", names |-> <<{"e"}, {"d"}>>, dir |-> TRUE, anchored |-> TRUE]}

MCStr == [one |-> "1", text1 |-> "1", null |-> "None", dot |-> ".", blank |-> " ", up |-> "a/b"]
MCBadLabel == {" ", "a/b"}

Source(label, paths, exclude) ==
  [mapping |-> TRUE, label |-> label, paths |-> paths, excludeIsList |-> TRUE, exclude |-> exclude]

Lists == {<<"dir">>, <<"other">>, <<"dir", "link">>, <<"link", "other">>, <<"file">>,
          <<"dir", "other", "link">>}

Firsts ==
  {Source("one", paths, exclude) : paths \in Lists, exclude \in {<<>>} \cup {<<p>> : p \in Patterns}}
Seconds ==
  {Source(label, paths, <<>>) : label \in {"text1", "null", "dot"}, paths \in Lists}
Broken ==
  {Source("blank", <<"dir">>, <<>>), Source("up", <<"dir">>, <<>>), Source("null", <<>>, <<>>),
   [Source("null", <<"dir">>, <<>>) EXCEPT !.mapping = FALSE],
   [Source("null", <<"dir">>, <<>>) EXCEPT !.excludeIsList = FALSE]}

AgentDoc(list) == [read |-> "ok", remote |-> TRUE, sources |-> list]
Unread(why) == [read |-> why, remote |-> TRUE, sources |-> <<>>]

MCAgentDocs ==
  {Unread("notUtf8"), Unread("refused"), AgentDoc(<<>>), [AgentDoc(<<>>) EXCEPT !.remote = FALSE]}
  \cup {AgentDoc(<<s>>) : s \in Firsts \cup Broken}
  \cup {AgentDoc(<<s, t>>) : s \in {f \in Firsts : f.exclude = <<>>}, t \in Seconds}

Base(scheme, host, upper, port, bare) ==
  [scheme |-> scheme, host |-> host, upper |-> upper, port |-> port, bare |-> bare]
BotDoc(store, secrets, part, base) ==
  [read |-> "ok", store |-> store, secrets |-> secrets, part |-> part, base |-> base]

MCBotDocs ==
  {BotDoc(store, secrets, 1, Base("https", "own", FALSE, "none", TRUE)) :
     store \in {"ok", "none", "notDir", "denied", "noUser"}, secrets \in {TRUE, FALSE}}
  \cup {BotDoc("ok", TRUE, part, Base(scheme, host, upper, port, TRUE)) :
          part \in {0, 2, 3, 5, 6}, scheme \in {"http", "https"}, host \in {"public", "own"},
          upper \in {TRUE, FALSE}, port \in {"none", "other"}}
  \cup {BotDoc("ok", TRUE, 1, Base("https", "own", FALSE, port, bare)) :
          port \in {"none", "invalid", "brackets"}, bare \in {TRUE, FALSE}}
================================================================================
