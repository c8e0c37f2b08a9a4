------------------------ MODULE MCWorkspaceArchives ------------------------
(* One import that may be sent any of some six hundred archives; two       *)
(* imports that compete for one slot; two exports of a Workspace that is   *)
(* mutated.                                                                *)
EXTENDS WorkspaceArchives


Node(id, parents) == [id |-> id, parents |-> parents, column |-> TRUE]
Analysis(id, parent, tab, state, query) ==
  [id |-> id, parent |-> parent, tab |-> tab, state |-> state, artifacts |-> <<>>,
   query |-> query, needs |-> <<"n1">>, inputs |-> <<>>]
Tab(id, analyses) == [id |-> id, analyses |-> analyses]
Content(nodes, tabs, analyses) == [nodes |-> nodes, tabs |-> tabs, analyses |-> analyses]

\* The archive an export would write, of any content and with any manifest.
Packed(c) ==
  LET m == [named |-> TRUE, nodes |-> c.nodes, tabs |-> c.tabs, analyses |-> c.analyses]
      File(path) == [path |-> <<"w">> \o path, key |-> path, kind |-> "file", safe |-> TRUE,
                     encrypted |-> FALSE, packed |-> 1, size |-> 1, sound |-> TRUE]
      files == DeclaredFiles(m)
  IN [bytes |-> 1, container |-> TRUE, manifest |-> m,
      members |-> [k \in DOMAIN files |-> File(files[k])]]

\* Every graph of three nodes whose parents are among these lists.
ParentLists == {<<>>, <<"n1">>, <<"n2">>, <<"n3">>, <<"n1", "n2">>, <<"n2", "n3">>,
                <<"n2", "n2">>, <<"n9">>}
Graph(g) == Packed(Content(<<Node("n1", g[1]), Node("n2", g[2]), Node("n3", g[3])>>, <<>>, <<>>))
Graphs == ParentLists \X ParentLists \X ParentLists

\* Forests of three Analyses, two of one Tab and one of another.
Forest(f) == Packed(Content(<<Node("n1", <<>>)>>,
                            <<Tab("t1", <<"a1", "a2">>), Tab("t2", <<"a3">>)>>,
                            <<Analysis("a1", f[1], "t1", "succeeded", FALSE),
                              Analysis("a2", f[2], "t1", "failed", FALSE),
                              Analysis("a3", f[3], "t2", f[4], FALSE)>>))
Forests == {NoParent, "a1", "a2"} \X {NoParent, "a1", "a2"} \X {NoParent, "a3", "a1"}
             \X {"succeeded", "running"}

Base == Packed(Content(<<Node("n1", <<>>)>>, <<>>, <<>>))
Good == Packed(Content(<<Node("n2", <<"n1">>), Node("n1", <<>>)>>, <<>>, <<>>))
Other == [Base.members[1] EXCEPT !.path = <<"w", "notes">>, !.key = <<"notes">>]
WithMember(m) == [Base EXCEPT !.members = Append(@, m)]
Meta(prefix) == [Other EXCEPT !.path = Append(prefix, Metadata), !.key = Append(prefix, Metadata)]
WithNodes(nodes) == [Base EXCEPT !.manifest.nodes = nodes]
WithTabs(tabs) == [Base EXCEPT !.manifest.tabs = tabs]
Queryable(a) == Packed(Content(<<Node("n1", <<>>)>>, <<Tab("t1", <<"a1">>)>>, <<a>>))
Query == Analysis("a1", NoParent, "t1", "succeeded", TRUE)

\* Good archives, and one deviation each from a good one.
Deviations ==
  <<Good, [Base EXCEPT !.bytes = 0], [Base EXCEPT !.bytes = 3],
    [Base EXCEPT !.container = FALSE], [Base EXCEPT !.members = <<>>],
    [Base EXCEPT !.members = Tail(@)], [Base EXCEPT !.members = <<Head(@)>>],
    [Base EXCEPT !.members[1].size = 3], [Base EXCEPT !.members[1].size = 2],
    [Base EXCEPT !.members[2].size = 2], [Base EXCEPT !.members[1].packed = 0],
    [Base EXCEPT !.members[1].packed = 3], [Base EXCEPT !.members[1].sound = FALSE],
    [Base EXCEPT !.manifest.named = FALSE],
    WithNodes(<<[Node("n1", <<>>) EXCEPT !.column = FALSE]>>),
    WithNodes(<<Node("n1", <<>>), Node("n1", <<>>)>>),
    Packed(Content([k \in 1..4 |-> Node(<<"n1", "n2", "n3", "n4">>[k], <<>>)], <<>>, <<>>)),
    WithTabs([k \in 1..6 |-> Tab(<<"t1", "t2", "t3", "t4", "t5", "t6">>[k], <<>>)]),
    WithTabs(<<Tab("t1", <<>>), Tab("t1", <<>>)>>), WithTabs(<<Tab("t1", <<"a1">>)>>),
    WithMember(Other), WithMember([Other EXCEPT !.safe = FALSE]),
    WithMember([Other EXCEPT !.encrypted = TRUE]), WithMember([Other EXCEPT !.kind = "link"]),
    WithMember([Other EXCEPT !.key = <<"data", "n1">>]),
    WithMember([Other EXCEPT !.kind = "dir", !.size = 0]),
    WithMember([Other EXCEPT !.path = <<"w", "data">>, !.key = <<"data">>]),
    WithMember([Other EXCEPT !.path = <<"w", "data">>, !.key = <<"data">>, !.kind = "dir"]),
    WithMember([Other EXCEPT !.path = <<"__MACOSX", "w", "x">>, !.key = <<"m", "x">>]),
    WithMember([Other EXCEPT !.path = <<"readme">>, !.key = <<"readme">>]),
    WithMember([Other EXCEPT !.path = <<"w", ".DS_Store">>, !.key = <<"ds">>]),
    WithMember(Meta(<<>>)), WithMember(Meta(<<"v">>)), WithMember(Meta(<<"w", "old">>)),
    WithMember(Meta(<<"__MACOSX">>)),
    Queryable([Query EXCEPT !.inputs = <<"n1">>, !.artifacts = <<"x">>]), Queryable(Query),
    Queryable([Query EXCEPT !.inputs = <<"n1">>, !.query = FALSE])>>

\* The name of an archive is what it is made from.
Others == {<<k>> : k \in DOMAIN Deviations}
MCArchives == [x \in Graphs \cup Forests \cup Others |->
                 IF x \in Others THEN Deviations[x[1]]
                 ELSE IF Len(x) = 3 THEN Graph(x) ELSE Forest(x)]
MCArchivesOf == [i \in Imports |-> IF i = "i1" THEN DOMAIN MCArchives ELSE {<<1>>, <<2>>}]
MCScenes == {{"i1"}, {"i2", "i3"}, {"e1", "e2"}}

\* What the exported Workspace may hold: a child listed before its parent, and
\* parents that have not ended.
OneTab(s1, s2, query) ==
  Content(<<Node("n2", <<"n1">>), Node("n1", <<>>)>>, <<Tab("t1", <<"a2", "a1", "a3">>)>>,
          <<Analysis("a2", "a1", "t1", s2, FALSE), Analysis("a1", NoParent, "t1", s1, query),
            Analysis("a3", "a2", "t1", "succeeded", FALSE)>>)
MCContents ==
  <<OneTab("failed", "running", FALSE), OneTab("running", "failed", FALSE),
    OneTab("failed", "cancelled", FALSE), OneTab("succeeded", "cancelled", TRUE)>>
=============================================================================
