----------------------------- MODULE MCScanner -----------------------------
(* Values that nest one level deeper than the limit, with texts that are   *)
(* together longer than the budget.                                        *)
EXTENDS Scanner

Plain == [kind |-> "plain", width |-> 0, len |-> 0, dirty |-> FALSE]

\* A value of one part.
Leaf(part) == [p \in {<<>>} |-> part]

Text(kind) == {Leaf([Plain EXCEPT !.kind = kind]),
               Leaf([Plain EXCEPT !.kind = kind, !.len = 1, !.dirty = TRUE])}
Key == Text("key")
Leaves == {Leaf(Plain), Leaf([Plain EXCEPT !.kind = "text", !.len = 2])}
              \cup Text("text")

Container(children) ==
    LET places == {<<>>} \cup UNION {{<<i>> \o p : p \in DOMAIN children[i]} :
                                        i \in DOMAIN children}
    IN [p \in places |->
           IF p = <<>> THEN [Plain EXCEPT !.kind = "container",
                                          !.width = Len(children)]
           ELSE children[Head(p)][Tail(p)]]

\* Lists and mappings of one child, and of up to two.
SingleList(vs) == {Container(<<v>>) : v \in vs}
Lists(vs) == {Container(<<>>)} \cup SingleList(vs)
                 \cup {Container(<<v, w>>) : v, w \in vs}
SingleMapping(vs) == {Container(<<k, v>>) : k \in Key, v \in vs}
Mappings(vs) == SingleMapping(vs)
                    \cup {Container(<<k, v, l, w>>) : k, l \in Key, v, w \in vs}

Flat == Leaves \cup Lists(Leaves) \cup Mappings(Leaves)
Nested == Flat \cup Lists(Flat) \cup SingleMapping(Flat)
TooDeep == Nested \cup SingleList(Nested)
=============================================================================
