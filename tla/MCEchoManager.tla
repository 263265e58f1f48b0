-------------------------- MODULE MCEchoManager --------------------------
(* A site with an uplink (1) and two links (2, 3), two configuration files, *)
(* a passthrough area, an ordinary one and two deleted ones.  It starts     *)
(* with the flags -$ in every line, or with lines without them; a deleted   *)
(* area has then a passive link among its links, or none else.              *)
EXTENDS EchoManager

Sub(a) == [addr |-> a, passive |-> FALSE, deny |-> FALSE]
Passive(a) == [Sub(a) EXCEPT !.passive = TRUE]
Area(a, kind, passthr, base, links) ==
    [area |-> a, kind |-> kind, day |-> 0, group |-> "L", passthr |-> passthr, base |-> base,
     flags |-> TRUE, links |-> links]
Bare(line) == [line EXCEPT !.flags = FALSE]
Link(a, manager, groups, pw) ==
    [addr |-> a, manager |-> manager, groups |-> groups, noforward |-> FALSE,
     autoadd |-> a = 3, pw |-> pw]

a_line == Area("a", "echo", TRUE, 0, <<Sub(1), Sub(2)>>)
b_line == Area("b", "echo", FALSE, 1, <<Passive(2), [Passive(3) EXCEPT !.deny = TRUE]>>)
c_line(links) == Area("c", "deleted", TRUE, 2, links)
d_line(base, links) == Area("d", "deleted", TRUE, base, links)
Site(first, second) ==
    <<[areas |-> first,
       links |-> <<Link(1, FALSE, <<>>, "p"), Link(2, TRUE, <<"L">>, "p")>>],
      [areas |-> second,
       links |-> <<Link(3, FALSE, <<"L", "g">>, "p")>>]>>
MCStarts ==
    {Site(<<a_line, b_line>>, <<c_line(<<Sub(3)>>), Bare(d_line(3, <<Passive(2), Sub(1)>>))>>),
     Site(<<Bare(a_line), Bare(b_line)>>, <<c_line(<<Passive(3)>>), d_line(MaxBase, <<Sub(1)>>)>>)}

Area1(a, w) == [area |-> a, op |-> "area", where |-> w]
Mask(S, w) == [areas |-> S, op |-> "mask", where |-> w]
Group(g, w) == [group |-> g, op |-> "group", where |-> w]
Password == [pw |-> "q", op |-> "password"]
Letter1(from, commands) == [pw |-> "p", from |-> from, commands |-> commands]

MCLetters == {
    Letter1(2, <<Area1("e", 1), Password>>),
    Letter1(3, <<Area1("d", 1), [op |-> "info"], [addr |-> 2, op |-> "address"], Area1("c", 1)>>),
    Letter1(2, <<Mask({"a", "b", "e"}, 2), Area1("b", 4), [op |-> "end"], Area1("b", 2)>>),
    Letter1(2, <<[addr |-> 3, op |-> "address"], Area1("a", 1), Group("L", 3), Password>>),
    [Letter1(3, <<Area1("b", 1)>>) EXCEPT !.pw = "q"]}
MCOrders == {Letter1(3, <<Area1("e", 1)>>)}

MCUplinks == <<1>>
MCEchoLists == [a \in Addresses |-> IF a = 1 THEN {"c", "d", "e"} ELSE {}]
MCUpper == [g \in Groups |-> g]
MCLongName == [a \in Areas |-> 0]
MCGarbage == {None}
MCNewAreas == {<<"e", 2>>}
==========================================================================
