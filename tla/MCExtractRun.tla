---------------------------- MODULE MCExtractRun ----------------------------
(* Small instances of ExtractRun for TLC. *)
EXTENDS ExtractRun

\* The login page is also served with a query, at the same location.
MCLocation ==
    [u \in {"home", "next", "login", "login?again", "c0", "c1", "c2"} |->
        IF u = "login?again" THEN "login" ELSE u]

MCExpand == [t \in {"c", "d"} |-> [n \in {<<0>>, <<1>>, <<2>>, <<0, 2>>} |->
    CASE t = "d"     -> "next"
      [] n = <<0>>   -> "c0"
      [] n = <<1>>   -> "c1"
      [] OTHER       -> "c2"]]

Route(t, s) == [template |-> t, score |-> s]
Unit(n, u)  == [number |-> n, url |-> u]

\* A link written twice and a listed unit with a route; two templates that tie,
\* so that no unit is proven; a better template against a more frequent one, and a
\* unit at the URL of another.
MCDocuments == {
    [links |-> <<Unit(<<0, 1>>, Absolute("c2")), Unit(<<1>>, Absolute("c1"))>>,
     visible |-> {<<1>>, <<0, 2>>}, routes |-> <<Route("c", 2)>>],
    [links |-> <<>>, visible |-> {<<1>>}, routes |-> <<Route("c", 2), Route("d", 2)>>],
    [links |-> <<Unit(<<2>>, Absolute("c1"))>>, visible |-> {<<0>>},
     routes |-> <<Route("c", 3), Route("d", 2), Route("d", 2), Route("d", 0)>>]}

\* No list, lists without and with URLs (one URL twice, and for another unit), and
\* what is no list.
Bare  == List(<<Unit(<<>>, Missing), Unit(<<2>>, Missing)>>)
Wrong == List(<<Unit(<<2>>, Absolute("c1")), Unit(<<2>>, Absolute("c1"))>>)

Answer(units, next) == [units |-> units, next |-> next]

\* No next page, a new one, one written without its host, a unit's own, and one
\* the loop does not resolve.
MCAnswers == {
    Answer(Nothing, Missing), Answer(Bare, Absolute("next")), Answer(Other, Absolute("next")),
    Answer(Nothing, [form |-> "rooted", url |-> "c1"]), Answer(Wrong, Absolute("c1")),
    Answer(Nothing, [form |-> "relative", url |-> "next"])}

=============================================================================
