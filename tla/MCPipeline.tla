----------------------------- MODULE MCPipeline -----------------------------
(***************************************************************************)
(* The applications and builds Pipeline is checked with. Main is the one   *)
(* of main.cc; the others differ from it in one respect each.              *)
(***************************************************************************)
EXTENDS Pipeline

\* The quotas are those of main.cc divided by four: 16 cores, of which a block
\* asks for 4.
SoCOnly == [k \in {"SoC"} |-> 4]
Both == [k \in {"SoC", "DPA"} |-> 4]

\* A description with return values that are narrowed, negative, given twice,
\* no number at all or too large for one or either of the functions that read
\* them (with IntMax = 511 and UlongMax = 1023), comparisons, another field, and
\* a component given twice.
Entry(field, op, number, value, verb, target, channel) ==
  [match |-> [field |-> field, op |-> op, value |-> [number |-> number, is |-> value]],
   action |-> [verb |-> verb, target |-> target, channel |-> channel]]

Graph ==
  <<[component |-> "root", entries |-> <<Entry("udp_sport", "=", TRUE, 10086, "fwd", "soc", "")>>],
    [component |-> "soc", entries |-> <<Entry("retval", "=", TRUE, 7, "drop", "", "")>>],
    [component |-> "soc", entries |->
      <<Entry("retval", "=", TRUE, 1, "fwd", "local_host", "default"),
        Entry("retval", "=", TRUE, 257, "drop", "", ""),
        Entry("retval", "=", TRUE, -1, "fwd", "dpa", ""),
        Entry("retval", "=", FALSE, 0, "drop", "", ""),
        Entry("retval", "=", TRUE, 515, "drop", "", ""),
        Entry("retval", "=", TRUE, -600, "drop", "", ""),
        Entry("retval", "=", TRUE, 1029, "drop", "", ""),
        Entry("retval", ">=", TRUE, 4, "drop", "", ""),
        Entry("retval", "!=", TRUE, 5, "drop", "", ""),
        Entry("retval", "none", FALSE, 0, "drop", "", "")>>],
    [component |-> "dpa", entries |-> <<Entry("retval", "=", TRUE, 2, "fwd", "soc", "")>>]>>

\* The second of two blocks of one component has a name of its own.
Name(kind, i) ==
  LET first == IF kind[i] = "SoC" THEN "soc" ELSE "dpa"
      other == IF kind[i] = "SoC" THEN "soc_2" ELSE "dpa_2"
  IN IF \E j \in 1 .. i - 1 : kind[j] = kind[i] THEN other ELSE first

App(kind, quota, remote, local, throws) ==
  [total |-> Both, kind |-> kind, quota |-> quota, handlers |-> [i \in DOMAIN kind |-> "all"],
   name |-> [i \in DOMAIN kind |-> Name(kind, i)], graph |-> Graph,
   wires |-> [h \in {"remote", "local"} |-> IF h = "remote" THEN remote ELSE local],
   throws |-> throws]

Builds == {TRUE, FALSE}
Main(throws) == [App(<<"SoC">>, <<1>>, {1}, {1}, throws) EXCEPT !.total = SoCOnly]

\* One block: of either component, wired to one host only, without all or any of
\* its handlers, asking for more than there is, of a component that is not enabled. Two
\* blocks: a chain between the hosts, of one component or both, that fits or
\* does not, with or without handlers.
MCSetups ==
  UNION {{Main(t),
          App(<<"DPA">>, <<1>>, {1}, {1}, t),
          App(<<"SoC">>, <<1>>, {1}, {}, t),
          [Main(t) EXCEPT !.handlers = <<"none">>],
          [App(<<"DPA">>, <<1>>, {1}, {1}, t) EXCEPT !.handlers = <<"some">>],
          [Main(t) EXCEPT !.quota = <<5>>],
          [Main(t) EXCEPT !.kind = <<"DPA">>],
          App(<<"DPA", "SoC">>, <<1, 3>>, {1}, {2}, t),
          [App(<<"DPA", "SoC">>, <<1, 3>>, {1}, {2}, t) EXCEPT !.handlers = <<"none", "all">>],
          App(<<"SoC", "SoC">>, <<3, 1>>, {1}, {2}, t),
          App(<<"SoC", "SoC">>, <<3, 2>>, {1, 2}, {2}, t),
          App(<<"DPA", "DPA">>, <<2, 1>>, {2}, {1}, t)} : t \in Builds}

\* Two cores' worth of quota too much.
MCSetupsTooMuch == {App(<<"SoC", "SoC">>, <<3, 2>>, {1}, {2}, TRUE)}

\* The documented chain, between a remote and a local host.
MCSetupsChain == {App(<<"SoC", "SoC">>, <<1, 1>>, {1}, {2}, TRUE)}

=============================================================================
