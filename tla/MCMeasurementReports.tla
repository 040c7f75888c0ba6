------------------------ MODULE MCMeasurementReports ------------------------
(* Small instances of MeasurementReports for TLC. *)
EXTENDS MeasurementReports

Part(before, content_type, after, body) ==
  [before |-> before, content_type |-> content_type, after |-> after, body |-> body]

Message(parts, ending) == [parts |-> parts, ending |-> ending]

Json == Part(<<>>, "json", <<>>, <<"doc">>)
Ngap == Part(<<>>, "ngap", <<"id">>, <<"pdu">>)

(* The header first or last, content with blank lines and header lines.    *)
GoodParts ==
  {<<Json, Ngap>>,
   <<Part(<<"id">>, "json", <<>>, <<"doc", "blank">>),
     Part(<<"id">>, "ngap", <<>>, <<"pdu", "blank", "json", "data">>)>>}

BadParts ==
  {<<Json>>, <<Json, Ngap, Ngap>>, <<Ngap, Json>>,
   <<Part(<<>>, "json", <<>>, <<"docOther">>), Ngap>>,
   <<Part(<<>>, "json", <<>>, <<"object">>), Ngap>>,
   <<Json, Part(<<>>, "ngap", <<>>, <<"data", "pdu">>)>>,
   <<Json, Part(<<"id">>, "other", <<>>, <<"pdu">>)>>,
   <<Part(<<>>, "other", <<>>, <<"doc">>), Ngap>>,
   <<Json, Part(<<>>, "ngap", <<>>, <<>>)>>}

MCMessages ==
  {Message(parts, ending) : parts \in GoodParts, ending \in {<<"close">>, <<"cut">>}}
    \cup {Message(parts, <<"close">>) : parts \in BadParts}
    \cup {Message(<<Json, Ngap>>, <<>>), Message(<<>>, <<"data">>)}

MCLines == {"delimiter", "close", "cut", "json", "ngap", "other", "id", "blank",
            "doc", "docOther", "object", "pdu", "data"}

MCTrpIds == 1..4

Location(xYZunit, x, y, z) == [xYZunit |-> xYZunit, value |-> <<x, y, z>>]

(* gNB 2 has a TRP in an unknown unit; neither has a TRP 4.                *)
MCTrps ==
  (<<1, 1>> :> Location("mm", 1, 2, 2)) @@ (<<1, 2>> :> Location("mm", -2, 1, 2))
    @@ (<<1, 3>> :> Location("mm", 2, -2, 1)) @@ (<<2, 1>> :> Location("cm", 1, 0, 0))
    @@ (<<2, 2>> :> Location("mm", 3, 0, 0)) @@ (<<2, 3>> :> Location("m", 0, 1, 1))

None == <<>>
k1(ns) == 1 :> 492512 + ns
k0(ns) == 0 :> 985024 + 2 * ns

(* A TRP may report in one granularity, in two, or not at all; ...         *)
MCReports ==
  {<<a, b, c, d>> : a \in {None, k1(3), k1(10), k0(3) @@ k1(3)},
                    b \in {k1(3), k1(300)},
                    c \in {None, k1(3)},
                    d \in {None, k1(3)}}

(* ... or all in another granularity.                                      *)
MCReportsOther == {<<k1(3), k1(3), k1(3), None>>, <<k0(3), k0(3), k0(3), None>>}

=============================================================================
