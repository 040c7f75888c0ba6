------------------------- MODULE MeasurementReports -------------------------
(***************************************************************************)
(* What becomes of the gNBs' reports: a request receives the answer about  *)
(* the UE and one report per gNB, each through a server, collects what the *)
(* reports say and computes the location.                                  *)
(*                                                                         *)
(* How a notification finds its request is NrppaTransactions' subject; one *)
(* that does not is a timeout here.                                        *)
(***************************************************************************)
EXTENDS N2Notification, PositionEstimation, SequencesExt

CONSTANTS
  Lines,          \* what a line of a message may be
  Messages,       \* what the AMF may send, as parts and ending
  TrpIds,         \* ids that a report may name, the same for every gNB
  Trps,           \* gnb: <<gNB, TRP>> to the TRP's location and its unit
  Reports,        \* what a gNB may report: values by granularity for each id
  SpeedOfLight    \* millimetres per nanosecond: 300 in the code

(* A message is put together of lines, whatever lines these are.           *)
ASSUME MessagesAssumption ==
  /\ {"delimiter", "close", "cut", "id", "blank"} \subseteq Lines
  /\ \A message \in Messages :
       message.parts \in Seq(SentPart(Lines)) /\ message.ending \in Seq(Lines)

(* Ids and coordinates are integers, and finitely many TRPs are known.     *)
ASSUME TrpsAssumption ==
  /\ TrpIds \subseteq Int
  /\ IsFiniteSet(DOMAIN Trps) /\ DOMAIN Trps \subseteq Int \X TrpIds
  /\ \A trp \in DOMAIN Trps : Trps[trp].value \in Int \X Int \X Int

(* A TRP has integers in some of the granularities 0 to 5, or in none.     *)
ASSUME ReportsAssumption ==
  \A report \in Reports : \A id \in TrpIds :
    \E granularities \in SUBSET (0..5) : report[id] \in [granularities -> Int]

ASSUME SpeedAssumption == SpeedOfLight \in Int

VARIABLES
  server,         \* "http1" or "http2"
  pc,             \* where the request is
  left,           \* gNBs that are not measured yet
  result,         \* values by granularity, for each <<gNB, TRP>>
  note            \* the last notification

vars == <<server, pc, left, result, note>>

Gnbs == {trp[1] : trp \in DOMAIN Trps}

NoNote == [sent |-> <<>>]

Init ==
  /\ server \in {"http1", "http2"}
  /\ pc = "srs" /\ left = Gnbs
  /\ result = [trp \in Gnbs \X TrpIds |-> <<>>]
  /\ note = NoNote

-----------------------------------------------------------------------------
(* Notifications                                                           *)

(* An answer fulfils the promise that the request waits for, or its wait   *)
(* ends without it.                                                        *)
Receive(kind, message, app, Fulfilled, Failed) ==
  LET parts == Parts(Compose(message.parts, message.ending))
  IN  /\ note = NoNote
      /\ note' = [kind |-> kind, parts |-> message.parts,
                  ending |-> message.ending, app |-> app,
                  sent |-> Responses(server, kind, parts, app)]
      /\ \/ /\ Reaches(server, parts) /\ app \in {"taken", "twice"}
            /\ Fulfilled
         \/ /\ ~(Reaches(server, parts) /\ app \in {"taken", "twice"})
            /\ Failed
      /\ UNCHANGED server

Fail == pc' = "failed" /\ UNCHANGED <<left, result>>

PositioningInformation(message, app) ==
  /\ pc = "srs"
  /\ Receive("ue", message, app,
             pc' = "measure" /\ UNCHANGED <<left, result>>, Fail)

(* The exchange is over.  Nothing else depends on when.                    *)
Responded ==
  /\ note # NoNote
  /\ note' = NoNote
  /\ UNCHANGED <<server, pc, left, result>>

(* Mutant of CollectResult: the TRPs of all gNBs share the entries.        *)
CollectResult_ById(gnb, report) ==
  result' = [trp \in TrpIds |-> report[trp]]

(* A value replaces that of the same granularity.                          *)
Collected(values, new) ==
  [k \in DOMAIN values \cup DOMAIN new |->
     IF k \in DOMAIN new THEN new[k] ELSE values[k]]

CollectResult(gnb, report) ==
  result' = [trp \in DOMAIN result |->
               IF trp[1] = gnb THEN Collected(result[trp], report[trp[2]])
               ELSE result[trp]]

MeasurementReport(message, app) ==
  /\ pc = "measure" /\ left # {}
  /\ Receive("nonUe", message, app,
             /\ \E report \in Reports : CollectResult(Min(left), report)
             /\ left' = left \ {Min(left)}
             /\ UNCHANGED pc,
             Fail)

-----------------------------------------------------------------------------
(* compute_location                                                        *)

(* Division of C++.                                                        *)
Quotient(n, d) == IF n < 0 THEN -((-n) \div d) ELSE n \div d

(* T_ns_inv / T_inv is 10^9 / (4096 * 480000 / 2), reduced.  Every value   *)
(* is taken for one of granularity 1.                                      *)
ToaOf(value) == Quotient((value - 492512) * 3125, 3072)

MetersPerUnit == [mm |-> 1, cm |-> 10, dm |-> 100]   \* in millimetres

(* The order of the maps.                                                  *)
InOrder(S, before(_, _)) ==
  [i \in 1..Cardinality(S) |->
     CHOOSE x \in S : Cardinality({y \in S : before(y, x)}) = i - 1]

Before(s, t) == s[1] < t[1] \/ (s[1] = t[1] /\ s[2] < t[2])

(* The TRPs that are measured, known and located.                          *)
Used ==
  InOrder({trp \in DOMAIN Trps : /\ result[trp] # <<>>
                                 /\ Trps[trp].xYZunit \in DOMAIN MetersPerUnit},
          Before)

Position(trp) ==
  LET m == MetersPerUnit[Trps[trp].xYZunit]
  IN  [i \in 1..3 |-> m * Trps[trp].value[i]]

trp_pos == [i \in DOMAIN Used |-> Position(Used[i])]

Granularities(values) == InOrder(DOMAIN values, <)

ToasOf(values) ==
  [i \in DOMAIN Granularities(values) |-> ToaOf(values[Granularities(values)[i]])]

toas == FlattenSeq([i \in DOMAIN Used |-> ToasOf(result[Used[i]])])

dd_estimated ==
  LET t == toas IN [i \in 1..Len(t) - 1 |-> (t[i + 1] - t[1]) * SpeedOfLight]

(* Mutant of Enough: the ToAs are not counted.                             *)
Enough_TrpsOnly == Len(trp_pos) >= 4

Enough == Len(trp_pos) >= 4 /\ Len(toas) = Len(trp_pos)

ComputeLocation ==
  /\ pc = "measure" /\ left = {} /\ note = NoNote
  /\ pc' = IF Enough THEN "located" ELSE "failed"
  /\ UNCHANGED <<server, left, result, note>>

-----------------------------------------------------------------------------
Terminated ==
  /\ pc \in {"located", "failed"} /\ note = NoNote
  /\ UNCHANGED vars

Next ==
  \/ \E message \in Messages, app \in AppResults :
       PositioningInformation(message, app) \/ MeasurementReport(message, app)
  \/ Responded
  \/ ComputeLocation
  \/ Terminated

Spec == Init /\ [][Next]_vars

-----------------------------------------------------------------------------
(* Properties *)

(* The types of the variables.                                             *)
TypeOK ==
  /\ server \in {"http1", "http2"}
  /\ pc \in {"srs", "measure", "located", "failed"}
  /\ left \subseteq Gnbs
  /\ DOMAIN result = Gnbs \X TrpIds
  /\ \A trp \in DOMAIN result : DOMAIN result[trp] \subseteq 0..5
  /\ note # NoNote => note.app \in AppResults /\ note.sent \in Seq(Nat)

(* A multipart message is taken apart as it was put together, whatever the *)
(* order of its headers, with blank lines and header lines in its content, *)
(* and with the last CRLF or without, when the last part has the closing   *)
(* delimiter at its end.                                                   *)
IsContent(body) ==
  body # <<>> /\ \A i \in DOMAIN body : body[i] \notin {"delimiter", "close", "cut"}

WellFormed(parts, ending) ==
  /\ parts # <<>> /\ ending \in {<<"close">>, <<"cut">>}
  /\ \A i \in DOMAIN parts :
       parts[i].content_type \in ContentTypes /\ IsContent(parts[i].body)

PartsAsSent ==
  note # NoNote /\ WellFormed(note.parts, note.ending) =>
    LET parsed == Parts(Compose(note.parts, note.ending))
        n      == Len(note.parts)
        added  == IF note.ending = <<"cut">> THEN note.ending ELSE <<>>
    IN  /\ Len(parsed) = n
        /\ \A i \in 1..n :
             /\ parsed[i].content_type = note.parts[i].content_type
             /\ parsed[i].body = note.parts[i].body \o (IF i = n THEN added ELSE <<>>)

(* The delay in nanoseconds that a value stands for: k counts in 2^k Tc    *)
(* from the middle of its range, and a Tc is 10^9 / (4096 * 480000).       *)
DelayOf(k, value) == Quotient((value * 2 ^ k - 985024) * 3125, 6144)

Near(m, n) == m - n \in -1..1

(* A location is computed from ToAs that belong to the TRPs at whose       *)
(* positions they are used, in whatever order gNBs and TRPs reported and   *)
(* whichever of them were left out.                                        *)
ToaOfItsTrp ==
  pc = "located" =>
    /\ Len(toas) = Len(Used)
    /\ \A i \in DOMAIN Used :
         LET values == result[Used[i]]
         IN  1 \in DOMAIN values => Near(toas[i], DelayOf(1, values[1]))

(* The same in whichever granularity a TRP reports.                        *)
GranularityHeeded ==
  pc = "located" =>
    \A i \in DOMAIN Used :
      LET values == result[Used[i]]
      IN  \A k \in DOMAIN values : Near(toas[i], DelayOf(k, values[k]))

(* If the differences are those of a place, this place solves the system   *)
(* that is given to LAPACK, read as the code reads its solution, and there *)
(* are at least as many equations as unknowns.  With four TRPs the place   *)
(* has the height that the code assumes.                                   *)
Places == {<<x, y, FallbackUeHeight + z, r0>> :
             x \in -1..1, y \in -1..1, z \in -1..1, r0 \in 0..10}

TruePositionSolves ==
  pc = "located" =>
    LET pos == trp_pos  dd == dd_estimated
    IN  /\ Solved(pos, dd) <= Equations(pos)
        /\ \A u \in Places :
             /\ SeenFrom(pos, dd, u)
             /\ SolveZ(pos) \/ u[3] = FallbackUeHeight
             => Satisfied(pos, dd, u)

=============================================================================
