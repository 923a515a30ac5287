----------------------------- MODULE MCRunInputs -----------------------------
(* Two markets, two slots.  The rows: originals, corrections and a          *)
(* retraction that agree or conflict, a file given twice, and every way a   *)
(* single file can be bad.                                                  *)
EXTENDS RunInputsProps

Doc0 ==
    [source |-> 1, market |-> 1, mints |-> 1, pos |-> 1, native |-> 1, kind |-> "ORIGINAL",
     slot |-> 1, seq |-> 2, supersedes |-> 0, retracts |-> 0, body |-> 1]

Row(doc, seq) ==
    [path |-> seq, seq |-> seq, slot |-> doc.slot, source |-> 1, market |-> doc.market,
     issues |-> {}, read |-> TRUE, doc |-> doc]

First == Doc0
Second == [Doc0 EXCEPT !.pos = 2, !.slot = 2, !.seq = 3]
OtherSecond == [Second EXCEPT !.body = 2]
LateFirst == [Doc0 EXCEPT !.kind = "CORRECTION", !.slot = 2, !.seq = 4, !.supersedes = 7]
Fork == [LateFirst EXCEPT !.native = 2, !.seq = 3]
Withdrawn == [Doc0 EXCEPT !.kind = "RETRACTION", !.slot = 2, !.seq = 4, !.retracts = 7]
Elsewhere == [First EXCEPT !.market = 2, !.mints = 2, !.seq = 3]

MCRows ==
    { Row(First, 2), Row(First, 4), Row(Second, 3), Row(Second, 1), Row(OtherSecond, 4),
      Row(LateFirst, 4), Row(Fork, 3), Row(Withdrawn, 4), Row(Elsewhere, 3),
      [Row(First, 2) EXCEPT !.path = 9],
      [Row(First, 2) EXCEPT !.slot = 2],
      [Row(Elsewhere, 3) EXCEPT !.doc.mints = 1],
      [Row(Second, 3) EXCEPT !.doc = NoDoc],
      [Row(Second, 3) EXCEPT !.issues = {"HASH_MISMATCH"}],
      [Row(First, 2) EXCEPT !.issues = {"UNSAFE_PATH", "MANIFEST_MISMATCH"}, !.read = FALSE, !.doc = NoDoc] }

Sound == [issues |-> {}, rights |-> TRUE, biased |-> FALSE]
MCSurroundings ==
    { Sound, [Sound EXCEPT !.rights = FALSE], [Sound EXCEPT !.biased = TRUE],
      [Sound EXCEPT !.issues = {"SET_NOT_CLOSED"}] }

MCMarkets == [m \in {1, 2} |-> m]

Ask(decision, market, horizon, close) ==
    [decision |-> decision, market |-> market, horizon |-> horizon, close |-> close]
MCRequests ==
    { {}, {Ask(1, 1, 1, 1), Ask(4, 2, 1, 3)}, {Ask(4, 2, 1, 1)}, {Ask(5, 1, 1, 5)},
      {Ask(3, 1, 1, 3)}, {Ask(3, 1, 1, 3), Ask(3, 1, 2, 3)}, {Ask(2, 1, 1, 1)} }
=============================================================================
