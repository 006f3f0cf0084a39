----------------------------- MODULE MCSession -----------------------------
(***************************************************************************)
(* The instance TLC checks; the session*.cfg give the constants their      *)
(* values.                                                                 *)
(* Merging and filtering, which Session defines by positions, are compared *)
(* with the loops of the code over all short lists.                        *)
(***************************************************************************)
EXTENDS Session

\* The loop of merge_consecutive_same_role, one message at a time.
Coalesce(out, m) ==
    IF out # << >> /\ Joins(Last(out), m)
    THEN Append(Front(out), Msg(m.role, Last(out).use \/ m.use,
                                Last(out).text \/ m.text, m.turn))
    ELSE Append(out, m)

ShortLists ==
    BoundedSeq({ User(1), Asst(TRUE, 2), Asst(FALSE, 1), Calls(FALSE, 1), Results(1) }, 5)

ASSUME LoopsAgree ==
    \A msgs \in ShortLists :
        /\ MergeConsecutiveSameRole(msgs) = FoldLeft(Coalesce, << >>, msgs)
        /\ AtPositions(msgs, { i \in DOMAIN msgs : msgs[i].text })
               = SelectSeq(msgs, LAMBDA m : m.text)
=============================================================================
