----------------------------- MODULE MCExecutor -----------------------------
EXTENDS Executor, TLC

Call(task, args, shape, place, gated) ==
    [task |-> task, tool |-> IF gated THEN "file_delete" ELSE "telegram_send_file",
     args |-> args, shape |-> shape, place |-> place, named |-> FALSE,
     gated |-> gated]

\* Two tasks delete files of one shape, one of them a protected file too.
MCDeletes == {Call("t1", "report-jan", "output/*.pdf", "other", TRUE),
              Call("t1", "credentials", "uploads/*.json", "protected", TRUE),
              Call("t2", "report-feb", "output/*.pdf", "other", TRUE)}

\* A task deletes a file and sends one, which needs no approval.
MCDeleteAndSend == {Call("t1", "report-jan", "output/*.pdf", "other", TRUE),
                    Call("t1", "report-jan", "telegram_send_file", "other", FALSE)}

Symmetry == Permutations(Workers)

\* Any two of the workers and the desks are at work at a time.
MaxUnderWay == 2
UnderWay == Cardinality({w \in Workers : cur[w] # NoCall})
                + Cardinality({d \in Desks : desk[d] # FreeDesk})
MCSpec == Init /\ [][Next /\ UnderWay' <= MaxUnderWay]_vars
=============================================================================
