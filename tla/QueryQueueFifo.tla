--------------------------- MODULE QueryQueueFifo ---------------------------
(***************************************************************************)
(* QueryQueue with a history variable for the order of admission, which    *)
(* the heap keeps only as a number that restore (qq.py) assigns anew.      *)
(***************************************************************************)
EXTENDS QueryQueue, Sequences

VARIABLE admission   \* history: the queries in the order this process admitted them

fifoVars == <<vars, admission>>

FifoInit == Init /\ admission = <<>>

\* A step of QueryQueue, recorded when it is a submit that admits its query; a
\* process that stops forgets the order.
FifoNext ==
  \/ /\ Next
     /\ ~ \E q \in Query : SubmitAdmitted(q)
     /\ admission' = IF up' THEN admission ELSE <<>>
  \/ \E q \in Query : SubmitAdmitted(q) /\ admission' = Append(admission, q)

FifoSpec == FifoInit /\ [][FifoNext]_fifoVars

Untouched(q) == requeues[q] = 0 /\ \A s \in Step : effects[q][s] = 0
AdmittedBefore(q, r) ==
  \E i, j \in DOMAIN admission : i < j /\ admission[i] = q /\ admission[j] = r

\* docs/ARCHITECTURE.md, "equal class and priority preserve FIFO admission order":
\* when the lane takes a query for the first time, no query of its class and
\* priority that this process admitted earlier is still QUEUED and untouched.
FifoAdmissionOrder ==
  [][active' # NoQuery /\ active' # active /\ Untouched(active') =>
       \A r \in Query :
         mem[r].state = "queued" /\ Untouched(r) /\ AdmittedBefore(r, active')
           => Outranks(active', r)]_fifoVars
=============================================================================
