---------------------------- MODULE RequestBoard ----------------------------
(***************************************************************************)
(* What the request pages promise, with no threads, statements or locks:   *)
(* a request is registered under a number no other request carries, taken  *)
(* into review by one person, finished by that person together with its    *)
(* contractor and goods rows, corrected in its basic data, or removed.     *)
(* RequestReview implements this specification.                            *)
(***************************************************************************)
EXTENDS Naturals

CONSTANTS Ids, Numbers, Reviewers, Forms, Devices, None

VARIABLES
  request,   \* id -> the request as committed
  work,      \* id -> its contractor rows and goods rows, as a pair of sets
  issued     \* ids given out so far, never given out again

boardVars == <<request, work, issued>>

Absent == [status |-> "absent", number |-> 0, owner |-> None,
           device |-> None, report |-> None]
NoWork == <<{}, {}>>

Init ==
  /\ request = [r \in Ids |-> Absent]
  /\ work = [r \in Ids |-> NoWork]
  /\ issued = {}

\* A number is given to a request only while no other request carries it.
Register(r, n, d) ==
  /\ r \notin issued
  /\ \A q \in Ids : request[q].status # "absent" => request[q].number # n
  /\ request' = [request EXCEPT ![r] =
       [status |-> "pending", number |-> n, owner |-> None,
        device |-> d, report |-> None]]
  /\ issued' = issued \cup {r}
  /\ UNCHANGED work

\* A registration that is refused may use up an id.
Refuse(r) ==
  /\ r \notin issued
  /\ issued' = issued \cup {r}
  /\ UNCHANGED <<request, work>>

Claim(r, u) ==
  /\ request[r].status = "pending"
  /\ request' = [request EXCEPT ![r].status = "in_progress", ![r].owner = u]
  /\ UNCHANGED <<work, issued>>

\* The owner's report and the rows that belong to it appear in one step.
Complete(r, f, d) ==
  /\ request[r].status = "in_progress"
  /\ request' = [request EXCEPT ![r].status = "completed", ![r].owner = None,
                                ![r].report = f]
  /\ LET row == [req |-> r, form |-> f, device |-> d]
     IN work' = [work EXCEPT ![r] = <<{row}, {row}>>]
  /\ UNCHANGED issued

\* A correction leaves status, owner, report and work alone.
Correct(r, d) ==
  /\ request[r].status # "absent"
  /\ request' = [request EXCEPT ![r].device = d]
  /\ UNCHANGED <<work, issued>>

Remove(r) ==
  /\ request' = [request EXCEPT ![r] = Absent]
  /\ work' = [work EXCEPT ![r] = NoWork]
  /\ UNCHANGED issued

Next == \E r \in Ids :
  \/ \E d \in Devices : Correct(r, d) \/ \E n \in Numbers : Register(r, n, d)
  \/ Refuse(r)
  \/ \E u \in Reviewers : Claim(r, u)
  \/ \E f \in Forms, d \in Devices : Complete(r, f, d)
  \/ Remove(r)

Spec == Init /\ [][Next]_boardVars
=============================================================================
