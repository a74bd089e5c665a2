---------------------------- MODULE ControlPlane -----------------------------
(***************************************************************************)
(* The synthetic bank control plane: SyntheticBankControlPlane             *)
(* (bank_control_plane.py) behind the threaded HTTP server and the         *)
(* dashboard page of synthetic_bank_control_plane.py.  The server runs     *)
(* each call under one lock.  A page is single-threaded, but every call to *)
(* the server is awaited: until the answer arrives the user can go on      *)
(* clicking, other pages can act on the same customer, and the answers of  *)
(* two calls can arrive in either order.                                   *)
(***************************************************************************)
EXTENDS Integers, Sequences, FiniteSets

CONSTANTS
  Customers,
  Pages,       \* open dashboards
  Demo,        \* the customer a page opens with
  Begun,       \* stages that earlier pages have brought customers to
  MaxCalls     \* bound on the calls one page makes

ASSUME DemoAssumption == Demo \in Customers
ASSUME CallsAssumption == MaxCalls \in Nat

\* _NEXT_ACTION, in the order of RequestStage: the stage of a customer is the
\* number of these actions that have been executed for him.
Lifecycle == <<"create-request", "delete-visible", "simulate-recovery",
               "run-probes", "apply-exact-cut", "verify-replay">>
Actions == { Lifecycle[i] : i \in 1..Len(Lifecycle) }
Verified == Len(Lifecycle)
Stages == 0..Verified

ASSUME BegunAssumption == Begun \subseteq Stages

\* _verdict
Verdict(stage) ==
  CASE stage = 0 -> "NOT_REQUESTED"
    [] stage \in {2, 5} -> "UNVERIFIED"
    [] stage = Verified -> "COMPLETE"
    [] OTHER -> "INCOMPLETE"

VARIABLES
  stage,      \* DeletionCase.stage
  eventLog,   \* DeletionCase.event_log
  selected,   \* currentId of each page
  shown,      \* current of each page: the snapshot it has rendered
  calls       \* the page's calls to the server, in the order they were made

controlVars == <<stage, eventLog, selected, shown, calls>>

\* A snapshot is a customer and a stage; a call also has the action, its basis
\* (what the page showed as it called), its state ("sent", "answered",
\* "refused", "received") and its reply.
Blank == [customer |-> Demo, stage |-> -1]   \* nothing rendered yet

View(customer) ==
  [customer |-> customer, action |-> "view", basis |-> Blank, state |-> "sent",
   reply |-> Blank]

\* boot() has selected the demo customer.
ControlInit ==
  /\ stage \in [Customers -> Begun]
  /\ eventLog = [c \in Customers |-> SubSeq(Lifecycle, 1, stage[c])]
  /\ selected = [p \in Pages |-> Demo]
  /\ shown = [p \in Pages |-> Blank]
  /\ calls = [p \in Pages |-> <<View(Demo)>>]

-----------------------------------------------------------------------------
(* The page.                                                               *)

Send(p, call) ==
  /\ Len(calls[p]) < MaxCalls
  /\ calls' = [calls EXCEPT ![p] = Append(@, call)]

\* selectCustomer
Select(p, customer) ==
  /\ selected' = [selected EXCEPT ![p] = customer]
  /\ Send(p, View(customer))
  /\ UNCHANGED <<stage, eventLog, shown>>

\* A mutant: the page runs ahead of the server.
ApproveOptimistically(p) ==
  /\ shown[p].stage \in Stages \ {Verified}
  /\ Send(p, [customer |-> selected[p], action |-> Lifecycle[shown[p].stage + 1],
              basis |-> shown[p], state |-> "sent", reply |-> Blank])
  /\ shown' = [shown EXCEPT ![p].stage = @ + 1]
  /\ UNCHANGED <<stage, eventLog, selected>>

\* The action button carries the action of the rendered snapshot; the request
\* goes to the customer selected when it is clicked.
Approve(p) ==
  /\ shown[p].stage \in Stages \ {Verified}
  /\ Send(p, [customer |-> selected[p], action |-> Lifecycle[shown[p].stage + 1],
              basis |-> shown[p], state |-> "sent", reply |-> Blank])
  /\ UNCHANGED <<stage, eventLog, selected, shown>>

\* An answer arrives: current becomes the snapshot in it.  A refusal only
\* changes the text of the page.
Receive(p, i) ==
  /\ calls[p][i].state \in {"answered", "refused"}
  /\ calls' = [calls EXCEPT ![p][i] = [@ EXCEPT !.state = "received",
                                              !.basis = Blank, !.reply = Blank]]
  /\ shown' = IF calls[p][i].state = "answered"
              THEN [shown EXCEPT ![p] = calls[p][i].reply]
              ELSE shown
  /\ UNCHANGED <<stage, eventLog, selected>>

-----------------------------------------------------------------------------
(* The server.                                                             *)

Expected(customer) ==
  IF stage[customer] = Verified THEN {} ELSE {Lifecycle[stage[customer] + 1]}

Answer(p, i, snapshot) ==
  calls' = [calls EXCEPT ![p][i].state = "answered", ![p][i].reply = snapshot]

\* customer_snapshot
ServeView(p, i) ==
  LET call == calls[p][i]
  IN  /\ call.state = "sent"
      /\ call.action = "view"
      /\ Answer(p, i, [customer |-> call.customer, stage |-> stage[call.customer]])
      /\ UNCHANGED <<stage, eventLog, selected, shown>>

\* A mutant: any action is executed, expected or not.
ExecuteUnchecked(p, i) ==
  LET call == calls[p][i]
      customer == call.customer
  IN  /\ call.state = "sent"
      /\ call.action # "view"
      /\ stage[customer] < Verified
      /\ stage' = [stage EXCEPT ![customer] = @ + 1]
      /\ eventLog' = [eventLog EXCEPT ![customer] = Append(@, call.action)]
      /\ Answer(p, i, [customer |-> customer, stage |-> stage'[customer]])
      /\ UNCHANGED <<selected, shown>>

\* execute_action
Execute(p, i) ==
  LET call == calls[p][i]
      customer == call.customer
  IN  /\ call.state = "sent"
      /\ call.action \in Expected(customer)
      /\ stage' = [stage EXCEPT ![customer] = @ + 1]
      /\ eventLog' = [eventLog EXCEPT ![customer] = Append(@, call.action)]
      /\ Answer(p, i, [customer |-> customer, stage |-> stage'[customer]])
      /\ UNCHANGED <<selected, shown>>

Refuse(p, i) ==
  LET call == calls[p][i]
  IN  /\ call.state = "sent"
      /\ call.action \in Actions \ Expected(call.customer)
      /\ calls' = [calls EXCEPT ![p][i].state = "refused"]
      /\ UNCHANGED <<stage, eventLog, selected, shown>>

Serve(p, i) == ServeView(p, i) \/ Execute(p, i) \/ Refuse(p, i)

CallIds(p) == 1..Len(calls[p])

ControlNext ==
  \E p \in Pages :
    \/ \E customer \in Customers : Select(p, customer)
    \/ Approve(p)
    \/ \E i \in CallIds(p) : Serve(p, i) \/ Receive(p, i)

\* Every call is served by a thread of its own and its answer arrives; no user
\* has to click.  It is enough that each page's calls as a whole get on.
Fairness ==
  \A p \in Pages : WF_controlVars(\E i \in CallIds(p) : Serve(p, i) \/ Receive(p, i))

ControlSpec == ControlInit /\ [][ControlNext]_controlVars /\ Fairness

-----------------------------------------------------------------------------
\* Whatever pages approve at once and however stale their screens are, the
\* event log of a customer is the lifecycle up to his stage: no action is
\* skipped, repeated or executed for a stage that has passed.
LogIsLifecycle ==
  \A customer \in Customers :
    eventLog[customer] = SubSeq(Lifecycle, 1, stage[customer])

\* The step executes the i-th call of page p.
Executes(p, i) ==
  /\ calls[p][i].state = "sent" /\ calls'[p][i].state = "answered"
  /\ calls[p][i].action # "view"

\* An approval that a page sent for a customer takes effect at the stage that
\* the page showed: two pages, or two clicks on one, never move a customer on
\* twice, and an approval that another one overtook is refused.
StaleApprovalIsRefused ==
  [][\A p \in Pages : \A i \in CallIds(p) :
       Executes(p, i) /\ calls[p][i].basis.customer = calls[p][i].customer =>
         /\ stage[calls[p][i].customer] = calls[p][i].basis.stage
         /\ calls'[p][i].reply.stage = calls[p][i].basis.stage + 1]_controlVars

\* What a page shows of a customer was true once, and it never shows a
\* customer further than he is, so COMPLETE on a screen is final.
ScreenIsThePast ==
  \A p \in Pages :
    /\ shown[p].stage <= stage[shown[p].customer]
    /\ Verdict(shown[p].stage) = "COMPLETE" =>
         Verdict(stage[shown[p].customer]) = "COMPLETE"

\* "Dry run is visible.  Confirm the next controlled operation": what an
\* approval executes is executed for the customer whose dry run was visible.
ApprovalIsForShownCustomer ==
  [][\A p \in Pages : \A i \in CallIds(p) :
       Executes(p, i) => calls[p][i].basis.customer = calls[p][i].customer]_controlVars
=============================================================================
