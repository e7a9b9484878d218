------------------------------ MODULE AppScreen ------------------------------
(***************************************************************************)
(* The selling screen: the cart, the checkout, the payments to check after *)
(* a restart, and the activation of a catalogue from the management dialog.*)
(*                                                                         *)
(* The screen asks the database for one thing at a time and works on the   *)
(* copies it was answered.  Calls about payments are run in the order they *)
(* were made (one thread) and answered in that order; the catalogue has a  *)
(* thread of its own.  A call may fail before or after its transaction.    *)
(* The application may stop at any moment: the cart and the copies are     *)
(* gone, the intents stay.                                                 *)
(*                                                                         *)
(* Prices are followed by the catalogue they come from: the number of      *)
(* activations committed when the product was shown.  Printing, the cash   *)
(* session and the content of sales have modules of their own.             *)
(***************************************************************************)
EXTENDS Naturals, Sequences, FiniteSets

CONSTANTS MaxIntents, MaxActivations, MaxFailures, MaxStops

VARIABLES intents,  \* the durable intents, oldest first: status and prices
          catalog,  \* activations committed
          calls,    \* calls about payments, oldest first, with their answers
          cart,     \* the catalogues the lines of the cart were priced from
          options,  \* the catalogue of the product whose options are open
          products, \* the catalogue shown and whether a product can be chosen
          dialog,   \* the management dialog: closed, open, or activating
          checkout, \* the checkout shown
          recovery, \* the payments to check: known or not, and copies of them
          failures, stops

database == <<intents, catalog>>
selling == <<cart, options, products, dialog>>
faults == <<failures, stops>>
screenVars == <<database, calls, selling, checkout, recovery, faults>>

NoOptions == [open |-> FALSE]
Closed == [open |-> FALSE]
Pending == [done |-> FALSE]

Terminal == {"finalized", "abandoned"}
Open(status) == status \notin Terminal

\* mistake: a confirmed payment is left out of the payments to check
OnlyUnconfirmed(status) == status \in {"pending_payment", "payment_to_verify"}
\* The intents getRecoverableIntents answers.
Recoverable(status) == Open(status)

Read == [kind |-> "read", answer |-> Pending]
Call(kind, i) == [kind |-> kind, intent |-> i, answer |-> Pending]

\* A new process: nothing is loaded yet, the payments to check are being read.
Started ==
  /\ cart' = {} /\ options' = NoOptions /\ dialog' = "closed" /\ checkout' = Closed
  /\ products' = [catalog |-> 0, status |-> "loading"]
  /\ recovery' = [status |-> "reading", list |-> {}]
  /\ calls' = <<Read>>

ScreenInit ==
  /\ intents = <<>> /\ catalog = 0
  /\ cart = {} /\ options = NoOptions /\ dialog = "closed" /\ checkout = Closed
  /\ products = [catalog |-> 0, status |-> "loading"]
  /\ recovery = [status |-> "reading", list |-> {}]
  /\ calls = <<Read>>
  /\ failures = 0 /\ stops = 0

Stop ==
  /\ stops < MaxStops /\ stops' = stops + 1
  /\ Started
  /\ UNCHANGED <<database, failures>>

Fails == failures < MaxFailures /\ failures' = failures + 1

(***************************************************************************)
(* Selling.  A dialog covers what is under it, and the whole screen is     *)
(* inert while a catalogue is being applied.                               *)
(***************************************************************************)
LoadCatalog ==
  /\ products.status = "loading"
  /\ \/ products' = [catalog |-> catalog, status |-> "ready"] /\ UNCHANGED failures
     \/ products' = [products EXCEPT !.status = "error"] /\ Fails
  /\ UNCHANGED <<database, calls, cart, options, dialog, checkout, recovery, stops>>

Uncovered == dialog = "closed" /\ ~checkout.open /\ ~options.open

\* A product without options goes to the cart, any other opens its options.
SelectProduct ==
  /\ Uncovered /\ products.status = "ready"
  /\ \/ cart' = cart \cup {products.catalog} /\ UNCHANGED options
     \/ options' = [open |-> TRUE, catalog |-> products.catalog] /\ UNCHANGED cart
  /\ UNCHANGED <<database, calls, products, dialog, checkout, recovery, faults>>

EndOptions ==
  /\ options.open
  /\ cart' \in {cart, cart \cup {options.catalog}}
  /\ options' = NoOptions
  /\ UNCHANGED <<database, calls, products, dialog, checkout, recovery, faults>>

\* Lines are removed, or configured again from the products now shown.
ChangeLine ==
  /\ Uncovered
  /\ \E line \in cart : cart' \in {cart \ {line}, (cart \ {line}) \cup {products.catalog}}
  /\ UNCHANGED <<database, calls, options, products, dialog, checkout, recovery, faults>>

ValidateOrder ==
  /\ Uncovered /\ cart # {}
  /\ checkout' = [open |-> TRUE, intent |-> 0, status |-> "none", resumed |-> FALSE]
  /\ UNCHANGED <<database, calls, selling, recovery, faults>>

\* The banner offers the oldest payment to check.
ResumePayment ==
  /\ Uncovered /\ recovery.status # "failed"
  /\ \E copy \in recovery.list :
       /\ \A other \in recovery.list : other.intent >= copy.intent
       /\ checkout' = [open |-> TRUE, intent |-> copy.intent, status |-> copy.status,
                       resumed |-> TRUE]
  /\ UNCHANGED <<database, calls, selling, recovery, faults>>

\* Renaming the register reads the payments again; the answers already
\* received stay in use meanwhile.
Rename ==
  /\ dialog = "closed" /\ ~checkout.open /\ ~options.open
  /\ \A n \in DOMAIN calls : calls[n].kind # "read"
  /\ recovery.status # "reading"
  /\ calls' = Append(calls, Read)
  /\ UNCHANGED <<database, selling, checkout, recovery, faults>>

(***************************************************************************)
(* The checkout.                                                           *)
(***************************************************************************)
Busy == \E n \in DOMAIN calls : calls[n].kind # "read"
Ask(kind) == calls' = Append(calls, Call(kind, checkout.intent))

\* The buttons of a payment, by the status of the copy shown, and those of an
\* order: it may be put off or ended, and printed in the meantime.
PaymentButtons ==
  [none |-> {"next", "back"}, pending_payment |-> {"next", "abandon"},
   payment_to_verify |-> {"next", "abandon"}, payment_confirmed |-> {"next"}]
OrderButtons == {"new_order"}
Offered(button) ==
  /\ checkout.open /\ ~Busy
  /\ button \in IF checkout.status = "finalized" THEN OrderButtons
                ELSE PaymentButtons[checkout.status]

\* What the main button asks for, by the status of the copy shown.
NextCall ==
  [none |-> "create", pending_payment |-> "begin", payment_to_verify |-> "confirm",
   payment_confirmed |-> "finalize"]

CheckoutAndPrint ==
  /\ Offered("next")
  /\ checkout.status = "none" => Len(intents) < MaxIntents
  /\ Ask(NextCall[checkout.status])
  /\ UNCHANGED <<database, selling, checkout, recovery, faults>>

AbandonPayment ==
  /\ Offered("abandon")
  /\ Ask("abandon")
  /\ UNCHANGED <<database, selling, checkout, recovery, faults>>

Cancel ==
  /\ Offered("back")
  /\ checkout' = Closed
  /\ UNCHANGED <<database, calls, selling, recovery, faults>>

\* The cart of a payment resumed is not the one on the screen.
StartNewOrder ==
  /\ cart' = IF checkout.resumed THEN cart ELSE {}
  /\ checkout' = Closed

NewOrder ==
  /\ Offered("new_order")
  /\ StartNewOrder
  /\ UNCHANGED <<database, calls, options, products, dialog, recovery, faults>>

(***************************************************************************)
(* The database.                                                           *)
(***************************************************************************)
\* mistake: an intent already abandoned cannot be abandoned again
AllowedOnce ==
  [begin |-> {"pending_payment", "payment_to_verify"},
   confirm |-> {"payment_to_verify", "payment_confirmed"},
   abandon |-> {"pending_payment", "payment_to_verify"},
   finalize |-> {"payment_confirmed", "finalized"}]
\* The statuses each transition accepts, its own result among them.
Allowed ==
  [begin |-> {"pending_payment", "payment_to_verify"},
   confirm |-> {"payment_to_verify", "payment_confirmed"},
   abandon |-> {"pending_payment", "payment_to_verify", "abandoned"},
   finalize |-> {"payment_confirmed", "finalized"}]
Result ==
  [begin |-> "payment_to_verify", confirm |-> "payment_confirmed",
   abandon |-> "abandoned", finalize |-> "finalized"]

Accepts(call) ==
  call.kind \in DOMAIN Allowed => intents[call.intent].status \in Allowed[call.kind]

\* The transaction of a call and what it answers.
Transaction(call) ==
  CASE call.kind = "read" -> intents
    [] call.kind = "create" ->
         Append(intents, [status |-> "pending_payment", prices |-> cart])
    [] OTHER -> [intents EXCEPT ![call.intent].status = Result[call.kind]]

Copy(stored, i) == [intent |-> i, status |-> stored[i].status]
RecoverableCopies(stored) ==
  {Copy(stored, i) : i \in {j \in DOMAIN stored : Recoverable(stored[j].status)}}

Answer(call, after) ==
  CASE call.kind = "read" -> RecoverableCopies(after)
    [] call.kind = "create" -> [intent |-> Len(after), status |-> "pending_payment"]
    [] OTHER -> [intent |-> call.intent, status |-> Result[call.kind]]

Answered(n, answer) == calls' = [calls EXCEPT ![n].answer = answer]
Failed == [done |-> TRUE, ok |-> FALSE]

\* The oldest call not yet run is run; it may fail before or after committing.
RunCall ==
  \E n \in DOMAIN calls :
    /\ ~calls[n].answer.done /\ \A m \in 1..(n - 1) : calls[m].answer.done
    /\ \/ /\ Accepts(calls[n])
          /\ intents' = Transaction(calls[n])
          /\ \/ /\ Answered(n, [done |-> TRUE, ok |-> TRUE, value |-> Answer(calls[n], intents')])
                /\ UNCHANGED failures
             \/ Answered(n, Failed) /\ Fails
       \/ ~Accepts(calls[n]) /\ Answered(n, Failed) /\ UNCHANGED <<intents, failures>>
       \/ Answered(n, Failed) /\ Fails /\ UNCHANGED intents
    /\ UNCHANGED <<catalog, selling, checkout, recovery, stops>>

(***************************************************************************)
(* The answers.                                                            *)
(***************************************************************************)
First(kind) == calls # <<>> /\ calls[1].kind = kind /\ calls[1].answer.done
Succeeded(kind) == First(kind) /\ calls[1].answer.ok
Value == calls[1].answer.value

RecoveryRead ==
  /\ First("read")
  /\ recovery' = IF calls[1].answer.ok
                 THEN [status |-> "checked", list |-> Value]
                 ELSE [recovery EXCEPT !.status = "failed"]
  /\ calls' = Tail(calls)
  /\ UNCHANGED <<database, selling, checkout, faults>>

CallFailed ==
  /\ calls # <<>> /\ calls[1].kind # "read" /\ calls[1].answer.done /\ ~calls[1].answer.ok
  /\ calls' = Tail(calls)
  /\ UNCHANGED <<database, selling, checkout, recovery, faults>>

\* updateRecoveryIntent: the payments to check follow the copy answered.
UpdateRecoveryIntent(copy) ==
  LET others == {c \in recovery.list : c.intent # copy.intent}
  IN recovery' = [recovery EXCEPT !.list = IF Open(copy.status) THEN others \cup {copy} ELSE others]

\* A created intent is begun at once, a confirmed one finalized at once.
Follow(kind) ==
  CASE kind = "create" -> <<Call("begin", Value.intent)>>
    [] kind = "confirm" -> <<Call("finalize", Value.intent)>>
    [] OTHER -> <<>>

StoreUpdatedIntent ==
  /\ \E kind \in {"create", "begin", "confirm", "finalize"} :
       Succeeded(kind) /\ calls' = Tail(calls) \o Follow(kind)
  /\ checkout' = [checkout EXCEPT !.intent = Value.intent, !.status = Value.status]
  /\ UpdateRecoveryIntent(Value)
  /\ UNCHANGED <<database, selling, faults>>

PaymentAbandoned ==
  /\ Succeeded("abandon")
  /\ calls' = Tail(calls)
  /\ UpdateRecoveryIntent(Value)
  /\ StartNewOrder
  /\ UNCHANGED <<database, options, products, dialog, faults>>

(***************************************************************************)
(* The catalogue.                                                          *)
(***************************************************************************)
OpenManagement ==
  /\ Uncovered
  /\ dialog' = "open"
  /\ UNCHANGED <<database, calls, cart, options, products, checkout, recovery, faults>>

CloseManagement ==
  /\ dialog = "open"
  /\ dialog' = "closed"
  /\ UNCHANGED <<database, calls, cart, options, products, checkout, recovery, faults>>

IsSafe ==
  /\ cart = {} /\ ~options.open /\ ~checkout.open
  /\ recovery.status = "checked" /\ recovery.list = {}

\* isSafe keeps the copies of the screen as they were when it was called: the
\* activation only looks at the cart again, and at the durable intents.
ApplyCatalog ==
  /\ dialog = "open" /\ IsSafe /\ catalog < MaxActivations
  /\ dialog' = "activating"
  /\ UNCHANGED <<database, calls, cart, options, products, checkout, recovery, faults>>

\* mistake: only the intents the screen knows of hold an activation back
NoIntentShown == recovery.list = {}
NoOpenIntent == \A i \in DOMAIN intents : ~Open(intents[i].status)

CommitActivation ==
  /\ dialog = "activating"
  /\ \/ /\ cart = {} /\ NoOpenIntent
        /\ catalog' = catalog + 1 /\ dialog' = "reloading"
        /\ UNCHANGED <<products, failures>>
     \/ /\ ~(cart = {} /\ NoOpenIntent)
        /\ dialog' = "open" /\ products' = [products EXCEPT !.status = "error"]
        /\ UNCHANGED <<catalog, failures>>
     \/ /\ Fails
        /\ dialog' = "open" /\ products' = [products EXCEPT !.status = "error"]
        /\ catalog' \in {catalog} \cup (IF cart = {} /\ NoOpenIntent THEN {catalog + 1} ELSE {})
  /\ UNCHANGED <<intents, calls, cart, options, checkout, recovery, stops>>

\* The products are read again; until they are, none can be chosen.
ReloadProducts ==
  /\ dialog = "reloading"
  /\ dialog' = "open"
  /\ \/ products' = [catalog |-> catalog, status |-> "ready"] /\ UNCHANGED failures
     \/ products' = [products EXCEPT !.status = "error"] /\ Fails
  /\ UNCHANGED <<database, calls, cart, options, checkout, recovery, stops>>

\* A local edit shows the products of the database again.
SaveProduct ==
  /\ dialog = "open"
  /\ products' = [catalog |-> catalog, status |-> "ready"]
  /\ products' # products
  /\ UNCHANGED <<database, calls, cart, options, dialog, checkout, recovery, faults>>

ScreenNext ==
  \/ Stop \/ LoadCatalog
  \/ SelectProduct \/ EndOptions \/ ChangeLine \/ ValidateOrder \/ ResumePayment \/ Rename
  \/ CheckoutAndPrint \/ AbandonPayment \/ Cancel \/ NewOrder
  \/ RunCall \/ RecoveryRead \/ CallFailed \/ StoreUpdatedIntent \/ PaymentAbandoned
  \/ OpenManagement \/ CloseManagement \/ ApplyCatalog \/ CommitActivation \/ ReloadProducts
  \/ SaveProduct

\* The calls are run and answered.  The cashier goes on using the checkout
\* until it closes: each button offered again and again is pressed some day.
Fairness ==
  /\ WF_screenVars(RunCall)
  /\ WF_screenVars(RecoveryRead \/ CallFailed \/ StoreUpdatedIntent \/ PaymentAbandoned)
  /\ SF_screenVars(CheckoutAndPrint) /\ SF_screenVars(AbandonPayment)
  /\ SF_screenVars(Cancel) /\ SF_screenVars(NewOrder)

ScreenSpec == ScreenInit /\ [][ScreenNext]_screenVars /\ Fairness
-----------------------------------------------------------------------------
\* A customer pays the prices of the catalogue in use: no catalogue is activated
\* between the choice of a line and the end of its payment, whether the screen
\* knows of that payment or not (App.tsx, applyCatalog).
OneCatalogue ==
  /\ cart \subseteq {catalog}
  /\ options.open => options.catalog = catalog
  /\ \A i \in DOMAIN intents : Open(intents[i].status) => intents[i].prices = {catalog}

\* A payment the customer may have made is in front of the cashier: in the
\* checkout or among the payments to check, once these could be read
\* (docs/checkout-intents.md: after a restart, the three open statuses are
\* shown to the cashier).
PaymentShown ==
  recovery.status = "checked" =>
    \A i \in DOMAIN intents :
      intents[i].status \in {"payment_to_verify", "payment_confirmed"} =>
        \/ checkout.open /\ checkout.intent = i
        \/ \E copy \in recovery.list : copy.intent = i

\* A checkout never locks the cashier up: whatever call failed after its
\* transaction, pressing the buttons that are left closes it in the end.  No
\* period is closed meanwhile: SalesLedger shows what a closure would change.
CheckoutEnds == checkout.open ~> ~checkout.open
=============================================================================
