----------------------------- MODULE Interfaces -----------------------------
(***************************************************************************)
(* The two ways to use the toolbox: the commands of                        *)
(* command_line_interface and the objects of python_interface, each client *)
(* one of them, sharing the ingestion service of DeliveryListing.          *)
(*                                                                         *)
(* The core call is what DeliveryRun shows of it (OutcomeTold): it returns *)
(* with the delivery registered, or a dry run without; or it raises before *)
(* anything was registered; or the POST raises although it registered.     *)
(* Files are model values; what the interfaces print is left out, but for  *)
(* which kind of message it is.                                            *)
(***************************************************************************)
EXTENDS DeliveryListing

CONSTANTS
    Interface,      \* "cli" or "python", of each client
    Operation,      \* the operations a user writes down
    Anchor, NoAnchor,
    MaxOperations,  \* bound of the operations of one delivery
    MaxCommands     \* bound of the commands and calls of all clients

ASSUME InterfaceAssumption ==
    /\ Interface \in [Client -> {"cli", "python"}]
    /\ OnBehalfOf \in [Client -> {NoEntity} \cup {OnBehalfOf[c] : c \in Client}]
    /\ NoAnchor \notin Anchor
    /\ \A op \in Operation :
          op \in [operation : {"upload", "delete"}, files : {op.files},
                  anchor : Anchor \cup {NoAnchor}]

VARIABLES
    call,       \* the core call each client made last
    pc,         \* where it is: idle, core, delivering, saving, status, list
    told,       \* what its user was told last
    response,   \* the delivery_id of the last response, in a set: at first none
    saved,      \* the delivery files in its working directory
    commands    \* the commands and calls so far

interfaceVars == <<listingVars, call, pc, told, response, saved, commands>>

-----------------------------------------------------------------------------
NoCall == [serial |-> 0, anchors |-> <<>>, asked |-> <<>>, id |-> NoId,
           dry_run |-> FALSE, save |-> FALSE, begun |-> 0]

InterfacesInit ==
    /\ ListingInit
    /\ call = [c \in Client |-> NoCall]
    /\ pc = [c \in Client |-> "idle"]
    /\ told = [c \in Client |-> "nothing"]
    /\ response = [c \in Client |-> {}]
    /\ saved = [c \in Client |-> {}]
    /\ commands = 0

\* The command or method ends, and tells its user so.
End(c, message) ==
    /\ pc' = [pc EXCEPT ![c] = "idle"]
    /\ told' = [told EXCEPT ![c] = message]

\* An exception: there is no response.
Raise(c, message) == End(c, message) /\ UNCHANGED response

\* The exception leaves the core call: its local variables are gone.
Unwind(c) == call' = [call EXCEPT ![c] = [NoCall EXCEPT !.serial = call[c].serial]]

\* The core call and what follows it have succeeded.  click.echo shows it to
\* the user of a command, and may raise.
Respond(c) ==
    \/ /\ End(c, "done")
       /\ response' = [response EXCEPT ![c] = {call[c].id}]
    \/ /\ Interface[c] = "cli"
       /\ Raise(c, "echo_raised")

\* What a user makes with Delivery.add, or writes into the yaml file.
Operations == UNION {[1..n -> Operation] : n \in 0..MaxOperations}

\* A command or method begins; what is left of the query before is forgotten.
BeginCommand(c) ==
    /\ pc[c] = "idle"
    /\ commands < MaxCommands
    /\ commands' = commands + 1

\* The anchor of each operation.
Anchors(operations) == [i \in DOMAIN operations |-> operations[i].anchor]

\* The core is called: with these operations, where the user asked for those.
\* Of either only the anchors are kept.
CallCore(c, operations, asked, dryRun, save) ==
    /\ call' = [call EXCEPT ![c] =
                   [NoCall EXCEPT !.serial = commands + 1,
                                  !.anchors = Anchors(operations),
                                  !.asked = Anchors(asked),
                                  !.dry_run = dryRun, !.save = save]]
    /\ pc' = [pc EXCEPT ![c] = "core"]
    /\ told' = [told EXCEPT ![c] = "nothing"]
    /\ ForgetQuery(c)
    /\ UNCHANGED <<utc, deliveries, response, saved>>

\* "No files added to upload.", "No operations added to delivery.": a response
\* with a fatal_error and no delivery_id; the command line exits with 1.
Refuse(c) ==
    /\ End(c, "fatal_error")
    /\ response' = [response EXCEPT ![c] = {NoId}]
    /\ call' = [call EXCEPT ![c] = NoCall]
    /\ ForgetQuery(c)
    /\ UNCHANGED <<utc, deliveries, saved>>

\* The uploads without an anchor of their own get the one of the call.
WithAnchor(operations, anchor) ==
    [i \in DOMAIN operations |->
        IF operations[i].operation = "upload" /\ operations[i].anchor = NoAnchor
        THEN [operations[i] EXCEPT !.anchor = anchor] ELSE operations[i]]

\* upload and delete of the command line, Upload.submit and Delete.submit.
\* The command line has one anchor, the option; Upload.submit passes its
\* argument on and not the anchor of the object.
SubmitOne(c, op, anchor, dryRun, save) ==
    /\ BeginCommand(c)
    /\ Interface[c] = "cli" => op.anchor = NoAnchor
    /\ Interface[c] = "python" => ~save
    /\ op.operation = "delete" => anchor = NoAnchor
    /\ IF op.files = <<>>
       THEN Refuse(c)
       ELSE CallCore(c, <<[op EXCEPT !.anchor = anchor]>>,
                     WithAnchor(<<op>>, anchor), dryRun, save)

\* delivery of the command line, which calls the core without operations too.
SubmitDeliveryFile(c, operations, dryRun, save) ==
    /\ BeginCommand(c)
    /\ Interface[c] = "cli"
    /\ CallCore(c, operations, operations, dryRun, save)

\* The yaml file cannot be read, or is not a delivery.
BadDeliveryFile(c) ==
    /\ BeginCommand(c)
    /\ Interface[c] = "cli"
    /\ Raise(c, "raised")
    /\ call' = [call EXCEPT ![c] = NoCall]
    /\ ForgetQuery(c)
    /\ UNCHANGED <<utc, deliveries, saved>>

\* Delivery.submit: its argument anchor goes nowhere.
SubmitDelivery(c, operations, anchor, dryRun) ==
    /\ BeginCommand(c)
    /\ Interface[c] = "python"
    /\ IF operations = <<>>
       THEN Refuse(c)
       ELSE CallCore(c, operations, WithAnchor(operations, anchor), dryRun, FALSE)

-----------------------------------------------------------------------------
(***************************************************************************)
(* The core call and what follows it.                                      *)
(***************************************************************************)
\* create_delivery_id, somewhere in the core: for a delivery before its
\* uploads, for a delete just before the POST.
Begin(c) ==
    /\ pc[c] = "core"
    /\ pc' = [pc EXCEPT ![c] = "delivering"]
    /\ \E local \in LocalTime, product \in Product, number \in RandomNumber :
          call' = [call EXCEPT ![c] =
                      [@ EXCEPT !.anchors = <<>>, !.asked = <<>>,
                                !.id = CreateDeliveryId(local, product, number),
                                !.begun = utc]]
    /\ UNCHANGED <<listingVars, told, response, saved, commands>>

CoreRaises(c) ==
    /\ pc[c] \in {"core", "delivering"}
    /\ Raise(c, "raised")
    /\ Unwind(c)
    /\ UNCHANGED <<listingVars, saved, commands>>

RegisterCall(c) ==
    /\ pc[c] = "delivering"
    /\ ~call[c].dry_run
    /\ Register(c, call[c].serial, call[c].id, call[c].begun)
    /\ UNCHANGED <<utc, query, answer, commands>>

\* The POST registered the delivery, but its answer is lost or bad, or the
\* process is dead when it comes.
PostRaises(c) ==
    /\ RegisterCall(c)
    /\ \E message \in {"post_raised", "killed"} : Raise(c, message)
    /\ Unwind(c)
    /\ UNCHANGED saved

\* if save_delivery_json and delivery: saving_delivery_file(delivery)
Continue(c) ==
    IF call[c].save
    THEN pc' = [pc EXCEPT ![c] = "saving"] /\ UNCHANGED <<told, response>>
    ELSE Respond(c)

SavedFile(c, whole) ==
    [id |-> call[c].id, dry_run |-> call[c].dry_run, whole |-> whole]

\* Mutant of CoreReturns: the file is saved before the POST.
CoreReturnsAfterSaving(c) ==
    \/ /\ pc[c] = "delivering"
       /\ call[c].save
       /\ saved' = [saved EXCEPT ![c] = @ \cup {SavedFile(c, TRUE)}]
       /\ call' = [call EXCEPT ![c].save = FALSE]
       /\ UNCHANGED <<listingVars, pc, told, response, commands>>
    \/ /\ RegisterCall(c)
       /\ ~call[c].save
       /\ Respond(c)
       /\ UNCHANGED <<call, saved>>

CoreReturns(c) ==
    /\ RegisterCall(c)
    /\ Continue(c)
    /\ UNCHANGED <<call, saved>>

DryRunReturns(c) ==
    /\ pc[c] = "delivering"
    /\ call[c].dry_run
    /\ Continue(c)
    /\ UNCHANGED <<listingVars, call, saved, commands>>

\* saving_delivery_file; a dry run has a delivery to save too.
Save(c) ==
    /\ pc[c] = "saving"
    /\ saved' = [saved EXCEPT ![c] = @ \cup {SavedFile(c, TRUE)}]
    /\ Respond(c)
    /\ UNCHANGED <<listingVars, call, commands>>

\* Mutant of SaveFails: the exception is swallowed.
SaveFailsSilently(c) ==
    /\ pc[c] = "saving"
    /\ Respond(c)
    /\ UNCHANGED <<listingVars, call, saved, commands>>

\* The file cannot be opened, or not be written to its end.
SaveFails(c) ==
    /\ pc[c] = "saving"
    /\ \/ UNCHANGED saved
       \/ saved' = [saved EXCEPT ![c] = @ \cup {SavedFile(c, FALSE)}]
    /\ Raise(c, "save_raised")
    /\ UNCHANGED <<listingVars, call, commands>>

\* The process dies.
Kill(c) ==
    /\ pc[c] # "idle"
    /\ Raise(c, "killed")
    /\ Unwind(c)
    /\ UNCHANGED <<listingVars, saved, commands>>

-----------------------------------------------------------------------------
(***************************************************************************)
(* status and list_deliveries.                                             *)
(***************************************************************************)
\* Mutant of QueriedFor: the option of the status command is not passed on.
QueriedForOwn(c) == NoEntity

\* The commands pass on the option that the environment sets; the functions
\* of the Python interface only their argument, which a user leaves out.
QueriedFor(c) == IF Interface[c] = "cli" THEN OnBehalfOf[c] ELSE NoEntity

\* The IDs a user has: that of the last response, which is none after a
\* fatal_error, and those of the delivery files that are whole.  The status
\* command wants one.
KnownIds(c) ==
    IF Interface[c] = "python" THEN response[c]
    ELSE (response[c] \cup {f.id : f \in {g \in saved[c] : g.whole}}) \ {NoId}

\* delivery_status and the status command.
AskStatus(c) ==
    /\ BeginCommand(c)
    /\ \E id \in KnownIds(c) : SendQuery(c, id, "all", QueriedFor(c))
    /\ pc' = [pc EXCEPT ![c] = "status"]
    /\ UNCHANGED <<utc, deliveries, call, told, response, saved>>

\* A delivery file that is not whole is "Invalid delivery json".
BadDeliveryJson(c) ==
    /\ BeginCommand(c)
    /\ \E file \in saved[c] : ~file.whole
    /\ Raise(c, "query_raised")
    /\ ForgetQuery(c)
    /\ UNCHANGED <<utc, deliveries, call, saved>>

AskList(c) ==
    /\ BeginCommand(c)
    /\ \E timeframe \in Timeframe : SendQuery(c, NoId, timeframe, QueriedFor(c))
    /\ pc' = [pc EXCEPT ![c] = "list"]
    /\ UNCHANGED <<utc, deliveries, call, told, response, saved>>

\* status shows deliveries[0], or raises when there is none.
Answered(c) ==
    /\ pc[c] \in {"status", "list"}
    /\ ReceiveAnswer(c)
    /\ End(c, IF pc[c] = "list" THEN "listed"
              ELSE IF answer'[c] = <<>> THEN "not_found" ELSE "status")
    /\ UNCHANGED <<utc, deliveries, call, response, saved, commands>>

QueryRaises(c) ==
    /\ pc[c] \in {"status", "list"}
    /\ Raise(c, "query_raised")
    /\ UNCHANGED <<listingVars, call, saved, commands>>

Clock ==
    /\ Tick
    /\ UNCHANGED <<call, pc, told, response, saved, commands>>

ClientNext(c) ==
    \/ \E op \in Operation, anchor \in Anchor \cup {NoAnchor},
          dryRun, save \in BOOLEAN : SubmitOne(c, op, anchor, dryRun, save)
    \/ \E operations \in Operations, dryRun, save \in BOOLEAN :
          SubmitDeliveryFile(c, operations, dryRun, save)
    \/ BadDeliveryFile(c)
    \/ \E operations \in Operations, anchor \in Anchor \cup {NoAnchor},
          dryRun \in BOOLEAN : SubmitDelivery(c, operations, anchor, dryRun)
    \/ Begin(c)
    \/ CoreRaises(c)
    \/ CoreReturns(c)
    \/ PostRaises(c)
    \/ DryRunReturns(c)
    \/ Save(c)
    \/ SaveFails(c)
    \/ Kill(c)
    \/ AskStatus(c)
    \/ BadDeliveryJson(c)
    \/ AskList(c)
    \/ Answered(c)
    \/ QueryRaises(c)

InterfacesNext ==
    \/ Clock
    \/ \E c \in Client : ClientNext(c)

InterfacesSpec == InterfacesInit /\ [][InterfacesNext]_interfaceVars

-----------------------------------------------------------------------------
(***************************************************************************)
(* Properties.                                                             *)
(***************************************************************************)
\* The deliveries that the client's last core call has registered.
Registered(c) == {i \in DOMAIN deliveries : deliveries[i].serial = call[c].serial}

\* What the user is told is what happened.  After a success the delivery is
\* registered, unless it was a dry run, and the file that was asked for is
\* there and whole; so they are when only showing the response has failed.  A
\* failure to save the file says that and no more, the delivery stands; after
\* any other failure but that of the POST nothing is registered.
ExitTold ==
    \A c \in Client :
        /\ Cardinality(Registered(c)) <= 1
        /\ told[c] \in {"done", "echo_raised", "save_raised"} =>
              (call[c].dry_run <=> Registered(c) = {})
        /\ told[c] \in {"done", "echo_raised"} /\ call[c].save =>
              SavedFile(c, TRUE) \in saved[c]
        /\ told[c] \in {"raised", "fatal_error"} => Registered(c) = {}

\* A delivery file that is not of a dry run is of a registered delivery, even
\* one that was cut short, whatever died or was refused meanwhile.
SavedIsRegistered ==
    \A c \in Client : \A file \in saved[c] :
        ~file.dry_run =>
            \E i \in DOMAIN deliveries : deliveries[i].id = file.id
                                       /\ deliveries[i].client = c

\* A client that asks for the status of a delivery it registered is not told
\* that there is none: the entity of the query is that of the delivery.  The
\* functions of the Python interface do not see to it when the environment
\* names an entity: they submit for it, and ask without it.
FoundAgain ==
    \A c \in Client :
        /\ told[c] = "not_found" /\ query[c].answered
        /\ Interface[c] = "cli" \/ OnBehalfOf[c] = NoEntity
        =>  \A i \in 1..query[c].at :
                deliveries[i].client = c => deliveries[i].id # query[c].delivery_id

\* "`Upload` has the `anchor` argument" (concepts), and submit has one too
\* ("Optional anchor to convert the local file path to an S3 suffix"): an
\* anchor that the user gave to an upload, either way, reaches the core.
AnchorUsed ==
    \A c \in Client : \A i \in DOMAIN call[c].asked :
        call[c].asked[i] # NoAnchor => call[c].anchors[i] # NoAnchor
=============================================================================
