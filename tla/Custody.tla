------------------------------ MODULE Custody ------------------------------
(***************************************************************************)
(* Delete-after-transfer: a phone sends assets, hashes the files it sent,  *)
(* asks the receiver to prove that it still holds those bytes, and deletes *)
(* the assets of which every recorded file was vouched for.  The phone is  *)
(* mobile/src/engine/deletion.ts, core/deletion.ts, data/deletion.ts and   *)
(* the part of engine/uploader.ts and ui/TransferScreen.tsx that drives    *)
(* them; the receiver is core/storage/custody.go, over the conversion      *)
(* queue of Conversion, whose workers remove originals at the same time.   *)
(*                                                                         *)
(* The setting is on, and all assets are selected in every run.            *)
(***************************************************************************)
EXTENDS Conversion

CONSTANTS
    Selections,    \* what the options may leave out: sets of assets of which
                   \* some resource is not chosen
    ConfirmBatch,  \* files in one request (CONFIRM_BATCH)
    MaxRuns        \* bound: transfer runs of the phone

PhoneFaults == {"upload", "hash", "lost", "appkill", "forget"}

ASSUME CustodyAssumption ==
    /\ \A selection \in Selections : selection \subseteq Assets
    /\ ConfirmBatch \in Nat \ {0}
    /\ MaxRuns \in Nat
    /\ Faults \subseteq ReceiverFaults \cup PhoneFaults

VARIABLES
    withheld, \* the assets of which the options leave something out
    run,      \* the transfer run: its stage, and the files left in it
    runs,     \* how many were begun
    sent,     \* the files of the phone's table sent
    tonote,   \* files sent by this run, to be hashed when it ends
    cand,     \* per file: the withheld column of its row of pending_deletion
    reclaim,  \* the reclaim under way: rows read, files to ask for, answers
    request,  \* what the receiver is answering
    deleted,  \* the assets deleted from the phone
    proved    \* history: files read back intact since the reclaim began

phoneVars == <<withheld, run, runs, sent, tonote, cand>>
custodyVars == <<reclaim, request, deleted, proved>>
vars == <<receiverVars, phoneVars, custodyVars>>

NoRun == [pc |-> "idle", left |-> {}]
NoRows == [f \in Files |-> "none"]
NoReclaim == [pc |-> "idle", rows |-> NoRows, todo |-> {}, yes |-> {}, no |-> {}]
NoRequest == [asked |-> {}, left |-> {}, at |-> None, yes |-> {}, no |-> {}]

Init ==
    /\ ConversionInit
    /\ withheld \in Selections
    /\ run = NoRun
    /\ runs = 0
    /\ sent = {}
    /\ tonote = {}
    /\ cand = NoRows
    /\ reclaim = NoReclaim
    /\ request = NoRequest
    /\ deleted = {}
    /\ proved = {}

OnPhone == UNION (Assets \ deleted)

-----------------------------------------------------------------------------
(* A transfer run *)

(* What is already in the ledger is skipped, and noted if it was not yet.  *)
StartRun ==
    /\ run.pc = "idle"
    /\ runs < MaxRuns
    /\ runs' = runs + 1
    /\ tonote' = {}
    /\ run' = [pc |-> "already", left |-> {f \in OnPhone \cap sent : cand[f] = "none"}]
    /\ UNCHANGED <<withheld, sent, cand, custodyVars, receiverVars>>

(* noteSent: the file is hashed and its row recorded, with what is known   *)
(* of the resources of its asset that were not chosen; a hash that fails   *)
(* leaves no row.                                                          *)
NoteSent(f) ==
    \/ /\ cand' = [cand EXCEPT ![f] =
                     IF AssetOf(f) \in withheld THEN "part" ELSE "whole"]
       /\ UNCHANGED faults
    \/ /\ Fault("hash")
       /\ UNCHANGED cand

Note(f) ==
    /\ run.pc \in {"already", "noting"}
    /\ f \in run.left
    /\ NoteSent(f)
    /\ run' = [run EXCEPT !.left = @ \ {f}]
    /\ UNCHANGED <<withheld, runs, sent, tonote, custodyVars, up, stage, disk, marked, row,
                   output, queueVars, removed, broken>>

(* The stages of run(): note what was sent before, transfer the rest, note *)
(* what was transferred.                                                   *)
NextStage ==
    /\ run.left = {}
    /\ \/ /\ run.pc = "already"
          /\ run' = [pc |-> "sending", left |-> OnPhone \ sent]
       \/ /\ run.pc = "sending"
          /\ run' = [pc |-> "noting", left |-> tonote]
       \/ /\ run.pc = "noting"
          /\ run' = [NoRun EXCEPT !.pc = "done"]
    /\ UNCHANGED <<withheld, runs, sent, tonote, cand, custodyVars, receiverVars>>

(* The bytes of an upload arrive and are committed. *)
Upload(f) ==
    /\ run.pc = "sending"
    /\ f \in run.left
    /\ Place(f)
    /\ UNCHANGED <<phoneVars, custodyVars>>

(* The answer of an upload.  Of a file the receiver has already, it is     *)
(* that of the duplicate.                                                  *)
Uploaded(f) ==
    /\ up
    /\ run.pc = "sending"
    /\ f \in run.left
    /\ stage[f] = "stored"
    /\ sent' = sent \cup {f}
    /\ tonote' = tonote \cup {f}
    /\ run' = [run EXCEPT !.left = @ \ {f}]
    /\ UNCHANGED <<withheld, runs, cand, custodyVars, receiverVars>>

(* An upload fails: the item is shown as failed, and the run goes on.      *)
UploadFails(f) ==
    /\ run.pc = "sending"
    /\ f \in run.left
    /\ \/ up /\ Fault("upload")
       \/ ~up /\ UNCHANGED faults
    /\ run' = [run EXCEPT !.left = @ \ {f}]
    /\ UNCHANGED <<withheld, runs, sent, tonote, cand, custodyVars, up, stage, disk, marked, row,
                   output, queueVars, removed, broken>>

-----------------------------------------------------------------------------
(* Reclaiming *)

(* worthAsking: of an asset nothing was withheld from. *)
Askable == {f \in Files : cand[f] = "whole"}

(* After a run that is done the rows are read.  When there is none worth   *)
(* asking for, or the receiver is out of reach, nothing happens.           *)
StartReclaim ==
    /\ run.pc = "done"
    /\ reclaim.pc = "idle"
    /\ run' = NoRun
    /\ \/ /\ up
          /\ Askable # {}
          /\ reclaim' = [NoReclaim EXCEPT !.pc = "asking", !.rows = cand, !.todo = Askable]
          /\ proved' = {}
       \/ /\ ~up \/ Askable = {}
          /\ UNCHANGED <<reclaim, proved>>
    /\ UNCHANGED <<withheld, runs, sent, tonote, cand, request, deleted, receiverVars>>

(* The next batch is asked for, one request at a time.  A receiver that is *)
(* out of reach costs its batch, no more.                                  *)
Ask ==
    /\ reclaim.pc = "asking"
    /\ request = NoRequest
    /\ \E batch \in SUBSET reclaim.todo :
         /\ batch # {}
         /\ Cardinality(batch) <= ConfirmBatch
         /\ batch # reclaim.todo => Cardinality(batch) = ConfirmBatch
         /\ reclaim' = [reclaim EXCEPT !.todo = @ \ batch]
         /\ request' = IF up THEN [NoRequest EXCEPT !.asked = batch, !.left = batch]
                             ELSE NoRequest
    /\ UNCHANGED <<deleted, proved, phoneVars, receiverVars>>

(* confirmOne reads the row of the file.  A mark refuses. *)
Look(f) ==
    /\ up
    /\ f \in request.left
    /\ request.at = None
    /\ request' =
         IF stage[f] = "away" \/ f \in marked
         THEN [request EXCEPT !.left = @ \ {f}, !.no = @ \cup {f}]
         ELSE [request EXCEPT !.left = @ \ {f}, !.at = f]
    /\ UNCHANGED <<reclaim, deleted, proved, phoneVars, receiverVars>>

(* ... and then its bytes, in full. *)
Read ==
    LET f == request.at IN
    /\ up
    /\ f # None
    /\ IF disk[f] = "good"
       THEN /\ request' = [request EXCEPT !.at = None, !.yes = @ \cup {f}]
            /\ proved' = proved \cup {f}
       ELSE /\ request' = [request EXCEPT !.at = None, !.no = @ \cup {f}]
            /\ UNCHANGED proved
    /\ UNCHANGED <<reclaim, deleted, phoneVars, receiverVars>>

(* The answer reaches the phone, which keeps what is unambiguous ... *)
Answer ==
    /\ up
    /\ request.asked # {}
    /\ request.left = {}
    /\ request.at = None
    /\ reclaim' = [reclaim EXCEPT !.yes = @ \cup request.yes, !.no = @ \cup request.no]
    /\ request' = NoRequest
    /\ UNCHANGED <<deleted, proved, phoneVars, receiverVars>>

(* ... or it does not: a receiver that is gone, an error, a broken body.   *)
Lost ==
    /\ request # NoRequest
    /\ \/ ~up /\ UNCHANGED faults
       \/ up /\ Fault("lost")
    /\ request' = NoRequest
    /\ UNCHANGED <<reclaim, deleted, proved, phoneVars, up, stage, disk, marked, row,
                   output, queueVars, removed, broken>>

(* verdictFor, over the rows that were read: nothing was withheld from the *)
(* asset, and each of its files was vouched for.                           *)
RowsOf(a) == {f \in a : reclaim.rows[f] # "none"}

(* The bug of taking what was not refused for confirmed. *)
VouchedLax(a) ==
    \A f \in RowsOf(a) :
        /\ reclaim.rows[f] = "whole"
        /\ f \notin reclaim.no

Vouched(a) ==
    \A f \in RowsOf(a) :
        /\ reclaim.rows[f] = "whole"
        /\ f \in reclaim.yes

Deletable == {a \in Assets : RowsOf(a) # {} /\ Vouched(a)}

Asked == reclaim.pc = "asking" /\ reclaim.todo = {} /\ request = NoRequest

(* Nothing may be deleted, or the person declines the dialog of the        *)
(* system: the rows stay.                                                  *)
KeepAll ==
    /\ Asked
    /\ reclaim' = NoReclaim
    /\ UNCHANGED <<request, deleted, proved, phoneVars, receiverVars>>

(* One dialog for all. *)
DeleteAll ==
    /\ Asked
    /\ Deletable # {}
    /\ deleted' = deleted \cup Deletable
    /\ reclaim' = [reclaim EXCEPT !.pc = "clearing"]
    /\ UNCHANGED <<request, proved, phoneVars, receiverVars>>

(* The rows of the assets that are gone are dropped. *)
Clear ==
    /\ reclaim.pc = "clearing"
    /\ cand' = [f \in Files |->
                  IF f \in UNION {RowsOf(a) : a \in Deletable} THEN "none" ELSE cand[f]]
    /\ reclaim' = NoReclaim
    /\ UNCHANGED <<request, deleted, proved, withheld, run, runs, sent, tonote, receiverVars>>

-----------------------------------------------------------------------------
(* The app and the receiver *)

(* The app is killed.  What the receiver is answering, it answers nobody.  *)
AppKill ==
    /\ Fault("appkill")
    /\ run' = NoRun
    /\ tonote' = {}
    /\ reclaim' = NoReclaim
    /\ request' = NoRequest
    /\ UNCHANGED <<withheld, runs, sent, cand, deleted, proved, up, stage, disk, marked, row,
                   output, queueVars, removed, broken>>

(* The receiver is forgotten: its rows go, a reclaim under way does not    *)
(* stop (cancelReclaim).                                                   *)
Forget ==
    /\ Fault("forget")
    /\ cand' = NoRows
    /\ UNCHANGED <<withheld, run, runs, sent, tonote, custodyVars, up, stage, disk, marked, row,
                   output, queueVars, removed, broken>>

Receiver ==
    /\ ReceiverStep
    /\ UNCHANGED <<phoneVars, custodyVars>>

Phone ==
    \/ StartRun
    \/ NextStage
    \/ \E f \in Files : Note(f) \/ Upload(f) \/ Uploaded(f) \/ UploadFails(f)
    \/ StartReclaim
    \/ Ask
    \/ \E f \in Files : Look(f)
    \/ Read
    \/ Answer
    \/ Lost
    \/ KeepAll
    \/ DeleteAll
    \/ Clear
    \/ AppKill
    \/ Forget

Next == Phone \/ Receiver

Spec == Init /\ [][Next]_vars

-----------------------------------------------------------------------------
(* Properties *)

(* Every variable of the phone has its type, the receiver keeps its own,   *)
(* and a request is answered only for a reclaim that asks.                 *)
TypeOK ==
    /\ ReceiverTypeOK
    /\ withheld \in Selections
    /\ run \in [pc : {"idle", "already", "sending", "noting", "done"}, left : SUBSET Files]
    /\ runs \in 0 .. MaxRuns
    /\ sent \subseteq Files
    /\ tonote \subseteq sent
    /\ cand \in [Files -> {"none", "part", "whole"}]
    /\ reclaim \in [pc : {"idle", "asking", "clearing"},
                    rows : [Files -> {"none", "part", "whole"}],
                    todo : SUBSET Files, yes : SUBSET Files, no : SUBSET Files]
    /\ request \in [asked : SUBSET Files, left : SUBSET Files, at : Files \cup {None},
                    yes : SUBSET Files, no : SUBSET Files]
    /\ request # NoRequest => reclaim.pc = "asking"
    /\ deleted \subseteq Assets
    /\ proved \subseteq Files

(* An asset is deleted only when nothing of it was withheld and each of    *)
(* its files that the reclaim knows of was read back intact while that     *)
(* reclaim ran: no lost batch, no kill on either side, no answer to an     *)
(* earlier question and no removal of an original makes up for a reading   *)
(* (planDeletions, parseConfirmations, confirmOne).  And a row of          *)
(* pending_deletion is dropped only with its asset, or with the receiver   *)
(* it is for: what was declined, refused or not answered is asked again by *)
(* the next run (reclaim: "The candidates stay either way").               *)
DeletesAreVouched ==
    [][/\ \A a \in deleted' \ deleted :
             /\ a \notin withheld
             /\ \A f \in a : reclaim.rows[f] # "none" => f \in proved
       /\ \A f \in Files :
             cand[f] # "none" /\ cand'[f] = "none" =>
                 AssetOf(f) \in deleted \/ faults' # faults]_vars

(* An asset is deleted only if every file it was sent as has reached the   *)
(* receiver.                                                               *)
DeletedWasSent ==
    \A a \in deleted : \A f \in a : stage[f] # "away"

=============================================================================
