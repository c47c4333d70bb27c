---------------------------- MODULE FallibleStore ----------------------------
(***************************************************************************)
(* What the file storage (internal/repository/url/file_inmemory.go) lets   *)
(* its callers count on while a process runs: URLStore, but the answer may *)
(* come later than the effect, and it may be an error although the call    *)
(* has had its effect.                                                     *)
(***************************************************************************)
EXTENDS URLStore

VARIABLES
  open,    (* the call each client waits for                           *)
  answer   (* what each client's last call returned, until the next one *)

fallibleVars == <<storeVars, open, answer>>

DiskError == [err |-> "disk"]

Answered(p, a) ==
  /\ open' = [open EXCEPT ![p] = NoCall]
  /\ answer' = [answer EXCEPT ![p] = a]

Open(p) ==
  /\ Invoke(p)
  /\ open' = [open EXCEPT ![p] = call'[p]]
  /\ answer' = [answer EXCEPT ![p] = Nothing]

\* After a restart nobody knows the codes of the stored URLs, and a create may
\* store one of them again.
CreateAgain(p) ==
  /\ InCall(p, "create")
  /\ LET new == call[p].row
     IN /\ rows[new.shortCode] = NoRow
        /\ \E c \in ShortCodes :
             rows[c] # NoRow /\ rows[c].originalURL = new.originalURL
        /\ rows' = [rows EXCEPT ![new.shortCode] = new]
        /\ Return(p, Nothing)

Changes(r) == r.op \in {"create", "createBatch", "softDelete"}

\* A call takes effect.  Only one that succeeds, and that changes rows, is not
\* over with that.
TakeEffect(p) ==
  /\ \/ Refuse(p) \/ Create(p) \/ CreateAgain(p) \/ CreateBatch(p)
     \/ SoftDelete(p) \/ Get(p) \/ GetURLs(p)
  /\ \/ /\ reply'[p].err # "nil" \/ ~Changes(open[p])
        /\ Answered(p, reply'[p])
     \/ /\ reply'[p].err = "nil"
        /\ Changes(open[p])
        /\ UNCHANGED <<open, answer>>

\* The caller of a call that has taken effect hears of it, or of the disk.
Tell(p) ==
  /\ open[p] # NoCall
  /\ call[p] = NoCall
  /\ Answered(p, Nothing) \/ Answered(p, DiskError)
  /\ UNCHANGED storeVars

FallibleNext == \E p \in Clients : Open(p) \/ TakeEffect(p) \/ Tell(p)
=============================================================================
