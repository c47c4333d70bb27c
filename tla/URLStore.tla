------------------------------ MODULE URLStore ------------------------------
(***************************************************************************)
(* The abstract store behind service.URLRepository: a table of rows on     *)
(* which every call takes effect in one step between its start and its     *)
(* return.  Two calls are weaker than that, because the callers cannot     *)
(* count on more: SoftDeleteURLs may stop part way with an error, and      *)
(* GetURLs may see the effects of calls that have not returned yet.        *)
(***************************************************************************)
EXTENDS URLModel

VARIABLES
  rows,   (* the table: code -> row or NoRow       *)
  call,   (* the call each client is in            *)
  reply   (* the answer to each client's last call *)

storeVars == <<rows, call, reply>>

StoreInit ==
  /\ rows = [c \in ShortCodes |-> NoRow]
  /\ call = [p \in Clients |-> NoCall]
  /\ reply = [p \in Clients |-> Nothing]

Invoke(p) ==
  /\ call[p] = NoCall
  /\ \E r \in Requests : call' = [call EXCEPT ![p] = r]
  /\ UNCHANGED <<rows, reply>>

InCall(p, op) == call[p] # NoCall /\ call[p].op = op

Return(p, answer) ==
  /\ call' = [call EXCEPT ![p] = NoCall]
  /\ reply' = [reply EXCEPT ![p] = answer]

-----------------------------------------------------------------------------
\* A call whose context is already cancelled changes nothing.
Refuse(p) ==
  /\ call[p] # NoCall
  /\ Return(p, CtxError)
  /\ UNCHANGED rows

\* A new row is stored only when neither its code nor its URL is known.
Create(p) ==
  /\ InCall(p, "create")
  /\ LET new == call[p].row
         sameURL(c) == rows[c] # NoRow /\ rows[c].originalURL = new.originalURL
     IN \/ /\ rows[new.shortCode] = NoRow
           /\ \A c \in ShortCodes : ~sameURL(c)
           /\ rows' = [rows EXCEPT ![new.shortCode] = new]
           /\ Return(p, Nothing)
        \/ /\ rows[new.shortCode] # NoRow
           /\ Return(p, ErrConflictShortCode)
           /\ UNCHANGED rows
        \/ /\ \E c \in ShortCodes :
                sameURL(c) /\ Return(p, OriginalURLConflictError(c))
           /\ UNCHANGED rows

\* A batch is stored whole, and only when its codes are new and distinct.
CreateBatch(p) ==
  /\ InCall(p, "createBatch")
  /\ LET batch == call[p].rows
     IN \/ /\ \A i \in DOMAIN batch :
                /\ rows[batch[i].shortCode] = NoRow
                /\ \A j \in DOMAIN batch :
                     batch[i].shortCode = batch[j].shortCode => i = j
           /\ rows' = [c \in ShortCodes |->
                         IF c \in CodesOf(batch) THEN RowFor(batch, c)
                         ELSE rows[c]]
           /\ Return(p, Nothing)
        \/ /\ \E i \in DOMAIN batch :
                /\ \/ rows[batch[i].shortCode] # NoRow
                   \/ \E j \in 1 .. i - 1 :
                        batch[j].shortCode = batch[i].shortCode
                /\ Return(p, BatchConflictError(i))
           /\ UNCHANGED rows

\* Rows are marked, never removed.  A nil error means that every row the
\* user owns among the codes is marked.
SoftDelete(p) ==
  /\ InCall(p, "softDelete")
  /\ LET uid == call[p].uid
         codes == {call[p].shortCodes[i] : i \in DOMAIN call[p].shortCodes}
     IN \E marked \in SUBSET codes :
          /\ \A c \in marked : rows[c] # NoRow
          /\ rows' = [c \in ShortCodes |->
                        IF c \in marked THEN Deleted(rows[c]) ELSE rows[c]]
          /\ \/ /\ \A c \in codes \ marked :
                     rows[c] # NoRow => rows[c].userID # uid
                /\ Return(p, Nothing)
             \/ /\ \E c \in codes : rows[c] = NoRow
                /\ Return(p, ErrNotExists)

Get(p) ==
  /\ InCall(p, "get")
  /\ Return(p, GetAnswer(rows[call[p].shortCode]))
  /\ UNCHANGED rows

\* The codes that the running calls may be inserting for user uid, and the
\* codes that they may be deleting.
BeingCreated(uid) ==
  {c \in ShortCodes :
     \E q \in Clients : /\ InCall(q, "createBatch")
                        /\ \E i \in DOMAIN call[q].rows :
                             /\ call[q].rows[i].shortCode = c
                             /\ call[q].rows[i].userID = uid}

BeingDeleted ==
  {c \in ShortCodes :
     \E q \in Clients : /\ InCall(q, "softDelete")
                        /\ \E i \in DOMAIN call[q].shortCodes :
                             call[q].shortCodes[i] = c}

GetURLs(p) ==
  /\ InCall(p, "getURLs")
  /\ LET uid == call[p].uid
     IN \E codes \in SUBSET ShortCodes :
          /\ \A c \in codes :
               ListedFor(rows[c], uid) \/ c \in BeingCreated(uid)
          /\ \A c \in ShortCodes \ codes :
               ListedFor(rows[c], uid) => c \in BeingDeleted
          /\ \/ Return(p, Listed(codes))
             \/ codes = {} /\ Return(p, ErrNoRows)
  /\ UNCHANGED rows

-----------------------------------------------------------------------------
StoreNext ==
  \E p \in Clients :
    \/ Invoke(p) \/ Refuse(p) \/ Create(p) \/ CreateBatch(p)
    \/ SoftDelete(p) \/ Get(p) \/ GetURLs(p)

StoreSpec == StoreInit /\ [][StoreNext]_storeVars
=============================================================================
