-------------------------------- MODULE Catalog --------------------------------
(***************************************************************************)
(* CatalogService: one service for all master data.  A record is known by  *)
(* what its unique index covers: the code, the register number, or the     *)
(* parents it joins.  A client edits what it loaded some time ago, and     *)
(* sends the updatedAt of that moment; a write sets a new one, and two     *)
(* writes of a record never set the same one.                              *)
(*                                                                         *)
(* update and status read the record, then write it with one conditional   *)
(* statement, then record in the audit log what they read before and what  *)
(* the row is after.  Records are never deleted.  The accounts of the      *)
(* tenant are there before it: the seed writes them, with passwords.       *)
(***************************************************************************)
EXTENDS Naturals, Sequences, FiniteSetsExt

CONSTANTS
  Records,   \* records that may exist
  Parents,   \* the records that each one refers to
  NoRecord,  \* an empty or an unknown value
  Accounts,  \* records that are users, which logging in updates as well
  Contents,  \* what the editable fields of a record may hold
  Editors,   \* requests the backend may be handling at once
  MaxWrites  \* bound on the writes of all records together

ASSUME NoRecordAssumption == NoRecord \notin Records
ASSUME ParentsAssumption == Parents \in [Records -> SUBSET Records]
ASSUME AccountsAssumption ==
  Accounts \subseteq Records /\ \A r \in Accounts : Parents[r] = {}
ASSUME ContentsAssumption == Contents # {}
ASSUME MaxWritesAssumption == MaxWrites \in Nat

VARIABLES
  rows,      \* the record's row; updatedAt counts its writes, 0 is no row
  edit,      \* what the backend is doing for each request
  catalogAudit \* audit_logs rows about each record, in the order of commit

catalogVars == <<rows, edit, catalogAudit>>

Status == {"ACTIVE", "INACTIVE"}
CatalogRow == [status : Status, content : Contents, updatedAt : Nat]
Row(status, content, updatedAt) ==
  [status |-> status, content |-> content, updatedAt |-> updatedAt]
Blank == Row("ACTIVE", CHOOSE x \in Contents : TRUE, 0)
Image == [action : {"CREATE", "UPDATE", "STATUS_CHANGE"},
          before : CatalogRow, after : CatalogRow]
Edit == [phase : {"idle", "create", "found"}, op : {"none", "CREATE", "UPDATE",
         "STATUS_CHANGE"}, record : Records \cup {NoRecord}, expected : Nat,
         existing : CatalogRow]
Doing(phase, op, record, expected, existing) ==
  [phase |-> phase, op |-> op, record |-> record, expected |-> expected,
   existing |-> existing]
NoEdit == Doing("idle", "none", NoRecord, 0, Blank)

CatalogTypeOK ==
  /\ rows \in [Records -> CatalogRow]
  /\ edit \in [Editors -> Edit]
  /\ catalogAudit \in [Records -> Seq(Image)]

Exists(r) == rows[r].updatedAt > 0

CatalogInit ==
  /\ rows = [r \in Records |->
               IF r \in Accounts THEN Row(Blank.status, Blank.content, 1) ELSE Blank]
  /\ edit = [e \in Editors |-> NoEdit]
  /\ catalogAudit = [r \in Records |-> <<>>]

ParentsFound(r) == \A parent \in Parents[r] : Exists(parent)

Writes == MapThenSumSet(LAMBDA r : rows[r].updatedAt, Records)

Put(r, row) == rows' = [rows EXCEPT ![r] = row]

Recorded(r, action, before, after) ==
  catalogAudit' = [catalogAudit EXCEPT ![r] =
    Append(@, [action |-> action, before |-> before, after |-> after])]
Closed(e) == edit' = [edit EXCEPT ![e] = NoEdit]

----------------------------------------------------------------------------
(* create: the required fields, the parents, then the insert.              *)

CheckCreate(e) ==
  /\ edit[e].phase = "idle"
  /\ \E r \in Records :
       /\ ParentsFound(r)
       /\ edit' = [edit EXCEPT ![e] = Doing("create", "CREATE", r, 0, Blank)]
  /\ UNCHANGED <<rows, catalogAudit>>

CreateRecord(e) ==
  LET r == edit[e].record
  IN  /\ edit[e].phase = "create"
      /\ ~Exists(r)
      /\ \E x \in Contents :
           LET row == Row("ACTIVE", x, 1)
           IN  Put(r, row) /\ Recorded(r, "CREATE", Blank, row)
      /\ Closed(e)

----------------------------------------------------------------------------
(* update and status: the client names the updatedAt of what it has seen.  *)

FindRecord(e) ==
  /\ edit[e].phase = "idle"
  /\ \E r \in Records, op \in {"UPDATE", "STATUS_CHANGE"} :
       /\ Exists(r)
       /\ \E seen \in 1..rows[r].updatedAt :
            edit' = [edit EXCEPT ![e] = Doing("found", op, r, seen, rows[r])]
  /\ UNCHANGED <<rows, catalogAudit>>

\* Mutant: the statement names the record alone.
AnyMoment(e) == TRUE

\* The where clause of updateMany.
StillAsSeen(e) == rows[edit[e].record].updatedAt = edit[e].expected

Rewritten(row, op) ==
  IF op = "UPDATE" THEN {Row(row.status, x, row.updatedAt + 1) : x \in Contents}
  ELSE {Row(s, row.content, row.updatedAt + 1) : s \in Status}

\* updateMany, the read of its own result, the audit row.
WriteRecord(e) ==
  LET r == edit[e].record
  IN  /\ edit[e].phase = "found"
      /\ Writes < MaxWrites
      /\ StillAsSeen(e)
      /\ \E row \in Rewritten(rows[r], edit[e].op) :
           Put(r, row) /\ Recorded(r, edit[e].op, edit[e].existing, row)
      /\ Closed(e)

\* 404, 409 'Record changed; reload and retry', a unique index, a crash.
RefuseEdit(e) ==
  /\ edit[e].phase # "idle"
  /\ Closed(e)
  /\ UNCHANGED <<rows, catalogAudit>>

\* login counts failures in the user's own row.
TouchAccount(r) ==
  /\ r \in Accounts
  /\ Exists(r) /\ Writes < MaxWrites
  /\ Put(r, Row(rows[r].status, rows[r].content, rows[r].updatedAt + 1))
  /\ UNCHANGED <<edit, catalogAudit>>

CatalogNext ==
  \/ \E e \in Editors :
       \/ CheckCreate(e) \/ CreateRecord(e)
       \/ FindRecord(e) \/ WriteRecord(e) \/ RefuseEdit(e)
  \/ \E r \in Records : TouchAccount(r)

CatalogSpec == CatalogInit /\ [][CatalogNext]_catalogVars

----------------------------------------------------------------------------
(* Properties.                                                             *)

\* The audit log of a record is a chain without a gap, from its creation or
\* from the seed to what it holds now: nobody's edit is overwritten unseen,
\* although every request read its before-image earlier and without a lock.
Shows(row) == <<row.status, row.content>>
HistoryIsGapless ==
  \A r \in Records :
    LET log == catalogAudit[r]
    IN  IF log = <<>> THEN (Exists(r) => r \in Accounts) /\ Shows(rows[r]) = Shows(Blank)
        ELSE /\ (log[1].action = "CREATE") = (r \notin Accounts)
             /\ Shows(log[1].before) = Shows(Blank)
             /\ \A k \in 2..Len(log) : /\ log[k].action # "CREATE"
                                       /\ Shows(log[k].before) = Shows(log[k - 1].after)
             /\ Shows(log[Len(log)].after) = Shows(rows[r])

\* A record exists only below records that exist, whoever creates them.
ParentsExist ==
  \A r \in Records, parent \in Records :
    Exists(r) /\ parent \in Parents[r] => Exists(parent)
============================================================================
