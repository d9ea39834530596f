------------------------------ MODULE Session ------------------------------
(***************************************************************************)
(* The session extension (modules/session): a session_handle for every     *)
(* request, which reads the session's file when it is made and writes all  *)
(* of it back when its last copy is destroyed.  Values are never erased by *)
(* the interface; an entry is the request that has set it and how its text *)
(* is written.  A key that get() converts is written back with the same    *)
(* value.                                                                  *)
(***************************************************************************)
EXTENDS Requests

CONSTANT Name \* session ids that clients have from earlier

(* new_session_id is random: another id for each request. *)
Id == Name \cup Request

(* Texts with neither '=' nor a newline, with a '=', with a newline; the   *)
(* front part of one of those, and the rest of a line that became an entry *)
(* of its own.                                                             *)
Settable == {"plain", "equals", "newline"}
Entry == Request \X (Settable \cup {"cut", "junk"})
Plain(entries) == {r \in Request : <<r, "plain">> \in entries}

VARIABLES
    exists, files, \* files of SESSION_DIRECTORY, and what is in them
    id_, values_,  \* members of the session_handle of each request
    alive,         \* requests with a session_handle
    writing,       \* those whose ofstream is open on the file that exists
    alone          \* history: sessions whose requests never met, as in SessionStore

sessionVars == <<exists, files, id_, values_, alive, writing, alone>>

SessionTypeOK ==
    /\ exists \subseteq Id /\ files \in [Id -> SUBSET Entry]
    /\ id_ \in [Request -> Id] /\ values_ \in [Request -> SUBSET Entry]
    /\ writing \subseteq alive /\ alive \subseteq Request /\ alone \subseteq Id

SessionInit ==
    /\ exists = {} /\ files = [s \in Id |-> {}]
    /\ id_ = [r \in Request |-> r] /\ values_ = [r \in Request |-> {}]
    /\ alive = {} /\ writing = {} /\ alone = Id

(* The id in the cookie, or a new one. *)
SessionOf(r, cookie) == IF cookie.id \in Id /\ Recognised(cookie) THEN cookie.id ELSE r

(* Lines k=v: each is read up to its second '=', and a value goes on over  *)
(* the end of its line as an entry of another name.                        *)
ReadBack(entries) ==
    {<<e[1], IF e[2] \in {"equals", "newline"} THEN "cut" ELSE e[2]>> : e \in entries}
    \cup {<<e[1], "junk">> : e \in {f \in entries : f[2] = "newline"}}

(* on_request, with the constructor of session_handle. *)
Load(r, cookie) ==
    LET s == SessionOf(r, cookie)
    IN /\ id_' = [id_ EXCEPT ![r] = s]
       /\ values_' = [values_ EXCEPT ![r] = IF s \in exists THEN ReadBack(files[s]) ELSE {}]
       /\ alive' = alive \cup {r}
       /\ alone' = IF \E q \in alive : id_[q] = s THEN alone \ {s} ELSE alone
       /\ UNCHANGED <<exists, files, writing>>

SetValue(r, text) ==
    /\ values_' = [values_ EXCEPT ![r] = @ \cup {<<r, text>>}]
    /\ UNCHANGED <<exists, files, id_, alive, writing, alone>>

(* save() of an empty session. *)
RemoveFile(r) ==
    /\ values_[r] = {}
    /\ exists' = exists \ {id_[r]}
    /\ files' = [files EXCEPT ![id_[r]] = {}]
    /\ writing' = {q \in writing : id_[q] # id_[r]}
    /\ alive' = alive \ {r}
    /\ UNCHANGED <<id_, values_, alone>>

(* save() of another one opens the file, which empties it ... *)
Truncate(r) ==
    /\ values_[r] # {}
    /\ exists' = exists \cup {id_[r]}
    /\ files' = [files EXCEPT ![id_[r]] = {}]
    /\ writing' = writing \cup {r}
    /\ UNCHANGED <<id_, values_, alive, alone>>

(* Defect: only what this request has set is written. *)
WriteOwn(r) ==
    /\ r \in writing => files' = [files EXCEPT ![id_[r]] = {e \in values_[r] : e[1] = r}]
    /\ r \notin writing => UNCHANGED files
    /\ writing' = writing \ {r}
    /\ alive' = alive \ {r}
    /\ UNCHANGED <<exists, id_, values_, alone>>

(* ... and closes it, which writes the entries over whatever another       *)
(* request may have written meanwhile, from the start of the file on.      *)
Write(r) ==
    /\ IF r \in writing
       THEN \E rest \in SUBSET files[id_[r]] :
                files' = [files EXCEPT ![id_[r]] = values_[r] \cup rest]
       ELSE UNCHANGED files
    /\ writing' = writing \ {r}
    /\ alive' = alive \ {r}
    /\ UNCHANGED <<exists, id_, values_, alone>>

(* The program ends, whatever is open. *)
CutOff ==
    /\ alone' = alone \ {id_[r] : r \in writing}
    /\ UNCHANGED <<exists, files, id_, values_, alive, writing>>
=============================================================================
