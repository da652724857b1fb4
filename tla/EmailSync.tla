----------------------------- MODULE EmailSync -----------------------------
(***************************************************************************)
(* `myc email sync` of one IMAP account (cmd_email_sync and the imap       *)
(* module): for each folder, fetch what is newer than the last seen UID,   *)
(* write every message to a file of the shared temp directory, index the   *)
(* files with Analyzer::analyze_files, remove the directory; when all      *)
(* folders are done, save the last seen UIDs.                              *)
(*                                                                         *)
(* The rows of a message are stored under the name of its temp file,       *)
(* <account>_<position in the batch>.eml: row[i] is the set of messages    *)
(* whose rows carry position i.  The server's messages come and go while   *)
(* syncs run; their UIDs stay (UIDVALIDITY, which the code never asks for, *)
(* does not change).                                                       *)
(***************************************************************************)
EXTENDS Integers, Sequences, FiniteSets

CONSTANTS
    Syncs,      \* processes that may run `myc email sync`
    Folders,    \* ImapConfig.folders, a sequence
    Malformed,  \* messages parse_eml rejects
    MaxUid,     \* bound: messages that arrive in a folder
    MaxGone,    \* bound: messages that are expunged
    NoState, TornState   \* the state file is absent, or cut by a crash in fs::write

Names     == {Folders[i] : i \in DOMAIN Folders}
Mail      == Names \X (1..MaxUid)
Uids      == [Names -> 0..MaxUid]
Positions == 1..MaxUid

ASSUME EmailAssumption ==
    /\ MaxUid \in Nat /\ MaxGone \in Nat
    /\ Folders \in Seq(STRING)
    /\ \A i, j \in DOMAIN Folders : Folders[i] = Folders[j] => i = j
    /\ NoState # TornState
    /\ \A uids \in Uids : uids # NoState /\ uids # TornState

VARIABLES
    mailbox,    \* the highest UID each folder on the server has given
    expunged,   \* the messages that were expunged
    saved,      \* imap_state/<account>.json
    temp,       \* the temp directory: position -> at most one message
    row,        \* the index: position -> the messages stored under its name
    syncStep,   \* step of each sync
    at,         \* position in `folders` of the one being synced
    last,       \* state.last_uid_per_folder
    batch,      \* the messages fetch_new_emails returned, in the order of their UIDs
    stored,     \* history: messages that were indexed at some time
    shifted,    \* history: folders where a message was expunged that counted in the
                \* position of a later one, and would not when that is fetched again
    syncsOverlapped \* history: two syncs were at work at once

syncLocal == <<syncStep, at, last, batch>>
mailVars  == <<mailbox, expunged, saved, temp, row, syncLocal, stored, shifted,
               syncsOverlapped>>

MailTypeOK ==
    /\ mailbox \in Uids /\ expunged \subseteq Mail
    /\ saved \in Uids \cup {NoState, TornState}
    /\ temp \in [Positions -> SUBSET Mail] /\ row \in [Positions -> SUBSET Mail]
    /\ syncStep \in [Syncs -> {"idle", "fetch", "write", "purge", "store", "clean",
                            "save", "cut"}]
    /\ at \in [Syncs -> 1..Len(Folders) + 1]
    /\ last \in [Syncs -> Uids]
    /\ batch \in [Syncs -> SUBSET Mail]
    /\ stored \subseteq Mail /\ shifted \subseteq Names /\ syncsOverlapped \in BOOLEAN

Unseen == [f \in Names |-> 0]
Empty  == [i \in Positions |-> {}]

MailInit ==
    /\ mailbox = Unseen /\ expunged = {} /\ saved = NoState
    /\ temp = Empty /\ row = Empty
    /\ syncStep = [p \in Syncs |-> "idle"] /\ at = [p \in Syncs |-> 1]
    /\ last = [p \in Syncs |-> Unseen] /\ batch = [p \in Syncs |-> {}]
    /\ stored = {} /\ shifted = {} /\ syncsOverlapped = FALSE

-----------------------------------------------------------------------------
Move(p, step) == syncStep' = [syncStep EXCEPT ![p] = step]

\* The local state of a sync that ends goes out of scope.
Quit(p) ==
    /\ Move(p, "idle")
    /\ at' = [at EXCEPT ![p] = 1]
    /\ last' = [last EXCEPT ![p] = Unseen]
    /\ batch' = [batch EXCEPT ![p] = {}]

\* Folders are fetched in their order, then the state is saved.
Folder(p)        == Folders[at[p]]
StepOf(position) == IF position > Len(Folders) THEN "save" ELSE "fetch"
NextFolder(p)    == at' = [at EXCEPT ![p] = @ + 1] /\ Move(p, StepOf(at[p] + 1))

\* A message arrives.
Arrive(f) ==
    /\ mailbox[f] < MaxUid
    /\ mailbox' = [mailbox EXCEPT ![f] = @ + 1]
    /\ UNCHANGED <<expunged, saved, temp, row, syncLocal, stored, shifted, syncsOverlapped>>

\* load_sync_state: a file that does not parse is an error, an absent one is not
StartSync(p) ==
    /\ syncStep[p] = "idle" /\ saved # TornState
    /\ Move(p, StepOf(1))
    /\ last' = [last EXCEPT ![p] = IF saved = NoState THEN Unseen ELSE saved]
    /\ syncsOverlapped' = (syncsOverlapped \/ \E q \in Syncs \ {p} : syncStep[q] # "idle")
    /\ UNCHANGED <<mailbox, expunged, shifted, saved, temp, row, at, batch, stored>>

\* The messages of a folder above a UID, up to another, that can be parsed.
Parsed(f, from, upto) == ({f} \X (from + 1..upto)) \ Malformed

\* The positions of a batch, and of a message in it.
Slots(mails)       == 1..Cardinality(mails)
Position(mails, m) == Cardinality({n \in mails : n[2] <= m[2]})

\* The highest UID of a batch.
Newest(mails) == CHOOSE u \in {m[2] : m \in mails} : \A m \in mails : m[2] <= u

\* The UID from which a sync that begins now fetches.
Base(f) == IF saved \in {NoState, TornState} THEN 0 ELSE saved[f]

\* The messages that have a position: in the index, or in a batch on its way there.
Placed == (UNION {row[i] : i \in Positions}) \cup (UNION {batch[p] : p \in Syncs})

\* A client deletes a message from the server.
Expunge(f, u) ==
    /\ u <= mailbox[f] /\ <<f, u>> \notin expunged /\ Cardinality(expunged) < MaxGone
    /\ expunged' = expunged \cup {<<f, u>>}
    /\ shifted' = shifted \cup
           (IF Base(f) < u /\ \E m \in Placed : m[1] = f /\ u < m[2] THEN {f} ELSE {})
    /\ UNCHANGED <<mailbox, saved, temp, row, syncLocal, stored, syncsOverlapped>>

\* fetch_new_emails from a UID on, of what the server has now: the state advances over
\* the messages it parsed
FetchFrom(p, from) ==
    LET f   == Folder(p)
        new == Parsed(f, from, mailbox[f]) \ expunged
    IN  /\ syncStep[p] = "fetch"
        /\ batch' = [batch EXCEPT ![p] = new]
        /\ IF new = {}
           THEN NextFolder(p) /\ UNCHANGED last
           ELSE /\ last' = [last EXCEPT ![p] = [@ EXCEPT ![f] = Newest(new)]]
                /\ Move(p, "write") /\ UNCHANGED at
        /\ UNCHANGED <<mailbox, expunged, shifted, saved, temp, row, stored, syncsOverlapped>>

\* Mutant of Fetch: the boundary UID is fetched again (`uid < last_uid`).
FetchBoundary(p) ==
    FetchFrom(p, IF last[p][Folder(p)] = 0 THEN 0 ELSE last[p][Folder(p)] - 1)
Fetch(p) == FetchFrom(p, last[p][Folder(p)])

\* One temp file per message, named by its position in the batch.
WriteTemp(p) ==
    /\ syncStep[p] = "write"
    /\ temp' = [i \in Positions |->
                    IF i \in Slots(batch[p])
                    THEN {m \in batch[p] : Position(batch[p], m) = i}
                    ELSE temp[i]]
    /\ Move(p, "purge")
    /\ UNCHANGED <<mailbox, expunged, shifted, saved, row, at, last, batch, stored,
                   syncsOverlapped>>

\* analyze_files: delete_file_data of each name
Purge(p) ==
    /\ syncStep[p] = "purge"
    /\ row' = [i \in Positions |-> IF i \in Slots(batch[p]) THEN {} ELSE row[i]]
    /\ Move(p, "store")
    /\ UNCHANGED <<mailbox, expunged, shifted, saved, temp, at, last, batch, stored,
                   syncsOverlapped>>

\* analyze_files: read each temp file, a missing one is skipped with a warning;
\* then the registry entry
Store(p) ==
    /\ syncStep[p] = "store"
    /\ row' = [i \in Positions |->
                   IF i \in Slots(batch[p]) THEN row[i] \cup temp[i] ELSE row[i]]
    /\ stored' = stored \cup UNION {temp[i] : i \in Slots(batch[p])}
    /\ Move(p, "clean")
    /\ UNCHANGED <<mailbox, expunged, shifted, saved, temp, at, last, batch, syncsOverlapped>>

\* remove_dir_all of the shared temp directory
Clean(p) ==
    /\ syncStep[p] = "clean"
    /\ temp' = Empty
    /\ NextFolder(p)
    /\ batch' = [batch EXCEPT ![p] = {}]
    /\ UNCHANGED <<mailbox, expunged, shifted, saved, row, last, stored, syncsOverlapped>>

\* save_sync_state: fs::write truncates the file and writes it anew
TruncateState(p) ==
    /\ syncStep[p] = "save"
    /\ saved' = TornState
    /\ Move(p, "cut")
    /\ UNCHANGED <<mailbox, expunged, shifted, temp, row, at, last, batch, stored,
                   syncsOverlapped>>

SaveState(p) ==
    /\ syncStep[p] = "cut"
    /\ saved' = last[p]
    /\ Quit(p)
    /\ UNCHANGED <<mailbox, expunged, shifted, temp, row, stored, syncsOverlapped>>

\* Mutant of StopSync: an error still saves the state.
StopSaving(p) ==
    /\ syncStep[p] # "idle"
    /\ saved' = last[p]
    /\ Quit(p)
    /\ UNCHANGED <<mailbox, expunged, shifted, temp, row, stored, syncsOverlapped>>

\* The process dies, or the server, the store or the disk fails and `?` ends it.
StopSync(p) ==
    /\ syncStep[p] # "idle"
    /\ Quit(p)
    /\ UNCHANGED <<mailbox, expunged, shifted, saved, temp, row, stored, syncsOverlapped>>

MailNext ==
    \/ \E f \in Names : Arrive(f)
    \/ \E f \in Names, u \in 1..MaxUid : Expunge(f, u)
    \/ \E p \in Syncs :
          \/ StartSync(p) \/ Fetch(p) \/ WriteTemp(p) \/ Purge(p) \/ Store(p)
          \/ Clean(p) \/ TruncateState(p) \/ SaveState(p) \/ StopSync(p)

MailSpec == MailInit /\ [][MailNext]_mailVars

-----------------------------------------------------------------------------
Seen == IF saved \in {NoState, TornState} THEN {}
        ELSE {m \in Mail : m[2] <= saved[m[1]]}

\* The saved position passes over a message that is on the server only after its rows
\* were stored, wherever a sync fails or dies (the state is saved last, main.rs:4871).
SavedAfterStored == ~syncsOverlapped => Seen \ Malformed \subseteq stored \cup expunged

\* A message that is fetched again after a failed sync replaces its own rows
\* (delete_file_data under the same name): it is stored twice only in a folder where a
\* message before it was expunged between the two, so that it counts at another position
\* (main.rs:4819).
RetryNeverDuplicates ==
    ~syncsOverlapped =>
        \A i, j \in Positions : i # j => \A m \in row[i] \cap row[j] : m[1] \in shifted

\* "incremental mailbox synchronisation" (imap.rs:1): what the saved position passes over
\* and the server still has is in the index.
SyncedMailIsIndexed ==
    (Seen \ Malformed) \ expunged \subseteq UNION {row[i] : i \in Positions}
=============================================================================
