---------------------------- MODULE LedgerCallers ----------------------------
(***************************************************************************)
(* The callers of the ledgers of HashChain, with what they do before and    *)
(* after an append:                                                         *)
(*   lake.advice        the advice merger, which limits the rate of an      *)
(*                      agent, quarantines what is malformed and appends;   *)
(*   lake.config_audit  the admin API, which replaces a file or a secret    *)
(*                      and then appends what it has done;                  *)
(*   lake.futu_audit    the read-only Futu client, which appends a call,    *)
(*                      makes it and marks its row.                         *)
(* A writer of HashChain is one advice, one edit or one call.               *)
(***************************************************************************)
EXTENDS HashChain, Sequences, FiniteSets

CONSTANTS
    Rotations,   \* the edits that rotate a secret; the others are of one file
    Original,    \* what the file holds before any edit
    Limit,       \* merges of an agent in a window; 10 in the code
    Window,      \* 60 s in the code
    MaxNow       \* bound: the merger's clock

ASSUME CallersAssumption ==
    /\ Rotations \subseteq Writers
    /\ Original \notin Writers
    /\ Limit \in Nat \ {0} /\ Window \in Nat /\ MaxNow \in Nat

VARIABLES
    file,       \* the edit whose text the file holds
    before,     \* the text each edit has found and replaced
    replaced,   \* the edits that have replaced their file
    crashed,    \* history: appends that died
    now,        \* the merger's clock
    bucket,     \* the times of the merges the limiter has let through
    merged,     \* history: the times at which the merger called append
    answer,     \* what OpenD did with each call
    status      \* the status column of each call's row

adminVars == <<file, before, replaced>>
mergerVars == <<now, bucket, merged>>
futuVars == <<answer, status>>
callerVars == <<adminVars, crashed, mergerVars, futuVars>>

CallersInit ==
    /\ Init
    /\ file = Original
    /\ before = [w \in Writers |-> Original]
    /\ replaced = {} /\ crashed = {}
    /\ now = 0 /\ bucket = <<>> /\ merged = <<>>
    /\ answer = [w \in Writers |-> "none"]
    /\ status = [w \in Writers |-> "none"]

-----------------------------------------------------------------------------
(* The admin API.                                                          *)

\* Faulty variant: what is replaced is taken from the audit log.
ReplaceFile_FromTrail(w) ==
    /\ before' = [before EXCEPT ![w] = IF rows = {} THEN Original ELSE ChainHead]
    /\ file' = w
    /\ replaced' = replaced \cup {w}

\* The file is read and replaced with nothing awaited between.
ReplaceFile(w) ==
    /\ before' = [before EXCEPT ![w] = file]
    /\ file' = w
    /\ replaced' = replaced \cup {w}

\* The file is replaced and then the append called.  An edit that is refused, of a path
\* that is not editable or not YAML, changes nothing.
ApplyFile(w) ==
    /\ table = "config_audit" /\ w \notin Rotations
    /\ Begin(w)
    /\ ReplaceFile(w)
    /\ UNCHANGED <<crashed, mergerVars, futuVars>>

\* sops has written the secret.
RotateSecret(w) ==
    /\ table = "config_audit" /\ w \in Rotations
    /\ Begin(w)
    /\ replaced' = replaced \cup {w}
    /\ UNCHANGED <<file, before, crashed, mergerVars, futuVars>>

\* The after-hash of a rotation is the word "rotated".
IsHex(w) == w \notin Rotations

\* bytes.fromhex raises while the insert is being prepared.
RefuseHash(w) ==
    /\ table = "config_audit" /\ pc[w] = "read" /\ ~IsHex(w)
    /\ Goto(w, "failed")
    /\ UNCHANGED <<table, clock, rows, stamp, prev, raced, callerVars>>

-----------------------------------------------------------------------------
(* The advice merger.                                                      *)

InWindow == SelectSeq(bucket, LAMBDA t : t >= now - Window)

\* The window with this merge.
Charged == InWindow \o <<now>>

\* allow(): a merge takes its place in the window before it is validated.
Allowed == Len(InWindow) < Limit

\* The advice is turned away with an alert.
LimitRate ==
    /\ table = "advice" /\ ~Allowed
    /\ bucket' = InWindow
    /\ UNCHANGED <<vars, adminVars, crashed, now, merged, futuVars>>

\* The advice is no AdviceV1, or its ticker is none: it never reaches the ledger.
Quarantine ==
    /\ table = "advice" /\ Allowed
    /\ bucket' = Charged
    /\ UNCHANGED <<vars, adminVars, crashed, now, merged, futuVars>>

\* append is called with the advice, or again with one that collided when its sender
\* sends it again.
Merge(w) ==
    /\ table = "advice" /\ Allowed
    /\ Begin(w) \/ Retry(w)
    /\ bucket' = Charged
    /\ merged' = merged \o <<now>>
    /\ UNCHANGED <<adminVars, crashed, now, futuVars>>

MinutePasses ==
    /\ table = "advice" /\ now < MaxNow
    /\ now' = now + 1
    /\ UNCHANGED <<vars, adminVars, crashed, bucket, merged, futuVars>>

-----------------------------------------------------------------------------
(* The read-only Futu client.                                              *)

\* A method of the allow-list is called: its row is appended before anything else.
Request(w) ==
    /\ table = "futu_audit"
    /\ Begin(w)
    /\ UNCHANGED callerVars

\* Faulty variant: an append that fails does not keep the call from being made.
MayCall_Always(w) == pc[w] \in {"done", "collided"}

\* append has returned.
MayCall(w) == pc[w] = "done"

\* OpenD answers, or the call raises.
CallOpenD(w) ==
    /\ table = "futu_audit" /\ MayCall(w) /\ answer[w] = "none"
    /\ \E a \in {"ok", "error"} : answer' = [answer EXCEPT ![w] = a]
    /\ UNCHANGED <<vars, adminVars, crashed, mergerVars, status>>

\* mark_ok or mark_error, unless the process or the connection dies before it.
Mark(w) ==
    /\ table = "futu_audit" /\ answer[w] # "none" /\ status[w] = "pending"
    /\ status' = [status EXCEPT ![w] = answer[w]]
    /\ UNCHANGED <<vars, adminVars, crashed, mergerVars, answer>>

-----------------------------------------------------------------------------
(* The appends themselves are those of HashChain.                          *)

\* The row of a Futu call is pending once it is there.
RowAppears ==
    status' = [w \in Writers |->
        IF table = "futu_audit" /\ \E r \in rows' \ rows : r.id = w THEN "pending" ELSE status[w]]

AppendStep(w) ==
    /\ \/ ReadHead(w) \/ LockHead(w) \/ Collide(w)
       \/ IsHex(w) /\ Commit(w)
    /\ RowAppears
    /\ UNCHANGED <<adminVars, crashed, mergerVars, answer>>

AppendDies(w) ==
    /\ Fail(w)
    /\ IsHex(w) \/ rows' = rows
    /\ crashed' = crashed \cup {w}
    /\ RowAppears
    /\ UNCHANGED <<adminVars, mergerVars, answer>>

CallersNext ==
    \/ LimitRate \/ Quarantine \/ MinutePasses
    \/ \E w \in Writers :
        \/ ApplyFile(w) \/ RotateSecret(w) \/ RefuseHash(w)
        \/ Merge(w)
        \/ Request(w) \/ CallOpenD(w) \/ Mark(w)
        \/ AppendStep(w) \/ AppendDies(w)

callersVars == <<vars, callerVars>>

CallersSpec == CallersInit /\ [][CallersNext]_callersVars

-----------------------------------------------------------------------------
(* Properties.                                                             *)

HasRow(w) == \E r \in rows : r.id = w

\* However concurrent edits interleave with their appends, and in whatever order they
\* are audited, no two of them claim to have replaced the same text: the before- and
\* after-hashes of the rows tell the order in which the file was really edited.
EditsFormOneLine ==
    \A r, s \in rows :
        table = "config_audit" /\ r # s => before[r.id] # before[s.id]

\* An edit that stands without a row, and whose append is over, is a rotation of a
\* secret, or its append died.
UnauditedHasCause ==
    \A w \in replaced : pc[w] \in {"done", "failed"} /\ ~HasRow(w) => w \in crashed \cup Rotations

\* The trail tells the edits: in one line, and with none missing but for a cause.
TrailTellsEdits == EditsFormOneLine /\ UnauditedHasCause

\* OpenD is never asked anything that is not in the audit log, whatever becomes of the
\* append, and a row says ok or error only as the call ended.
AuditTellsCalls ==
    \A w \in Writers :
        /\ answer[w] # "none" => HasRow(w)
        /\ status[w] \in {"ok", "error"} => status[w] = answer[w]
=============================================================================
