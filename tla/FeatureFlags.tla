---------------------------- MODULE FeatureFlags ----------------------------
(* featureflags/core.py: a YAML file read through a cache that each process *)
(* keeps by the file's modification time.  A read sees that the file is     *)
(* there, then takes the lock of its process and stats it, then opens it;   *)
(* an editor, the admin API or a restored backup may replace or remove the  *)
(* file between any two of these, and nothing makes a new file a newer one. *)
(* One registered flag (flag() says False of any other name and reads       *)
(* nothing); what a file says of it is "on", "off" or "unset".              *)
EXTENDS Integers

CONSTANTS
    FlagReaders,    \* threads that read the flag
    FlagHome,       \* the process of each
    FlagDefault,    \* the default in its FlagSpec
    MTimes,         \* modification times a file can have
    MaxEdits        \* bound: changes of the file

ASSUME FlagsAssumption == MTimes \subseteq Nat /\ FlagDefault \in BOOLEAN

\* "list" is YAML that is not a mapping, "broken" is not YAML.
Texts == {"on", "off", "unset", "list", "broken"}
NoMTime == -1

FlagProcesses == {FlagHome[r] : r \in FlagReaders}

VARIABLES
    flagsFile,  \* [text, mtime], mtime = NoMTime when there is no file
    flagCache,  \* flagCache[p]: _CACHE, [mtime, value]
    reading,    \* reading[r].at: "idle"; "seen", the file was there; "open", the lock is held
                \* and the file had the time reading[r].mtime
    edits,      \* changes of the file so far
    told,       \* history: the last answer of flag() to each reader
    held,       \* history: what the file said while the last read was under way, with
                \* "gone" if it went away in that time
    sameTime    \* history: a changed file had a time that a process had already seen

flagVars == <<flagsFile, flagCache, reading, edits, told, held, sameTime>>

\* What a text says of the flag: a root that is not a mapping says nothing.
Says(text) == IF text = "list" THEN "unset" ELSE text

\* _resolve and flag: the file's value, else the default.
Resolve(value) == IF value = "unset" THEN FlagDefault ELSE value = "on"

NotReading == [at |-> "idle", mtime |-> NoMTime]
NoCache == [mtime |-> NoMTime, value |-> "unset"]
NoFile == [text |-> "unset", mtime |-> NoMTime]

FlagsInit ==
    /\ flagsFile \in [text : Texts, mtime : {0}] \union {NoFile}
    /\ flagCache = [p \in FlagProcesses |-> NoCache]
    /\ reading = [r \in FlagReaders |-> NotReading]
    /\ edits = 0
    /\ told = [r \in FlagReaders |-> FALSE]
    /\ held = [r \in FlagReaders |-> {}]
    /\ sameTime = FALSE

\* An answer, and the end of the read.
AnswerFlag(r, value) ==
    /\ told' = [told EXCEPT ![r] = Resolve(value)]
    /\ reading' = [reading EXCEPT ![r] = NotReading]

\* exists() says no: the cache is neither read nor written.
ReadMissing(r) ==
    /\ reading[r].at = "idle" /\ flagsFile.mtime = NoMTime
    /\ AnswerFlag(r, "unset")
    /\ held' = [held EXCEPT ![r] = {"unset"}]
    /\ UNCHANGED <<flagsFile, flagCache, edits, sameTime>>

\* exists() says yes, and the reader waits for the lock.
SeeFile(r) ==
    /\ reading[r].at = "idle" /\ flagsFile.mtime # NoMTime
    /\ reading' = [reading EXCEPT ![r].at = "seen"]
    /\ held' = [held EXCEPT ![r] = {flagsFile.text}]
    /\ UNCHANGED <<flagsFile, flagCache, edits, told, sameTime>>

LockIsFree(p) == \A r \in FlagReaders : FlagHome[r] = p => reading[r].at # "open"

\* The stat under the lock: at a known time, and for a file that is no longer there, the
\* cache answers.
\* Faulty variant: the file is read again only when it is newer than the cached one.
StatFile_Newer(r) ==
    /\ reading[r].at = "seen" /\ LockIsFree(FlagHome[r])
    /\ IF flagsFile.mtime <= flagCache[FlagHome[r]].mtime
       THEN AnswerFlag(r, flagCache[FlagHome[r]].value)
       ELSE /\ reading' = [reading EXCEPT ![r] = [at |-> "open", mtime |-> flagsFile.mtime]]
            /\ UNCHANGED told
    /\ UNCHANGED <<flagsFile, flagCache, edits, held, sameTime>>
StatFile(r) ==
    /\ reading[r].at = "seen" /\ LockIsFree(FlagHome[r])
    /\ IF flagsFile.mtime \in {NoMTime, flagCache[FlagHome[r]].mtime}
       THEN AnswerFlag(r, flagCache[FlagHome[r]].value)
       ELSE /\ reading' = [reading EXCEPT ![r] = [at |-> "open", mtime |-> flagsFile.mtime]]
            /\ UNCHANGED told
    /\ UNCHANGED <<flagsFile, flagCache, edits, held, sameTime>>

\* read_text after the stat: the text may be a later one than the time; a broken text
\* leaves the cache as it is, and a file that has gone raises out of flag().
ReadText(r) ==
    /\ reading[r].at = "open"
    /\ IF flagsFile.mtime = NoMTime
       THEN /\ reading' = [reading EXCEPT ![r] = NotReading]
            /\ held' = [held EXCEPT ![r] = {}]  \* no answer
            /\ UNCHANGED <<flagCache, told>>
       ELSE IF flagsFile.text = "broken"
       THEN AnswerFlag(r, flagCache[FlagHome[r]].value) /\ UNCHANGED <<flagCache, held>>
       ELSE /\ AnswerFlag(r, Says(flagsFile.text)) /\ UNCHANGED held
            /\ flagCache' = [flagCache EXCEPT ![FlagHome[r]] =
                   [mtime |-> reading[r].mtime, value |-> Says(flagsFile.text)]]
    /\ UNCHANGED <<flagsFile, edits, sameTime>>

\* The environment: an edit, a restored file of any age, or the file goes.
EditFlags ==
    /\ edits < MaxEdits
    /\ edits' = edits + 1
    /\ \E f \in [text : Texts, mtime : MTimes] \union {NoFile} :
          /\ f # flagsFile
          /\ flagsFile' = f
          /\ held' = [r \in FlagReaders |->
                IF reading[r].at = "idle" THEN held[r]
                ELSE held[r] \union {IF f = NoFile THEN "gone" ELSE f.text}]
          /\ sameTime' = (sameTime \/ (f # NoFile /\
                \/ \E p \in FlagProcesses : f.mtime = flagCache[p].mtime
                \/ \E r \in FlagReaders : f.mtime = reading[r].mtime))
    /\ UNCHANGED <<flagCache, reading, told>>

\* A restart loses the cache, and with it the last good values under a broken file.
RestartProcess(p) ==
    /\ flagCache' = [flagCache EXCEPT ![p] = NoCache]
    /\ reading' = [r \in FlagReaders |-> IF FlagHome[r] = p THEN NotReading ELSE reading[r]]
    /\ told' = [r \in FlagReaders |-> IF FlagHome[r] = p THEN FALSE ELSE told[r]]
    /\ held' = [r \in FlagReaders |-> IF FlagHome[r] = p THEN {} ELSE held[r]]
    /\ UNCHANGED <<flagsFile, edits, sameTime>>

FlagsNext ==
    \/ \E r \in FlagReaders : ReadMissing(r) \/ SeeFile(r) \/ StatFile(r) \/ ReadText(r)
    \/ \E p \in FlagProcesses : RestartProcess(p)
    \/ EditFlags

FlagsSpec == FlagsInit /\ [][FlagsNext]_flagVars

-----------------------------------------------------------------------------
\* An answer is what some text of the file said while it was being asked for, unless that
\* text was broken, the file went away after exists() had seen it, or a change of the file
\* left a time that a process had already seen (core.py:58-76): the cache is never wrong
\* for any other reason, in whatever order the files come and however old they are, and
\* whichever thread of the process filled it.
FlagFollowsFile ==
    \A r \in FlagReaders :
        held[r] = {} \/ reading[r].at # "idle" \/ sameTime \/ held[r] \cap {"broken", "gone"} # {}
            \/ \E t \in held[r] : told[r] = Resolve(Says(t))
=============================================================================
