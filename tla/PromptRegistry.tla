--------------------------- MODULE PromptRegistry ---------------------------
(* prompts/registry.py and prompts/publisher.py: get() renders a version of *)
(* a prompt from files parsed once per process, and publishes the text the  *)
(* file has now under the version and the hash of that text.  Processes     *)
(* have a source tree each and share the directory of published prompts,    *)
(* which nothing locks between the look and the write.                      *)
(* One caller_id.  A text stands for a whole file, and for its hash, whose  *)
(* order the numbers give.                                                  *)
EXTENDS FiniteSetsExt, Integers

CONSTANTS
    PromptProcesses,
    Versions,       \* in the order of SemVer
    PromptTexts,    \* numbers
    StableTexts,    \* those whose front matter says stable
    Publishing,     \* the processes that can write the published root
    MaxChanges      \* bound: changes of a source tree

NoText == 0
\* The versions are finitely many: some of them have a highest.
ASSUME PromptAssumption ==
    /\ Versions \subseteq Nat /\ PromptTexts \subseteq Nat \ {NoText}
    /\ \A some \in SUBSET Versions : some # {} => \E v \in some : \A w \in some : v >= w

Trees == [Versions -> PromptTexts \union {NoText}]
NotLoaded == [v \in Versions |-> -1]
NoCall == [version |-> 0, rendered |-> NoText, source |-> NoText]

VARIABLES
    source,     \* source[p]: its registry directory
    parsed,     \* parsed[p]: _list_versions' lru_cache
    pending,    \* pending[p]: a get() between the look for the version and the write
    published,  \* files <version>__<sha>.md
    changes,    \* changes of source trees so far
    gave,       \* history: what get() returned to publishing processes
    raced,      \* history: versions two processes were about to write at once
    changed     \* history: versions whose file changed in a process that had parsed it

promptVars == <<source, parsed, pending, published, changes, gave, raced, changed>>

PromptInit ==
    /\ source \in [PromptProcesses -> Trees]
    /\ parsed = [p \in PromptProcesses |-> NotLoaded]
    /\ pending = [p \in PromptProcesses |-> NoCall]
    /\ published = {} /\ gave = {}
    /\ changes = 0 /\ raced = {} /\ changed = {}

\* _list_versions
ParsedTree(p) == IF parsed[p] = NotLoaded THEN source[p] ELSE parsed[p]
\* _pick_stable: the highest version whose status is stable.
PickStable(tree) ==
    LET stable == {v \in Versions : tree[v] \in StableTexts}
    IN  IF stable = {} THEN {} ELSE {Max(stable)}
\* _pick_explicit
PickExplicit(tree, v) == {v} \intersect {w \in Versions : tree[w] # NoText}

\* persist on a version that is there: the first file by name decides.
\* Faulty variant: a version that is there is taken for published.
AgreesWith_Any(v, text) == TRUE
AgreesWith(v, text) == Min({f.text : f \in {g \in published : g.version = v}}) = text

\* get() up to the first write.
GetPrompt(p) ==
    /\ pending[p] = NoCall
    /\ parsed' = [parsed EXCEPT ![p] = ParsedTree(p)]
    /\ \E v \in PickStable(ParsedTree(p)) \union UNION {PickExplicit(ParsedTree(p), w) : w \in Versions} :
          LET call == [version |-> v, rendered |-> ParsedTree(p)[v], source |-> source[p][v]]
              there == \E f \in published : f.version = v
          IN  /\ call.source # NoText
              /\ IF p \in Publishing /\ ~there
                 THEN /\ pending' = [pending EXCEPT ![p] = call]
                      /\ raced' = raced \union
                             {v : q \in {q \in PromptProcesses : pending[q].version = v}}
                      /\ UNCHANGED gave
                 ELSE /\ p \in Publishing => AgreesWith(v, call.source)
                      /\ gave' = IF p \in Publishing
                                 THEN gave \union {[version |-> v, text |-> call.rendered]}
                                 ELSE gave
                      /\ UNCHANGED <<pending, raced>>
    /\ UNCHANGED <<source, published, changes, changed>>

\* No stable version or none of that name, a file that has gone since it was parsed, or a
\* text that differs from the published one: get() raises, with the tree parsed.
GetPromptRaises(p) ==
    /\ pending[p] = NoCall
    /\ \/ PickStable(ParsedTree(p)) = {}
       \/ \E v \in Versions : \/ ParsedTree(p)[v] = NoText
                             \/ source[p][v] = NoText
                             \/ /\ p \in Publishing /\ \E f \in published : f.version = v
                                /\ ~AgreesWith(v, source[p][v])
    /\ parsed' = [parsed EXCEPT ![p] = ParsedTree(p)]
    /\ UNCHANGED <<source, pending, published, changes, gave, raced, changed>>

\* write_text, and get() returns.
PublishPrompt(p) ==
    /\ pending[p] # NoCall
    /\ published' = published \union {[version |-> pending[p].version, text |-> pending[p].source]}
    /\ gave' = gave \union {[version |-> pending[p].version, text |-> pending[p].rendered]}
    /\ pending' = [pending EXCEPT ![p] = NoCall]
    /\ UNCHANGED <<source, parsed, changes, raced, changed>>

\* The environment: a file of a tree is edited, added or removed under the process, or the
\* process restarts on the tree as it is.
ChangeSource(p) ==
    /\ changes < MaxChanges
    /\ changes' = changes + 1
    /\ \E v \in Versions, t \in PromptTexts \union {NoText} :
          /\ source[p][v] # t
          /\ source' = [source EXCEPT ![p][v] = t]
          /\ changed' = IF parsed[p] = NotLoaded THEN changed ELSE changed \union {v}
    /\ UNCHANGED <<parsed, pending, published, gave, raced>>

RestartPrompts(p) ==
    /\ parsed[p] # NotLoaded
    /\ parsed' = [parsed EXCEPT ![p] = NotLoaded]
    /\ pending' = [pending EXCEPT ![p] = NoCall]
    /\ UNCHANGED <<source, published, changes, gave, raced, changed>>

PromptNext == \E p \in PromptProcesses :
    \/ GetPrompt(p) \/ GetPromptRaises(p) \/ PublishPrompt(p)
    \/ ChangeSource(p) \/ RestartPrompts(p)

PromptSpec == PromptInit /\ [][PromptNext]_promptVars

-----------------------------------------------------------------------------
\* A version is one text (publisher.py:44-78): whatever trees the processes run on, two
\* calls that returned the same version returned the same text, unless two processes were
\* about to publish that version at once, or its file changed in a process that had parsed
\* it, which renders the old text and publishes the new one.
VersionIsOneText ==
    \A g, h \in gave : g.version = h.version =>
        g.text = h.text \/ g.version \in raced \union changed
=============================================================================
