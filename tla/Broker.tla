------------------------------- MODULE Broker -------------------------------
(***************************************************************************)
(* The MCP tool broker (mcp/broker.py) and its policies                     *)
(* (mcp/tool_policies.py).  invoke() gives up the event loop only while an  *)
(* async tool runs; meanwhile other calls are made and tools are registered *)
(* anew under the same name.                                               *)
(***************************************************************************)
EXTENDS Integers, FiniteSets

CONSTANTS
    Calls,       \* tool calls, one invoke() each
    Names,       \* tool names
    AsyncTools,  \* implementations that are coroutine functions
    SyncTools,   \* implementations that are plain functions
    Levels,      \* risk levels given to register_tool(); any may be unknown
    Risks        \* risk scores inherited from the Guardian's report

ASSUME RisksAssumption == Risks \subseteq 0..100
ASSUME ToolsAssumption == AsyncTools \cap SyncTools = {}
ASSUME CallsAssumption == IsFiniteSet(Calls)

VARIABLES
    registry,         \* the registered entries; a name has one at most
    invocationCount,  \* MCPBroker._invocation_count
    blockCount,       \* MCPBroker._block_count
    state,            \* [Calls -> States]: where the invoke() of a call is
    risk,             \* [Calls -> Risks \cup {0}]: the score the call was made with
    toolResult,       \* [Calls -> Results]: MCPToolResult
    ran,              \* history: [Calls -> SUBSET Tools], the implementations started
    declared,         \* history: what register_tool() was last given for each name
    due               \* history: [Calls -> SUBSET Entry], what was declared for the
                      \* tool of a call when the call was made

brokerVars ==
    <<registry, invocationCount, blockCount, state, risk, toolResult, ran, declared, due>>

-----------------------------------------------------------------------------
Tools   == AsyncTools \cup SyncTools
States  == {"new", "running", "done", "cancelled"}
Results == {"none", "refused", "ok", "error"}
Entry   == [name : Names, tool : Tools, level : Levels]

\* get_policy(): thresholds of a level; an unknown level is taken as medium.
Policy(level) ==
    CASE level = "low"      -> [block |-> 80, quarantine |-> 60]
      [] level = "high"     -> [block |-> 40, quarantine |-> 20]
      [] level = "critical" -> [block |-> 20, quarantine |-> 10]
      [] OTHER              -> [block |-> 60, quarantine |-> 40]

\* ToolPolicy.evaluate()
Evaluate(level, score) ==
    IF score >= Policy(level).block THEN "block"
    ELSE IF score >= Policy(level).quarantine THEN "quarantine"
    ELSE "allow"

Registered(n) == {e \in registry : e.name = n}

Declare(e) == declared' = {d \in declared : d.name # e.name} \cup {e}

-----------------------------------------------------------------------------
BrokerInit ==
    /\ registry = {}
    /\ invocationCount = 0
    /\ blockCount = 0
    /\ state = [c \in Calls |-> "new"]
    /\ risk = [c \in Calls |-> 0]
    /\ toolResult = [c \in Calls |-> "none"]
    /\ ran = [c \in Calls |-> {}]
    /\ declared = {}
    /\ due = [c \in Calls |-> {}]

RegisterTool_KeepsPolicy(e) ==
    LET old == Registered(e.name)
        new == IF old = {} THEN e
               ELSE [e EXCEPT !.level = (CHOOSE o \in old : TRUE).level] IN
    /\ registry' = (registry \ old) \cup {new}
    /\ Declare(e)
    /\ UNCHANGED <<invocationCount, blockCount, state, risk, toolResult, ran, due>>

\* register_tool(): the entry, implementation and policy in one, replaces any other
\* of that name.
RegisterTool(e) ==
    /\ registry' = (registry \ Registered(e.name)) \cup {e}
    /\ Declare(e)
    /\ UNCHANGED <<invocationCount, blockCount, state, risk, toolResult, ran, due>>

\* The beginning of invoke(), which counts every call.
Begin(c, n, score) ==
    /\ state[c] = "new"
    /\ invocationCount' = invocationCount + 1
    /\ risk' = [risk EXCEPT ![c] = score]
    /\ due' = [due EXCEPT ![c] = {d \in declared : d.name = n}]

Permits(n, score) ==
    \E e \in Registered(n) : Evaluate(e.level, score) = "allow"

\* The tool is not registered, or its policy blocks or quarantines the call.
Refuse(c, n, score) ==
    /\ Begin(c, n, score)
    /\ ~Permits(n, score)
    /\ blockCount' = blockCount + 1
    /\ state' = [state EXCEPT ![c] = "done"]
    /\ toolResult' = [toolResult EXCEPT ![c] = "refused"]
    /\ UNCHANGED <<registry, ran, declared>>

\* A plain function runs at once, and returns or raises.
RunSync(c, n, score) ==
    /\ Begin(c, n, score)
    /\ \E e \in Registered(n) :
          /\ Evaluate(e.level, score) = "allow"
          /\ e.tool \in SyncTools
          /\ ran' = [ran EXCEPT ![c] = {e.tool}]
    /\ state' = [state EXCEPT ![c] = "done"]
    /\ toolResult' \in {[toolResult EXCEPT ![c] = r] : r \in {"ok", "error"}}
    /\ UNCHANGED <<registry, blockCount, declared>>

\* A coroutine function is started and awaited.
RunAsync(c, n, score) ==
    /\ Begin(c, n, score)
    /\ \E e \in Registered(n) :
          /\ Evaluate(e.level, score) = "allow"
          /\ e.tool \in AsyncTools
          /\ ran' = [ran EXCEPT ![c] = {e.tool}]
    /\ state' = [state EXCEPT ![c] = "running"]
    /\ UNCHANGED <<registry, blockCount, toolResult, declared>>

Finish_ErrorBlocks(c) ==
    /\ state[c] = "running"
    /\ state' = [state EXCEPT ![c] = "done"]
    /\ \/ toolResult' = [toolResult EXCEPT ![c] = "ok"] /\ UNCHANGED blockCount
       \/ toolResult' = [toolResult EXCEPT ![c] = "error"] /\ blockCount' = blockCount + 1
    /\ UNCHANGED <<registry, invocationCount, risk, ran, declared, due>>

\* The coroutine returns or raises; a call whose tool raised stays allowed.
Finish(c) ==
    /\ state[c] = "running"
    /\ state' = [state EXCEPT ![c] = "done"]
    /\ toolResult' \in {[toolResult EXCEPT ![c] = r] : r \in {"ok", "error"}}
    /\ UNCHANGED <<registry, invocationCount, blockCount, risk, ran, declared, due>>

\* The caller is cancelled: CancelledError is no Exception and passes through.
Cancel(c) ==
    /\ state[c] = "running"
    /\ state' = [state EXCEPT ![c] = "cancelled"]
    /\ UNCHANGED <<registry, invocationCount, blockCount, risk, toolResult, ran, declared, due>>

BrokerNext ==
    \/ \E e \in Entry : RegisterTool(e)
    \/ \E c \in Calls, n \in Names, score \in Risks :
          Refuse(c, n, score) \/ RunSync(c, n, score) \/ RunAsync(c, n, score)
    \/ \E c \in Calls : Finish(c) \/ Cancel(c)

BrokerSpec == BrokerInit /\ [][BrokerNext]_brokerVars

-----------------------------------------------------------------------------
(* Properties *)

BrokerTypeOK ==
    /\ registry \subseteq Entry /\ declared \subseteq Entry
    /\ invocationCount \in Nat /\ blockCount \in Nat
    /\ state \in [Calls -> States]
    /\ risk \in [Calls -> Risks \cup {0}]
    /\ toolResult \in [Calls -> Results]
    /\ ran \in [Calls -> SUBSET Tools]
    /\ due \in [Calls -> SUBSET Entry]

\* The numbers of server_info() (broker.py:171) account for every call, while tools run,
\* are replaced, raise or are cancelled: what was counted and not blocked has run or is
\* running, and what was blocked never ran.
CountersAgree ==
    /\ invocationCount = Cardinality({c \in Calls : state[c] # "new"})
    /\ blockCount = Cardinality({c \in Calls : toolResult[c] = "refused"})
    /\ invocationCount - blockCount = Cardinality({c \in Calls : ran[c] # {}})

\* "applies the tool's policy" (broker.py:31): an implementation ran for a call only if
\* it was the one last given to register_tool() for that name when the call was made, and
\* the policy given with it lets the call's risk pass; calls still in an implementation
\* that was replaced or given a stricter policy meanwhile included.
RanAsDeclared ==
    \A c \in Calls : \A t \in ran[c] :
        \E e \in due[c] : e.tool = t /\ Evaluate(e.level, risk[c]) = "allow"

-----------------------------------------------------------------------------
(* What the documentation says, and the code does not keep *)

\* "Raises: KeyError: If the tool is not registered" (broker.py:88): a call that named
\* no registered tool is not counted as blocked by a policy.
RefusedByPolicy ==
    \A c \in Calls : toolResult[c] = "refused" => due[c] # {}
=============================================================================
