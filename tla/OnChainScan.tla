---------------------------- MODULE OnChainScan ----------------------------
(***************************************************************************)
(* The on-chain stage of a scan (internal/onchain): AnalyzeAddresses takes *)
(* the addresses of the command line one by one, asks an Etherscan-like    *)
(* service four times about each, and makes findings of the replies.       *)
(* Every request first takes a token, which a goroutine puts back at each  *)
(* tick of a ticker.                                                       *)
(*                                                                         *)
(* A reply is lost or wrong for any reason: http errors, the client's      *)
(* timeout of 30 seconds, status "0", unreadable JSON.  The code of a      *)
(* contract is the set of patterns of NewBytecodeAnalyzer whose hex text   *)
(* occurs in it: AnalyzePatterns looks for the text, at any offset.        *)
(***************************************************************************)
EXTENDS Naturals, Sequences, FiniteSets, SequencesExt, Selections

CONSTANTS
  Address,
  Rps,          \* newRateLimiter's argument; a tick is 1/Rps of a second
  Patterns,     \* the patterns in the order they are tried
  PatternSeverity,
  MinSeverity,  \* --min-severity, 0 (info) to 4 (critical)
  Worlds        \* the states of the chain to start from

Info == 0
High == 3
Critical == 4
Contracts == [code : BOOLEAN, verified : BOOLEAN, text : SUBSET Range(Patterns),
              exploited : BOOLEAN, differs : BOOLEAN]

\* The names of the table in NewBytecodeAnalyzer are none of those that
\* AnalyzeContract gives to findings of its own.
OwnKinds == {"bytecode-mismatch", "unverified-contract", "known-exploited-contract"}
Kinds == Range(Patterns) \cup OwnKinds
ASSUME PatternsAssumption ==
  Patterns \in Seq(Range(Patterns)) /\ Range(Patterns) \cap OwnKinds = {}
ASSUME RpsAssumption == Rps \in Nat \ {0}
ASSUME SeverityAssumption ==
  PatternSeverity \in [Range(Patterns) -> 0..4] /\ MinSeverity \in 0..4
ASSUME WorldsAssumption == Worlds \subseteq [Address -> Contracts]

Calls == <<"eth_getCode", "getsourcecode", "balance", "getcontractcreation">>

VARIABLES
  chain,      \* what the service would tell if it answered
  addresses,  \* the --address list
  tokens,     \* rateLimiter.tokens: how many the channel holds
  recent,     \* requests sent since the last, the last but one, ... Rps-th last tick
  at,         \* the address of this round of the loop
  call,       \* the request FetchContract is at
  io,         \* "idle": before the token; "sent": waiting for the reply
  contract,   \* the DeployedContract as far as it is filled
  answers,    \* pipelineResult.Results
  all,        \* pipelineResult.AllFindings
  stats,      \* pipelineResult.Stats
  lost        \* the requests that failed (for the properties only)

chainVars == <<chain, addresses, tokens, recent, at, call, io, contract,
               answers, all, stats, lost>>

NoContract == [verified |-> FALSE, text |-> {}]
NoStats == [analyzed |-> 0, verified |-> 0, unverified |-> 0, critical |-> 0,
            mismatches |-> 0, exploited |-> 0]

ChainIdle(list, world) ==
  /\ chain = world /\ addresses = list
  /\ tokens = Rps /\ recent = [i \in 1..Rps |-> 0]
  /\ at = 1 /\ call = 1 /\ io = "idle" /\ contract = NoContract
  /\ answers = <<>> /\ all = <<>> /\ stats = NoStats /\ lost = {}

ChainReset(list) ==
  /\ chain' = chain /\ addresses' = list
  /\ tokens' = Rps /\ recent' = [i \in 1..Rps |-> 0]
  /\ at' = 1 /\ call' = 1 /\ io' = "idle" /\ contract' = NoContract
  /\ answers' = <<>> /\ all' = <<>> /\ stats' = NoStats /\ lost' = {}

Here == addresses[at]
OnChainDone == at > Len(addresses)

(***************************************************************************)
(* The token bucket.                                                       *)
(***************************************************************************)

\* A bug to catch: the token goes in beside the full channel.
FilledAlways == IF tokens < 2 * Rps THEN tokens + 1 ELSE tokens
\* A bug to catch: the goroutine is stopped as soon as the bucket is full.
FilledOnce == tokens
\* The ticker's goroutine: a token if the channel has room, else none.
Filled == IF tokens < Rps THEN tokens + 1 ELSE tokens
Tick ==
  /\ tokens' = Filled
  /\ recent' = [i \in 1..Rps |-> IF i = 1 THEN 0 ELSE recent[i - 1]]
  /\ UNCHANGED <<chain, addresses, at, call, io, contract, answers, all, stats, lost>>

\* wait, and the request leaves: blocked while the bucket is empty.
CanSend == tokens > 0
Send ==
  /\ ~OnChainDone /\ io = "idle" /\ call <= Len(Calls) /\ CanSend
  /\ tokens' = tokens - 1
  /\ recent' = [i \in 1..Rps |-> recent[i] + 1]
  /\ io' = "sent"
  /\ UNCHANGED <<chain, addresses, at, call, contract, answers, all, stats, lost>>

(***************************************************************************)
(* FetchContract.                                                          *)
(***************************************************************************)
NextAddress == at' = at + 1 /\ call' = 1 /\ contract' = NoContract

\* The bytecode: without it, or with none, the address is given up with a
\* warning on the standard output.
ReplyCode(ok) ==
  /\ Calls[call] = "eth_getCode"
  /\ IF ok /\ chain[Here].code
       THEN call' = call + 1 /\ contract' = [contract EXCEPT !.text = chain[Here].text]
            /\ at' = at
       ELSE NextAddress

\* The source: an error counts as "not verified".
ReplySource(ok) ==
  /\ Calls[call] = "getsourcecode"
  /\ contract' = [contract EXCEPT !.verified = ok /\ chain[Here].verified]
  /\ call' = call + 1 /\ at' = at

\* Balance and deployment: an error leaves the field empty.
ReplyDetail ==
  /\ Calls[call] \in {"balance", "getcontractcreation"}
  /\ call' = call + 1 /\ UNCHANGED <<at, contract>>

Reply(ok) ==
  /\ ~OnChainDone /\ io = "sent" /\ io' = "idle"
  /\ ReplyCode(ok) \/ ReplySource(ok) \/ ReplyDetail
  /\ lost' = IF ok THEN lost ELSE lost \cup {<<at, Calls[call]>>}
  /\ UNCHANGED <<chain, addresses, tokens, recent, answers, all, stats>>

(***************************************************************************)
(* AnalyzeContract and the body of the loop over the addresses.            *)
(***************************************************************************)
ChainFinding(kind, sev) == [address |-> Here, kind |-> kind, severity |-> sev]

\* A bug to catch: high findings count for informative ones.
DangerousHigh(p) == p \in contract.text /\ PatternSeverity[p] > High
\* patternsToFindings: all but the informative ones.
Dangerous(p) == p \in contract.text /\ PatternSeverity[p] # Info
PatternFindings ==
  LET found == Kept(Patterns, {p \in Range(Patterns) : Dangerous(p)})
  IN [i \in DOMAIN found |-> ChainFinding(found[i], PatternSeverity[found[i]])]

\* compareWithLocal compares nothing and never sets Match, and the scan
\* command always has a local path; inMemoryDetectors is empty.
StaticFindings ==
  <<IF contract.verified THEN ChainFinding("bytecode-mismatch", Critical)
                         ELSE ChainFinding("unverified-contract", High)>>
  \o PatternFindings

Exploits == IF chain[Here].exploited
              THEN <<ChainFinding("known-exploited-contract", Critical)>> ELSE <<>>
Counted == Kept(StaticFindings, {f \in Range(StaticFindings) : f.severity >= MinSeverity})

Assemble ==
  /\ ~OnChainDone /\ call > Len(Calls)
  /\ answers' = Append(answers, [address |-> Here, findings |-> StaticFindings])
  /\ all' = Append(all, Counted \o Exploits)
  /\ stats' =
       [analyzed   |-> stats.analyzed + 1,
        verified   |-> stats.verified + IF contract.verified THEN 1 ELSE 0,
        unverified |-> stats.unverified + IF contract.verified THEN 0 ELSE 1,
        critical   |-> stats.critical + Cardinality({i \in DOMAIN Counted : Counted[i].severity = Critical}),
        mismatches |-> stats.mismatches +
              Cardinality({i \in DOMAIN Counted : Counted[i].kind = "bytecode-mismatch"}),
        exploited  |-> stats.exploited + Len(Exploits)]
  /\ NextAddress
  /\ UNCHANGED <<chain, addresses, tokens, recent, io, lost>>

OnChainNext == Send \/ (\E ok \in BOOLEAN : Reply(ok)) \/ Assemble

\* ToAnalysisResults: what the scan command appends to its results.
OnChainFindings == Joined([i \in DOMAIN answers |-> answers[i].findings])

(***************************************************************************)
(* Properties.                                                             *)
(***************************************************************************)
\* In no second leave more requests than a full bucket and what the ticks
\* within it put back: nearly twice the 5 requests a second of
\* newRateLimiter's comment, and never more (etherscan.go:310-344).
RateBounded == recent[Rps] <= 2 * Rps - 1

\* Each address that has code, and whose code request was answered, has one
\* result, in the order of the list.  Its patterns are all there and only
\* they; it is called unverified if it is, or if that request was lost; and
\* what AllFindings counts is handed to the scan command, known exploits
\* excepted (analyzer.go:26-110, pipeline.go:69-114).
Given(i) == chain[addresses[i]].code /\ <<i, "eth_getCode">> \notin lost
Has(i, kind) == \E f \in Range(answers[i].findings) : f.kind = kind
AnswersRight ==
  LET given == Kept([i \in 1..(at - 1) |-> i], {i \in 1..(at - 1) : Given(i)})
  IN /\ Len(answers) = Len(given)
     /\ \A k \in DOMAIN answers :
          LET world == chain[addresses[given[k]]]
          IN /\ answers[k].address = addresses[given[k]]
             /\ \A p \in Range(Patterns) :
                  Has(k, p) <=> p \in world.text /\ PatternSeverity[p] # Info
             /\ Has(k, "unverified-contract") <=>
                  ~world.verified \/ <<given[k], "getsourcecode">> \in lost
             /\ {f \in Range(all[k]) : f.kind # "known-exploited-contract"}
                  \subseteq Range(answers[k].findings)

=============================================================================
