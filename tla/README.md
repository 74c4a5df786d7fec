# XQuad: a verification project

TLA+ models of the parts of XQuad whose correctness is hard to test, the TLC
instances that check them, and TLAPS proofs of what matters most. Every
definition is translated from the code; `PROJECT.json` maps each one to its
lines, and lists the runs, the mutants each property catches, the hazards and
the theorems.

## The system

XQuad builds, runs and solves quadratic optimisation problems.

| part | code | state | operations | what makes it correct |
|------|------|-------|------------|-----------------------|
| constraint compiler | `xqcp/` | a problem: variables, constraints, objective | compile to three programs (encoder, verifier, decoder) | the programs compute the problem's model |
| assembler | `xqasm/` | labels, instructions | text to bytecode and back | every label resolves; round trip |
| bytecode | `xqvm/src/bytecode/` | code, jump table | encode, decode, build | what is decoded is what was encoded |
| verifier | `xqvm/src/verifier/`, `dataflow/` | per-position abstract state | verify | an admitted program never raises a statically excluded fault |
| interpreter | `xqvm/src/vm.rs`, `metering.rs` | stack, 256 registers, loop frames, outputs, step and byte counters | `run`, `reset`, 93 instructions | budgets bind, loops are bounded, faults are exact |
| model | `xqvm/src/model.rs` | sparse linear and quadratic coefficients, a grid | coefficient access, constraint expansion, energy | a penalty is zero exactly on the assignments the constraint allows |
| bindings | `xqffi/`, `xquad/vm.py` | one interpreter | run, reset, calldata, outputs | values keep their meaning across the boundary |
| solver adapters | `xqsa/` | none | QUBO/Ising conversion, annealing | energies agree before and after conversion |
| Quip client | `xqsa/quip/client.py`, `signing.py`, `chain.py` | a connection, an account | sign, gate, send, settle, query | a job is paid for at most once, with consent |
| Quip codec | `xqsa/quip/codec.py`, `access.py`, `resolution.py` | none | place, encode, decode, options and limits, payouts | the network solves the user's problem on the user's terms |
| Quip accounts | `xqsa/quip/accounts.py`, `signing.py` | keystores, preferences, `.gitignore` on disk | create, use, resolve a signer | no seed is lost or committed; the preferred account signs |
| Quip order | `xqsa/quip/order.py` | draft / sending / submitted / failed, signed bytes | set, quote, submit, status, copy, pickle | what it says is what the chain holds |
| Quip receipt | `xqsa/quip/receipt.py` | order id, finality seen | status, wait, settle, reclaim | nothing is reclaimed twice or too early |
| fixtures | `fixtures/` | a stored program | submit and run on chain | budgets come from the caller under caps |

A problem is compiled to programs; the encoder program runs in the interpreter
and outputs a model; a solver adapter minimises it locally or a `JobOrder`
places it on the Quip Network; the answer is a sample that the verifier and
decoder programs judge and translate.

The Quip part is the concurrent one. A `JobOrder` signs one transaction with
the account's next nonce and a mortal window, sends it to a node, and must
find out what became of it although sends fail half-way, nodes lag behind each
other, finality stalls, the user interrupts, the process is saved and loaded,
and other orders and other clients spend the same account's nonces.

Around it, a session asks for consent, draws on a faucet, and later reads an
order that goes on being answered, claimed and reclaimed, through nodes that
are behind. Accounts are files that several processes use without a lock.

The interpreter is sequential, and hard for other reasons: budgets charged
before work, loop frames that jumps may leave behind, partly executed
instructions, and a host that may run it again. The compiler is pure, and hard
because three programs with register files of their own have to agree on what
one script means.

## Modules of the Quip part

* `QuipChain` - the chain as the client reads it (`chain.py`): the finalized
  head, the account's included transactions in nonce order, and every
  transaction that ever reached a pool. External; everything above the
  finalized head is a nondeterministic answer, so every reorganisation of the
  best chain is covered. `SettleProposal` is `chain.settle_proposal`.
* `JobOrder` - the order's state, its signed bytes and the running call as a
  place (`pc`) with its locals. One action per call and per step of a call;
  the chain and the other orders move between two steps.
* `PlaceOnce` - the promise: an order is placed at most once, only while it
  may be at risk, and the user is told what the chain holds.
* `MCJobOrder` - instances for TLC. `JobOrderProof` - theorems.

| code | model |
|------|-------|
| `_state`, `_signed`, `_order_id`/`_block_hash` | `state`, `signed`, `entry` |
| locals of `submit`, `_settle` | `pc`, `call`, `bytes`, `seen`, `late`, `lastFinal` |
| `_sign`, `_send_ready` | `ReadNonce`, `Sign`, `CheckReady`, `Resign`, `Recheck` |
| `_clear_gates` | `PassGates`, or `Refuse` |
| `_propose_job` | `Send`, `SendRefused` |
| `_settle`, `_settle_round`, `_settle_once` | `FindLanded`, `FindNever`, `Resend`, `ExtendDeadline`, `DeadlinePasses`, `Unsettled`, `StaySending` |
| `_record`, Ctrl-C | `Record`, `Interrupt` |

## Modules of the Quip session

* `Mempool` - one order in the pallet, block by block; external. `blocks[h]` is
  the order as block h leaves it, so a read of a node that is behind is a read
  of an older element.
* `Receipt` - `JobOrderReceipt` and the calls of `SolverQuip` that end in it.
  Every chain read is a step, answered at any height of the last `Lag` blocks.
* `Gates` - `_clear_gates`, the faucet's request and the wait for its drip.
* `Session` - the three together with `solve()` and `submit()`; between the
  gates and the placed order stands `JobOrder`, here one step that may fail.
  `SessionProof` - theorems.

| code | model |
|------|-------|
| `_final_seen`, locals of a call | `finalSeen`, `headView`, `orderView`, `answerView` |
| `status`, `wait`, `summary`, `reclaim`, `_collect_result`, `list_orders` | `call` and `place`; `StatusOrder`, `ReclaimHead`, ... |
| `time.monotonic() >= deadline` | `late`, `TimePasses` |
| `_clear_gates`, `fund_from_faucet` | `gate` and its actions |
| the answer or exception the user gets | `said`, `refund`, `told` |

## Modules of the placed order

* `Placement` - `Topology` and `find_placement`, its explicit stack as a state.
* `Encoding` - `model_to_ising`, `decode_solution`, the energies and the
  rounding of floors.
* `OrderOptions` - the merge and the checks of an order's options, the defaults,
  the floors and the call parameters.
* `Answers` - the pallet's judging, storing and ranking (external), `pick_best`,
  `solvers`, `settlement`.
* `PlacedOrder` - `create_order`, `set`, the proposal, the answers, `best`.
  `MCPlacedOrder` has the cases. `PlacedOrderProof` - theorems.

| code | model |
|------|-------|
| `_OrderOptions`, `IsingJob` | `options`, `job` |
| `merge_options`, `_pop_mode`, `_check_limits` | `Merged`, `MergeOk`, `PopMode`, `WithinLimits` |
| `_settle_topology`, `_job_for` | `SettleTopology`, `Place` |
| `find_placement` | `StartSearch`, `SearchStep` |
| `_check_floors` | `HopelessFloors`, `FiltersNothing` |
| `_propose_call_params` | `CallParams` |
| `pick_best`, its two reads | `ReadAnswers`, `ReadRanking`, `PickBest` |

## Modules of the accounts

* `Accounts` - `create_account`, `use_account`, `clear_account`,
  `resolve_accounts` with `_build_signer`, and the keystore writer. A step is
  one look at the disk or one change of it. `MCAccounts` has the directories
  and the calls. `AccountsProof` - theorems.

| code | model |
|------|-------|
| files under `.quip` and `~/.quip` | `keystores`, `preference`, `ignore`, `temps`, `quip` |
| `_write_gitignore` (create, fill) | `Ignore`, `Fill` |
| `mkstemp`, `os.link` or `replace`, `unlink` | `Temp`, `Publish`, `Prefer`, `Clean` |
| `_find_project`, `_level_dir_for_write` | `FindProject`, `LevelDirForWrite` |
| `SignerSource` chain | the looks of a signing call, `Choose` over `Levels` |
| a `keystore=` path of the caller | `Given`, the keystores asked for by path |
| `_read_preference`, `_check_rewritable` on a file edited by hand | `NameGiven`, `Rewritable`, the contents `HandEdits` |
| a team's own `.gitignore`, left as it is | `ignore[d] = "team"`, of a world of `Leftovers` |

## Modules of the constraint compiler

* `Expression`, `Problem` - the DSL: expressions and their code, the calls that
  record actions and hand out registers.
* `Compiler` - `compile_encoder`, `compile_verifier`, `compile_decoder`.
* `Expansion` - a model's coefficients and the constraint instructions.
* `Evaluator` - runs a compiled program to its end.
* `Meaning` - what a script says, read directly; it knows no registers, no
  penalties and no programs.
* `Adapter` - `Solver.solve` over a solver binary or over the sampler in
  process: its checks, the Ising form, the choice of a read and the way back.
* `Pipeline` - record, compile, encode, solve, verify and decode.
  `MCPipeline` has the scripts.

| code | model |
|------|-------|
| `Problem`, its action buffers and open blocks | `prob` |
| `Problem.compile` | `Compile`, refused where the code raises |
| the emitted assembly | sequences of `<<opcode, operands...>>` |
| `exec_onehot`, ..., `exec_slack`, `exec_energy` | operators of `Expansion` |
| `verifier_calldata_layout`, `Session.run` | `VerifierCalldata`, `Judge` |
| `to_ising_milli`, `spins_to_sample` | `ToIsingMilli`, `SpinsToSample` |
| `_read_capabilities`, `_check_model` | `Usable`, `Fits` |
| `Solver.solve` with `BinaryImplementation.run`, `InProcessCPU.run` | `Solve`, with `OfBinary`, `OfSampler` |

## Modules of the virtual machine part

* `Bytecode` - an instruction as operation, registers and one argument, with
  its stack effect, its register effect, labels, loop nesting, and the scan
  (`ScanAccepts`) that is the verifier's first phase. Positions are
  instruction numbers: the byte encoding is a bijection the properties do not
  see.
* `Xqvm` - the interpreter. One action per instruction or group of
  instructions with the same handler shape; each action draws its charges and
  then acts, faults included. `status` is "running", "halted" or the fault.
  `lent` is a history variable: the registers whose model LVAL copied out of a
  frame.
* `ControlFlow` - the block graph `build_cfg` makes of a program, including
  the blocks it leaves out, and the stack effect of a block.
* `Dataflow` - the worklist solver `solve`, for any analysis: `Top`,
  `Boundary`, `Meet` and `Transfer` are constant operators. One step is one
  node taken off the queue, or one successor of it put on.
* `Analyses` - the three analyses as one set of operators selected by
  `job.kind`: register types, must-initialised registers, stack depth.
* `FlowAnalyses` - the solver with those analyses against reference
  definitions over the paths of the graph.
* `Submission`, `Machine` - what verifier and interpreter share: the program that
  was submitted, and the register file and the stack limit of the machine.
* `Verifier` - the pipeline: scan, then three solver calls and their verdicts.
* `VerifiedRun` - `Verifier` followed by `Xqvm`, both extended, on the same
  submission.
* `MCXqvm`, `MCFlowAnalyses`, `MCVerifiedRun` - programs and graphs for TLC.
  `XqvmProof`, `DataflowProof`, `VerifiedRunProof` - theorems; `FiniteFacts` - facts
  about finite sets, sequences in order, recursion along a range, sums over finite
  functions and quotients.

| code | model |
|------|-------|
| `Vm::stack`, `regs`, `loop_stack`, `outputs` | `stack`, `regs`, `loops`, `outputs` |
| `steps`, `memory_used`, cursor position | `steps`, `memory`, `pc` |
| `charge_steps_base`, `charge_steps`, `charge_memory` | `Ready`, `Charged`, `Free` |
| `StepResult::Jump`, `StartLoop`, `SkipLoop` | `GoTo`, `Enter`, `SkipLoop` |
| `exec_range`, `exec_iter`, `exec_next`, `exec_l_val` | `OpenRange`, `OpenIter`, `EndOfBody`, `LoopValue` |
| `worklist`, `in_worklist`, `before`/`after` | `worklist`, `inWorklist`, `Before`/`state` |
| the inner loop over `output_edges` | `pending`, `Enqueue` |
| `RegTypeAnalysis`, `InitAnalysis`, `StackDepthAnalysis` | `TypesTransfer`, `InitTransfer`, `DepthTransfer` and their meets |
| `check_*_with_cfg` | `TypesAccept`, `InitAccept`, `DepthAccept` |

## Runs

The Quip runs:

| run | instance | shows |
|-----|----------|-------|
| `two_orders` | two orders for nonces 0 and 1, window of two blocks, two blocks | what every order says is what the chain holds, no order is placed twice, and the inductive invariant of the proofs holds |
| `one_order` | one order against foreign transactions, a window of three blocks, node one block behind, best two ahead, four blocks | the same where the window, the lag and the best chain overlap; `JobOrder` implements `PlaceOnce`; every call returns, and an order left sending is settled in the end if finality advances and the user resumes |
| `interrupt_draft` | interrupts anywhere | a finding below |
| `session` | one order of deadline 5 and block wait 2 over eight blocks, nodes up to two behind, two reclaims in the pool, two submits | what is told final is final and stays told; a reclaim is refused for a reason and pays a fee only to a race; "nobody answered" is true; no drip and no job without consent; `wait()` returns |
| `placed_order` | 23 cases of model, client, limits, options and answers | the job follows the options, energies survive the encoding, floors mean what they say, what the client accepts the chain takes, `best()` and `settlement()` agree with the ranking |
| `accounts` | three processes, three calls, one mishap (a crash, an error or a deleted file), a project in a project under the home directory and a foreign `.quip`, over three worlds that people may have left | no seed that a call answered with is lost, no seed lies in a project before its `.gitignore` unless the caller named its path, a signer follows the preferences |

Two orders are enough for the race: every hazard is one order's step against a
transaction the chain takes from somebody else, and the foreign transactions
stand for all further clients. Two nonces let the other transaction come
before or after. The window must be longer than one block for a transaction to
be included late, and `one_order` has the smallest lag and lead at which a
lagging node, the best head and the window's end are all distinct. Bounds:
`MaxBlock`, `MaxNonce`, `NodeLag`, `BestLead`.

In `session` the order is placed in block 1, so its deadline ends it at block 6.
An order first answered in block 2 or 3 ends before that, its block wait after
the answer; one answered in block 4 or 5, or not at all, ends by the deadline.
Two more blocks leave room to claim or reclaim it while each of two reads is up to
two blocks behind; the second reclaim is the retry after an unknown outcome. Money is small numbers:
`Reward` 3, `Fee` 1, `Drip` 2 and balances to 4 give every order of balance,
quote and one drip. `MaxHeight`, `MaxPending`, `MaxBalance`, `MaxSubmits` bound
the counters.

`placed_order` has graphs with gaps in their numbering and with triangles, so
that a search retreats, fails and gives up (`MaxSteps` 24, so small that a
model of five variables meets it); coefficients on, between and half way
between the chain's grid points, and beyond `MaxI32`; floors at and on either
side of every bound (`MaxI64`); every option valid and invalid, alone and with
another (`MaxSets` 2: one change on top of another); and up to three answers of
three solvers. Energies are whole ticks, four to the milli.

`accounts` needs two processes for every race, and a third for a bystander;
three calls are a create, a use and a resolution. The directories are the
smallest with a project inside a project. The worlds (`Leftovers`) are an empty
one; a project a team committed, with a `.gitignore` of its own and other keys
in its `config.toml`, beside a user's file of other keys that names an account;
and a bare `.quip` with a `config.toml` that cannot be read.

The compiler run, `pipeline`: thirteen families of scripts, each with
alternatives at the places where the programs could differ, compiled and run
on every sample. Together they use every action kind, every constraint at the
top level, in loops, in iterations and in arms, slack bits, reductions, ranged
integer and spin models, grids, and outputs of all shapes; three of them fill
the register file to each side of its end (`LastReg` 24, standing for 255).
Each encoded model is also handed to a solver, by seven calls of `solve()`
that are refused for each reason, fail in each way, or bring back two reads,
one of them arbitrary. What is shown: what a solver minimises, the Ising form
where there is one, is the objective plus a constant where the constraints hold
and more elsewhere; the best read comes back; the verifier's flag is the
constraints; the decoder's slots are the outputs.

The virtual machine runs:

| run | instance | shows |
|-----|----------|-------|
| `xqvm` | all programs of two phrases from five set-ups, and all loops over a vector of integers with four free phrases or over one of models (`ModelPrograms`), jumps in and out included | budgets and caps hold, frames stand on an iteration still to run, what is live was charged but for one copied model per register, each run ends |
| `flow_analyses` | all graphs of three blocks (at most two successors), three or four bodies per block | the solver converges on a fixed point; it is sound over all paths; depths are exact |
| `verified_run` | 10^4 programs: short ones, a loop, a branch forward, a branch backward, a branch in a loop, with free phrases around | admitted programs raise no control, register or underflow fault |
| `loop_writes_all`, `dead_block` | programs of one shape each | findings below |

In `xqvm` the limits are small enough that each of them is met (stack 3, loops
2, 32 steps, 100 bytes, integers within -4..3), so every fault of the modelled
instructions is raised somewhere. Three blocks carry every join the analyses tell
apart: two predecessors, a back edge, a self loop, a block nothing leads to.
Two registers are one that is written and one that is not. Costs and sizes are
the code's own constants.

The model leaves integers unbounded inside the sums of a charge: the code uses
`checked_add` there and refuses where the sum does not fit. Values of the
machine are bounded by `MaxInt`, standing for `i64::MAX`, with the code's fault
where a result leaves the range.

### Hypotheses of `verified_run`

The promises of the verifier do not hold for every program (below), so the invariants are stated for programs that are

* `JumpsStayInLoop`: no jump crosses the boundary of a loop body
  (known divergences, `scan.rs:84`);
* `BlocksInGraph`: every block is a node of the graph (`dead_block`);
* `SpareRegister`: some register is written by no instruction. The register
  phases take the state in which every register is written for that of a dead
  block (register.rs:277, uninit.rs:243); `loop_writes_all` shows what the
  solver does then. With 256 registers that is nearly every program;

and for the two register faults also, each where it matters,

* `CalldataSet`, for unset reads: INPUT counts as a write whatever it loads, so a
  host that supplies an unset value is read as one. The run supplies a set one,
  and has programs that load it;
* `KindsKnown`, for type mismatches: LVAL and INPUT write a value whose kind is
  known only at run time, which the documentation says.

None of the five is checked by the verifier.

## Fairness

* `FairSpec` of `JobOrder`: a running call keeps executing (`WF` of its steps),
  and the deadline of the settling loop passes (`WF` of `DeadlinePasses`). The
  code guarantees both: the calls are sequential code, every wait has a time
  limit and the clock moves. Nothing is assumed of the chain.
* `Resumed`, the hypothesis of `SendingResolves`: finality advances (`WF` of
  `Finalize`), the user calls `submit` again (`WF`), and a read that could
  settle the proposal succeeds if it is possible again and again (`SF` of
  `FindLanded`, `FindNever`). These are assumptions about the network and the
  user: without any of them an order may stay sending, and it does so safely.
* `Xqvm` and `Dataflow`: sequential code, `WF` of the next step.
* `Session`: a call takes its steps and the clock runs, `WF` of each. Nothing is
  assumed of the chain: `wait()` returns also when no block is made.

## Proofs

The proofs hold for every value of the constants that satisfies the named
assumptions of the modules (`ChainAssumption`, `OrderAssumption`,
`XqvmAssumption`, `MempoolAssumption`, `GatesAssumption`, `AccountsAssumption`,
`PlacedOrderAssumption`, and those of `Dataflow`), which TLC
evaluates on every run. They say only what the constants are: that limits
are numbers, programs and models well-formed, topologies finite, directories a
tree with paths to the home directory.

### Orders: `JobOrderProof`

For any number of orders, any window, lag, lead and number of blocks:

* `TypeCorrect`: `Spec => []TypeOK`.
* The safety invariant, under the hypothesis that Ctrl-C does not arrive
  between the answer of the node and its recording
  (`"record" \notin InterruptPoints`; `interrupt_draft` shows the
  hypothesis is needed). What an order says is not inductive: it says nothing
  of bytes on their way. `SafetyInv` adds, per order, `AccountedFor`: a
  transaction of the order that landed or still may is one the order `Holds`
  (as its signed bytes or in the running call) or has `Recorded` (as its
  verdict), so a new signature is made only when the last is landed or dead.
  `CallInv` ties the place of a call to the order's state and bytes, and
  `LedgerInv` says that a nonce is used once and that no transaction is
  included after its window. The proof has a lemma per action family;
  `NeverTwice`, `DraftsAreDead`, `SendingResumable` and `VerdictsAreFinal`
  are its corollaries.
* `PlacesOnceImplemented`: `Spec => PlacesOncePromise`, the refinement of
  `PlaceOnce`, under the same hypothesis. The life of an order depends on its
  state, on whether it is `AtRisk` and on what the chain holds of it
  (`LifeStands`), so most steps are stutters; a send or an interrupted send is
  `Expose`, a finalized "never" is `Withdraw`, an inclusion is `Land`, `_record`
  is `Tell`. What makes them so is `AccountedFor`: an order whose bytes can still
  land has nothing on chain (`HeldOnce`), and a draft has nothing there
  (`QuietHasNoEntries`).

### The interpreter: `XqvmProof`

For every set of well-formed programs, every calldata and any limits, also for
programs the verifier rejects:

* `MachineStaysWellFormed`: the inductive invariant `Inv`. `MachineOK` types the
  stack, registers, frames and outputs by kind of value, and keeps the machine's
  counters natural; the three properties are conjuncts of it.
* `BudgetsHold`, `FramesStand`, `LiveIsCharged` are its corollaries.
  A handler charges and then acts, or faults with what it charged so far
  (`Faulted`), so a step has a charge (`Paying`) and an effect: `Moved` nothing
  live, `Wrote` a register, `Sent` an output, `Entered` or `Turned` a frame.
  Budgets follow from the charge. That no more is live than was charged is an
  argument about three sums, over registers, slots and frames, of which each
  effect changes one at one place; `FiniteFacts` has the rules. Copies are what
  makes it delicate: ITER copies the slice into a frame and pays for it, LVAL
  copies an element back, paid for if it is a vector and free if it is a model,
  so the register is `lent` until it is written again.
* `FiniteFacts`: `SumNat`, `SumExcept`, `SumExtend`, `SumAtLeast`,
  `SumMonotone`, `SumConstant`, and, for energies, `SumRenamed`, `SumAdd`, `SumScaled`,
  `SumWithin`, `SumBounded`, `SumBetween` and `SumSwapped` (a table by rows and by
  columns), of the library's fold over a finite set. They are
  inductions over finite sets. The library's induction theorems take an operator,
  which the installed provers cannot instantiate; the lemmas take a smallest
  counterexample instead (`SmallestSet`), from theorems on well-founded orders
  that need none.

### The session: `SessionProof`

For every deadline, wait, lag, height and all prices: `SessionInvariant`
(`Spec => []Inv`), and as its corollaries `SeenFinalIsFinal`,
`ReclaimTellsTheTruth`, `SaidUnansweredIsTrue`, `ConsentComesFirst`, and the action
property `StatusNeverReopens` (`FinalizedIsKept`).

The properties speak of the chain's present, but a call knows only what its
reads showed of the past. `ChainOK` therefore says that an order only `Evolves`
from block to block, a reflexive and transitive relation: it never reopens, its
first answer stays, and past its expiry it is answered no more. With it what a
call read at any height is still good for the head: `CallOK` says what the read
views were, `KnownFinal`, `KnownUnanswered` and `KnownReclaimable` what follows of
the head, `PoolOK` that a reclaim in the pool was fit when it was sent, `Outcomes`
and `Said` that what the user was told still holds. `GatesOK` is the consent
machine's own invariant, with the inequalities between quote, balance, fee and
drip.

### The accounts: `AccountsProof`

For any number of processes, any tree of directories, anything left in it by
hand, any set of calls, and
crashes, errors and deletions anywhere: `AccountsInvariant`, and as its corollaries
`AccountsAreKept`, `SeedsAreIgnored` and `PreferencesAreFollowed`.

There is no lock, so nothing a process has looked up need still be so. The proof
rests on `Progress`, what no step takes away from anybody: a keystore that existed
exists or was deleted, a published seed is in its file or was overwritten on
purpose, a `.gitignore` that was made stays, a project stays one, the preferences
met only grow. Each part about a process (`ArgumentsOK`, `WriteOK`, `UseOK`,
`SignOK`, `ResultOK`) is made of such facts only, so it survives the steps of
the others (`Rests`), and a step has to be examined for its own process alone.

### The placed order: `PlacedOrderProof`

For every table of cases, every registry of topologies and any search budget:

* `JobFollows` (`Spec => []JobFollowsTheOptions`). It contains the soundness and the
  completeness of `find_placement`, an explicit backtracking stack in the code. The
  invariant `SearchInv` says what the stack promises: what is placed fits
  (`PlacedTo`), every node that waits on the stack may be taken where it waits
  (`MayTake`), and every embedding that is not ruled out agrees with what is
  placed up to some depth and goes on from a node that waits there (`GoesOn`). So
  a full placement fits and an empty stack leaves no embedding; a search that
  ran out of its budget says nothing. That the order of the variables is a
  permutation of them (`OrderIs`) is proved of the recursive function that builds
  it, by a least counterexample. `OrderInv` adds that the options and the job
  change together, and that a running search asks the question of the options that
  wait for it (`SearchesFor`).

What is posted and paid, with the limits, the options and the answers of the table:

* `AcceptedHolds` (`Spec => []AcceptedIsTaken`). `TakenInv` says that the options of a
  draft passed every check as a whole when they were last merged, whichever
  option changed, and that the job has one coefficient for each node and edge of
  a finite graph whose edges end in its nodes (`JobOK`). `CallIsTaken` goes through
  what the chain refuses, one by one. The limits of the client are those of the
  chain: a chain that changes them between the two is not modelled.
* `PayoutsSplit` (`Spec => []PayoutsSplitTheReward`). The shares are quotients, so that
  they add up, fall with the rank and are what the weights make is arithmetic
  (`SharesSplit`): the two steps in which the code divides, so as not to overflow,
  are one division (`ShareIs`), and the remainders go to the first. `PaidInv` says
  that whoever is ranked is ranked once, answered, and is among as many as the
  rule pays (`RankInIs`); from it follows that `solvers()`, which sorts by rank,
  energy and time, begins with those who are paid (`RankedFirst`).
* `PickIsPaid` (`Spec => []PickIsPaidFor`). `best()` compares the energy that the chain
  ranks the leader at with the ones it computes from what is stored, so both
  must be the same number for the same vector (`ChainEnergyIs`): the chain reads a
  coefficient by its place in the call, the client by its node or edge, and the
  sums are over different sets (`SumRenamed`). `StoredInv` says that a solver's
  vectors have a spin for every node, that whoever is ranked is ranked at an
  energy none of its vectors is below, reached by one of them unless the solver
  is in `changed`, and that what `best()` read is what is stored until the next
  answer. From it `BestIs` follows: of a finite set of solutions there is a first
  (`FirstIs`), and it has the lowest energy.

What a vector and a floor mean. `MadeInv` says that every job, the draft's and the
one whose floors were refused last, is the model, which has terms, placed with a
node of its own for every variable (`JobOf`), and that nothing is posted before
the order is open.

* `EncodingKeeps` (`Spec => []EncodingKeepsEnergy`). For a model in bits the energy of a
  sample is rewritten term by term: a coupling's `x[a] * x[b]` is a quarter of what
  its spins make (`InSpins`, `TermInSpins`), the terms of a variable with itself are
  linear (`LoopsApart`), and adding them up by coupling is adding them up by variable
  (`SharesAre`, from `SumSwapped`); so the model's energy is that of its spins plus the
  offset, exactly (`BinaryIs`; `SpinIs` for a model in spins). Each rounding moves a
  term by at most the error (`RoundedSum`), and the places of the job carry each
  coefficient once (`PlacesAre`), so that the job's energy is within the bound
  (`EncodingIs`). Every node has a variable, which decodes its spin (`DecodesApart`).
* `FloorsHold` (`Spec => []FloorsMeanWhatTheySay`). The energy of a vector is within the
  reach of the coefficients (`ChainEnergyIs`, `FlippedIs`), without an error it is the
  model's (`ExactIs`), a ceiling rounded down separates the same vectors as the
  user's (`CeilingIs`), and two vectors up to a flip differ in at most half of
  their spins (`DistanceIs`).

Cases are well-formed (`PlacedOrderAssumption`): rewards are amounts, a model's
variables are numbered and its couplings name two of them in order, and an
access rule that is not a raw dict was built by a constructor, which refuses an
empty one; coefficients are whole ticks, and whole milli in a binary model, so that
halves and quarters of them are exact; a floor on energy is whole ticks; a solver is named by a number (only the
order of the names matters), and an answer is a sequence of vectors.

### Verified programs: `VerifiedRunProof`

These theorems join the two halves of the machine part: what the verifier
settles on, by reading the text, holds of what the interpreter does. They are
stated of `VerifiedSpec`, a verifier and then a machine, for every set of
programs, every calldata and any limits, under the hypotheses of `verified_run`.

`AdmittedKeepsControl` (`[]NoControlFault`). Only the scan and the hypothesis that jumps
stay in their loops are needed for it. What relates the machine to the text is
`Matches`: its loop frames are those of the openers that are open at its position,
and each leads back behind its opener. Three facts about the text keep it so:
behind an opener, the loops open are those around it and itself (`LoopsStand`), so
that NEXT may go back there with the rest of the stack as it is; a jump changes
nothing (`JumpsStayInLoop`); and the forward scan that skips an empty loop, which
counts openers and NEXTs and knows nothing of nesting, stops behind the NEXT that
closes the loop (`ScanFindsTheEnd`): until then its count is the number of loops
open inside (`Inside`), and it does stop because no loop is open at the end. These
are proved of the recursive function `OpenLoops` by least counterexamples.

`AdmittedNeverUnderflows` (`[]NoUnderflow`) and `AdmittedReadsWritten`
(`[]NoRegisterFault`) rest on three more parts.

* The verdict. `Served` says which call of the solver each phase of the verifier is
  in, and that the solver's own invariant holds of it (`DataflowProof`, taken over
  as the instance `Queue`): so a phase that ends ends on a fixed point, which its
  checks then judged.
* The path. `StaysOrTakesEdge`: a step of the machine stays in its block or goes
  from the end of one to the start of another along an edge of the graph, also
  over the back edges and the exits of loops, which `build_cfg` finds by pairing
  openers with NEXTs in the text. `MachineEffect`: a step that does not fault does
  to the stack's depth and to the registers what the instruction tables say
  (`Effect`), and a fault has its reason.
* The induction along the path. For the depth it is `OnDepth`: the stack is as deep
  as the settled state of the block, with its instructions since, says. The meet of
  two depths is the smaller one, but all edges into a block were checked to agree
  (`JoinAgrees`), so it is the depth of each.

For the registers the same argument fails as it stands. A fixed point alone does
not say enough: blocks on a cycle may justify each other's answers, so there are
fixed points in which a register that nothing writes has a type, and others in
which one that the second phase finds written is `Unset`. That the solver does not
stop on those is a fact about how it works, not about its result: it starts from
`Any` everywhere and looks at the entry first. Hence an invariant of its steps,
`Underway`, which is `Tidy` once the entry was looked at: a register that nothing
writes (`Spare`) is `Any` or `Unset` behind every block, and one that the must-init
phase will find written behind a block is not `Unset` there (`TypedBehind`). The
settled states inherit it (`TypesSettled`, `InitSettled`). It is needed because the
meet of `Unset` and a type is `Any`, which is the identity of the meet, so that the
answer of a join depends on the order of its edges: where no `Unset` arrives, the
answer covers every type that does (`SetMeets`), and where only `Any` and `Unset` do,
an `Unset` on one edge is the answer (`IdleMeets`).

With these, `OnCourse` goes along the path. A spare register is found unwritten by
both phases, so that the path is never taken for a dead one (`Unwritten`); this is
where `SpareRegister` is used. And each register that is found written holds a value
of the type it is found to have (`Agree`). `CourseReads` concludes that a read which
the checks accepted finds its value.

### The dataflow solver: `DataflowProof`

For every graph and every `Top`, `Boundary`, `Meet`, `Transfer`, with no
assumption of monotonicity:

* `QueueMirrored`: the queue has no node twice and the membership set mirrors it.
* `StopsAtFixedPoint`: whenever the solver stops its answer is a fixed point.
  The inductive invariant is `NothingForgotten`: a node is queued, or is a
  successor about to be queued, or its value is what its predecessors make it.
  It is the argument that leaving out a node already queued loses nothing,
  also for a node that is its own successor.

### Model-checked only

* All liveness (`CallsReturn`, `SendingResolves`, `WaitReturns`, `Halts`,
  `Converges`): out of the prover's reach, with `ENABLED`.
* `VerdictIsTheConstraint`, `EncodingIsExact`, `DecoderAnswers` of `Pipeline`: the
  compiler and the evaluator are recursive over programs and data.
* `MustInitIsSound`, `TypesAreSound`, `DepthsAreExact` of `FlowAnalyses`, which compare
  the fixed point with the paths of a graph in both directions. That it is sound
  along the paths of a machine is what `VerifiedRunProof` proves.

## Findings

Each is the counterexample of the run of its name.

* `interrupt_draft` (`src/xqsa/quip/order.py:800`): The docstring of submit()
  says "Anything else that stops it once the bytes may have reached the node,
  such as a KeyboardInterrupt, also leaves the order sending"
  (src/xqsa/quip/order.py:743). Only _propose_job runs inside the try that
  catches BaseException; after it has returned, an interrupt before or inside
  _record (order.py:800, 839-855) leaves the order "draft" although its
  proposal is in a finalized block, so a second submit() signs and places a
  second job.
* `loop_writes_all` (`src/xqvm/src/dataflow/register.rs:171`): solve "iterates
  until no node's state changes" (src/xqvm/src/dataflow/solver.rs:64).
  RegTypeAnalysis::transfer answers top when its input equals top
  (register.rs:171), which makes it non-monotone: in a loop whose body writes
  every register of the file, the header's meet of Unset and a type is Any in
  every slot, which is taken for an unreachable block; the body then answers
  top, the meet is Unset again, and the two answers alternate for ever. The
  verifier does not return on such a program.
* `dead_block` (`src/xqvm/src/dataflow/bytecode.rs:558`): "Reading an `Unset`
  register is rejected" (src/spec/xqvm/VERIFIER.md:126). build_cfg registers a
  block only through an edge, the entry or the exit (bytecode.rs:558,
  cfg.rs:136), so a block that nothing leads to and that ends in a HALT is no
  node; block_ranges then runs the span of the node before it up to the next
  node (register.rs:211-226), and the dead block's writes count as executed.
  The program that jumps over `PUSH 0, STOW r0, HALT` and reads r0 is accepted
  and faults with UnsetRegister.

### Known divergences without a run

Met while modelling; the models follow the code, and the properties are stated
so that they leave out exactly these cases.

* `order.py:827`: a resumed order drops its bytes before `_record` changes its
  state. An interrupt between the two leaves it "sending" with no bytes, and
  every later call fails "assert signed is not None  # a sending order keeps its
  signed bytes." (`order.py:822`) although its job was placed. `SendingKeepsBytes`
  fails when `InterruptPoints` is `AnyPlace`; `BlockingPlaces`, where the passing
  runs have interrupts, has none there.
* `scan.rs:84`: nesting is tracked textually, so a program that jumps over RANGE
  to a TARGET in its body is accepted and raises NoActiveLoop at NEXT, which
  `VERIFIER.md:82` excludes. Hypothesis `JumpsStayInLoop`.
* `vm.rs:1311`: LVAL charges no bytes for a model it copies out of a frame,
  while the total "is meant to bound real heap use" (`vm.rs:344`); the
  specification has it as an open point (`admissibility.md`, "LVAL copies without
  charging the allocation budget"). `LiveBytesAccounted` says what remains: all
  else that lives was charged, a register holds one such copy at most, and none
  is larger than what was charged in all. So up to 256 times the budget can live.
* `compiler.py:166`: an input is read from the slot of its register's number
  (`spec/xqcp/COMPILER.md:130`), while "your Nth `input()` call reads
  `calldata[N-1]`" (`docs/book/src/modelling/inputs-and-model.md:54`), because
  inputs get registers "with nothing else allocated between them". Nothing
  refuses a stow() or a vec() before an input(): it takes a register, and the next
  input asks for a slot nobody fills. `EncodingIsExact` fails on such a script;
  those of `pipeline` declare their inputs first.
* `compiler.py:271`: blocks without a constraint are moved above those with one,
  so a register stowed again after a constraint read it changes that
  constraint. No script does so.
* `receipt.py:469`: the summary reads the order before the head, so it can call
  an order reclaimable whose first answer came in between; `UnansweredIsTrue`
  is about the calls that act on it.
* `accounts.py:344`: "Creating anything under a project ``.quip/`` also writes
  ``.quip/.gitignore`` containing ``*`` when there is none, so a seed never reaches
  a commit" (`accounts.py:42`). `_write_gitignore` creates the file and writes its
  line in two steps, and leaves a file that exists alone: a call that dies or
  fails in between leaves it empty, no later call fills it, and later seeds are
  written beside it. `SeedsStayOutOfCommits` excuses such a `torn` file.
* `signing.py:230`: a keystore that the caller names by its path is made without
  a `.gitignore`, inside a project too, where `accounts.py:42` says that one is
  written "so a seed never reaches a commit". `SeedsStayOutOfCommits` leaves out the
  keystores `Given` by path.
* `codec.py:437`: `find_placement` "Returns an injective mapping such that every
  coupling (u, v) maps to a hardware edge". A spin model may couple a variable
  with itself (`HLF.md:172`: "the diagonal is legal"); the search places it as if
  it did not, and `model_to_ising` makes an edge from the node to itself, which the
  graph has not, while the same mapping given by hand is refused
  (`codec.py:418`). `JobFollowsTheOptions` is about couplings of two variables.
* `accounts.py:223`: `use_account` looks the project up once to find the
  keystore and once to write; a project made in between gets a preference whose
  keystore is one level up. `SignsAsPreferred` asks for the keystore in any
  directory of the walk.

Two limits of the verifier: a DROP in a block no path
reaches clears a must-init bit at a join with live code, so `MustInitIsSound`
asks for equality only where every block is reachable (uninit.rs:144-157); and
the depth is compared with the stack limit only at the ends of a block, so a
peak inside one is left to the machine (bytecode.rs:702-742).

## Not modelled

* The assembler's text format, the tracer, the Rust/Python bindings, the CLI and
  the wasm fixtures: conversions or I/O whose unit is a function.
* The annealers: numeric, stochastic code; any read may come back, at its
  energy. The GPU and D-Wave engines' own conversions.
* Of the compiler: the text of the programs and `_verify_compiled`, which
  returns at once where `xqffi` is not installed.
* Of the placed order: floating point and its tolerance, warnings, the SCALE
  encoding, and the lookup of allowed accounts in the chain's registry.
* Of the accounts: seeds that a caller passes, keystore paths outside the
  `.quip` directories, unreadable keystores, passphrases, and an `account` line
  alone in its file that is no valid name. A `.gitignore` of a team's own is left
  as it is (accounts.py:350); whether its lines match the keystores that are
  written beside it is not looked at by the code, and the properties take it as
  covering them.
* Of the receipt: reorganisations. `current_block` and `fetch_order` read the
  best block (chain.py:713), which may be taken back; the order's chain in
  `Mempool` only grows, with nodes behind it, so what is said of finality there
  is said of a best chain that stays. (`QuipChain` has the reorganisations: an
  order settles by the finalized head.)
* Of the faucet: its bookkeeping. A 429 is taken as the refusal it says it is,
  which pays nothing; a request that fails in transit may have paid.
* Of the interpreter: division, bit operations, quadratic terms and grids in
  `Xqvm` (the evaluator has those that compiled programs use), the reuse of a
  machine, and malformed bytes, left to the repository's round-trip and fuzz
  tests.

`PROJECT.json` lists every part with its status.

## Plan

Done: all modules above and the proofs. Next, in this order:

1. the reuse of a machine: `run`, `reset` and host writes between two runs
   (`vm.rs`, `xqffi`), and what a faulted run leaves behind;
2. the nonce search that decides a proposal from the chain (`chain.py`), as an
   algorithm against a reference over bounded histories;
3. the rest of the instruction set in `Xqvm`, with `Expansion` under its
   budgets, partial execution included.
