# TLA+ models of rpiweatherd's tooling

The repository holds the tools around the rpiweatherd weather daemon. The
daemon itself is not part of it.

- `src/extra/rpiweatherd-cli.py` is an interactive HTTP client. It is a
  `cmd.Cmd` shell that keeps two globals:
  - `CONN_DETAILS`, the stored host and port;
  - `CONFIG`, the cached server configuration.
  
  Each data command issues one blocking GET to the daemon through `get_data`.
- `src/extra/rpiweatherd-admin.py` is a one-shot admin script. It reads and
  drops tables of the daemon's SQLite file, and it uses the prompts of
  `src/extra/deps/CheckedInput.py`.
- `src/deps/FindInitSystem.py` guesses the init system by running three
  probes in a fixed order.

The parts interact only through the daemon. The CLI talks to it over HTTP.
The admin script shares its database file and asks `pgrep` whether it runs.
In every model the daemon is part of the environment: actions that nobody in
the repository controls.

## Modules

| Module | Models | State |
|---|---|---|
| `CliSession` | The CLI: transport, session state, dispatcher, and the formatters in abstract | See the notes below |
| `MCCliSession` | Two hosts, one numeric port, one non-numeric port token | — |
| `SessionSpec` | What spec 4.2 promises of the session state: connect stores its details, then caches what they report or keeps the cache | `conn`, `cache`, `srvUnits` |
| `CliSessionProofs` | TLAPS proofs of `TypeOK` and of the three CLI safety invariants for every value of the constants | — |
| `CliRefinementProofs` | TLAPS proof that `CliSession` implements `SessionSpec` | — |
| `AdminTool` | `main`, `db_stats`, `db_cleanup`, the CheckedInput prompts, the daemon | `pc` (menu or confirmation), `ans`, `confirm`, `out`, `dbFile`, `tables`, `running`, `resolves` |
| `MCAdminTool` | The constant sets for the admin runs | — |
| `AdminToolProofs` | TLAPS proofs of the admin script's `TypeOK` and `DropOnlyConfirmed` | — |
| `InitSystem` | The loop of `find_init_system` over the probes | `machine` (what the probes find), `i`, `result`, `raised` |
| `InitSystemSpec` | The call as its loop's comment describes it, one step: every checker executed, the precedence answer returned, no exception | `machine`, `result`, `raised` |
| `InitSystemProofs` | TLAPS proofs of `TypeOK` and `DetectsFirstInOrder` | — |

Notes on `CliSession`:
- The state is `pc`, `CONN_DETAILS`, `CONFIG`, `server_name`, `lastcmd`,
  `out` (the lines printed by the current command) and `req` (the GET it
  sent).
- The environment is `stdinOpen`, `up` and `srvUnits`.

### CliSession

Each handler of `CmdShell` is one action, named after it. The action covers
the whole handler, including the `get_config` or `get_data` call and what the
handler prints:
- `do_connect`, `do_config`, `do_current`, `do_statistics`, `do_fetch`,
  `do_connection` and `do_exit`.
- The interactive branch of `do_connect` has four actions, because the shell
  waits for input in the middle of it:
  - `ConnectHostInput` and `ConnectHostInterrupt`, at the host prompt;
  - `ConnectPortInput` and `ConnectPortInterrupt`, at the port prompt.
  
  A Ctrl-C or end of input at the port prompt is caught by the bare except
  and asks again.
- `ConnectHostEOF`: an EOFError at the host prompt.
- `Start`: `__main__`, which covers `--version` and the automatic connect.
- `LoopEOF`: `cmdloop` at end of input, which prints "Unknown syntax: EOF"
  and reads again.
- `LoopInterrupt`: a Ctrl-C at the prompt, which ends the program.

`get_data` is `Reply(e)`, the set of outcomes of one GET:
- `"invalidURL"` when the host is `None`. urlopen raises InvalidURL, which is
  not a URLError.
- `"unreachable"` when the daemon at `e` is down. This is a URLError; it is
  printed and the call returns None.
- `"ok"` or any member of `Faults` when it is up. The faults are an empty
  body, an HTTP error (a URLError) and a garbled body (json.loads raises).

Printed lines are records in `Msg` that carry only what the properties
compare: the endpoint of a "Now connected" line, the header unit and the row
unit of a fetch table, and the position of a format error. A traceback is
`[m |-> "traceback", exc |-> E]`; its action moves `pc` to "crashed".

The environment has three actions:
- `CloseStdin`: standard input reaches its end.
- `DaemonToggle`: a daemon stops or starts.
- `DaemonReconfigure`: a daemon is restarted with other units. The model
  assumes that a daemon reports `tempunits` as the glyph of its configured
  `units`.

### AdminTool

One invocation is one option, as in `main`'s elif chain. The database and
the daemon persist between invocations. The actions are:
- `Main`: the options. For `-c` it includes the file check and the pgrep
  check that `db_cleanup` makes before its menu.
- `StatsAnswer` and `CleanAnswer`: the two menus.
- `ConfirmAnswer` and `ConfirmInterrupt`: `input_yes_no` and the drop.
- `MenuInvalid`: the error-and-ask-again loop of `input_number` and
  `input_choice`.
- `DaemonStart` and `DaemonStop`: the daemon. It is assumed to create the
  file and both tables on start.

The script calls `CheckedInput.CheckedInput.input_choice_numeric_list` on the
class it imported, and the class has no attribute `CheckedInput`. With the
code as written, both menus therefore raise AttributeError. The frozen
variable `resolves`, drawn from the constant `Resolutions`, tells the two
cases apart:
- `resolves = FALSE` is the code as written.
- `resolves = TRUE` is the same code with that one call resolved. It lets
  the lines after the menus be checked.

The passing run explores both cases.

### InitSystem

A machine is what the probes can tell apart:
- whether /sbin/init exists, and whether its `--version` output says
  upstart;
- how `systemctl` exits;
- what /etc/init.d/cron is: absent, a file, a symlink, or a dangling
  symlink.

`CheckNext` is one iteration of the loop over `KNOWN_INIT_SYSTEMS_CHECKS`.
The probe of `__is_upstart` raises FileNotFoundError without /sbin/init.
`ReturnUnknown` is the fall-through that returns 'unknown'.

The constant `None` stands for Python's None, the value before the call
returns. `NoneAssumption` says it is none of the four strings the call can
return. TLC evaluates it, with `None` a model value.

`Call` instantiates `InitSystemSpec` with `Answer` set to the reference
`FirstDetected`. The loop index `i` is hidden, so the loop's steps that try
a check and move on are stutters of `InitSystemSpec`.

## Runs

Passing runs:
- **`cli_session`** (`MCCliSession.cfg`): 50,304 distinct states. It
  checks:
  - `TypeOK`.
  - `RequestTargetsSession`: every GET goes to the details `CONN_DETAILS`
    holds, and no data command sends one while disconnected.
  - `ConnectReportTruthful`: "Now connected to X" is printed only when the
    config request went to X, X is stored, and a configuration is cached.
  - `FailedConnectKeepsEndpoint`: a failed connect still stores the new
    details, as spec section 8 says.
  - `SessionRefinement`: the shell implements `SessionSpec`. The mapping
    sends `CONN_DETAILS` to `conn`, with `NoConn` read as absent, and
    `CONFIG` to `cache`. Every step either leaves both alone or is a
    connect: new details stored, then `CONFIG` kept or set to what the
    daemon at those details reports. The mutant that runs `get_config` on
    the previous details before storing the new ones breaks it.
- **`admin_tool`** (`MCAdminTool.cfg`): 276 states. It checks `TypeOK` and
  `DropOnlyConfirmed`: a table disappears only in the step that confirms the
  drop with y or Y, and only the table the menu chose.
- **`init_system`** (`MCInitSystem.cfg`): 122 states, one behaviour per
  machine. It checks `DetectsFirstInOrder`: the answer is the first probe
  that succeeds, in the order the source comment insists on, against a
  separate reference `FirstDetected`. `CHECK_DEADLOCK FALSE` is set here
  because the function returns. The loop runs over three atomic probes
  and ends by its shape, so no liveness property is checked of it.

Violation runs. Each states a claim of the spec, a comment or a docstring
that the code breaks, and each is listed under "findings" in `PROJECT.json`:

| Run | Property | What TLC shows |
|---|---|---|
| `cli_config_recaches` | `ConfigRecaches` | `do_config` binds a local `CONFIG` |
| `cli_fetch_header_units` | `FetchHeaderMatchesRows` | After a daemon is reconfigured, the header unit comes from the stale `CONFIG` while the row unit comes from the reply |
| `cli_fetch_last_arg` | `FetchReportsEveryMalformedArg` | The validation loop skips the last token |
| `cli_after_failed_connect` | `LenientAfterFailedConnect` | fetch after a failed first connect indexes `CONFIG = None` |
| `cli_invalid_url` | `TransportErrorNotFatal` | connect before any connection requests `http://None:None/config` and dies with InvalidURL |
| `cli_prompt_end_of_input` | `EndOfInputLeavesPrompts` | Under `FairSpec`, end of input at the port prompt is caught by the bare except and the prompt is never left |
| `admin_toctou` | `NoDropWhileDaemonRuns` | The daemon starts between the pgrep check and the DROP |
| `admin_confirm_interrupt` | `ConfirmInterruptReturnsNone` | `input_yes_no` raises TypeError on Ctrl-C |
| `init_system_every_check` | `CallRefinement` | Without /sbin/init, `__is_upstart` raises FileNotFoundError at the first check, so the systemd and sysv checkers never run, against the loop's comment "For each init system, execute checker function" |

Each property of a passing run has a mutant in `PROJECT.json`: a plausible
bug in the mapped definition that TLC then catches. For example:
- storing the details only when get_config succeeded breaks
  `FailedConnectKeepsEndpoint`;
- dropping the connection check of `do_fetch` breaks
  `RequestTargetsSession`;
- iterating the checks in another order breaks `DetectsFirstInOrder`.

### Bounds

These are the CLI bounds:
- **Two hosts and one port.** Two endpoints are the least that show requests
  going to a previous endpoint, or a report naming the wrong one.
- **A non-numeric port token** (`BadPort`).
- **Fetch argument lists of up to 2 tokens**, each well or badly formed. Two
  tokens are the least for which "the last token is unchecked" differs from
  "no token is checked".
- **Every daemon state.** Each endpoint is up or down, each is metric or
  imperial, and all three faults are possible.

The admin and init-system models have finite state and are explored in full.

### Fairness

The user may stop typing at any moment, and the daemon may stay down for
ever, so neither gets fairness. Two kinds of steps need nobody and do get
weak fairness:
- `CliSession!FairSpec` makes `EOFReaction` weakly fair. This is the
  shell's reaction to a closed stdin: `LoopEOF`, `ConnectHostEOF` and
  `ConnectPortInterrupt`. Once stdin is at end of file, `input()` raises
  at once, so the next step of the program happens without any user.
  `EndOfInputLeavesPrompts` is checked under it, and the violation shows
  that the port loop spins on 'Input error.' for ever.

The safety runs use `Spec`: an invariant or action property holds under
`FairSpec` exactly when it holds under `Spec`.

## Proofs

`CliSessionProofs.tla` proves `THEOREM TypeCorrect == Spec => []TypeOK`
with TLAPS. The assumption is `CliAssumption`:
- `None` differs from every host, port and unit;
- `BadPort` is not a port;
- `Faults` is a subset of the three faults;
- `MaxArgs` is a natural number.

The proof has one step per action of `Next`. It rests on these lemmas:
- what a reply can be (`ReplyOutcomes`, `ReplyFromEndpoint`);
- which printed lines are in `Msg` (`SayMsg`, `TracebackMsg`,
  `RecordsMsg`);
- that the validation loop reports positions in range (`CheckedInRange`);
- that the shared tails keep the types (`TestConnectionType`,
  `ConnectWithArgsType`, `GetFailedType`).

`TypeOK` carries one conjunct that is not a plain type:
`pc = "portPrompt" => server_name \in Hosts`. Without it, the invariant is
not inductive, because `ConnectPortInput` builds `CONN_DETAILS` from
`server_name`.

`THEOREM SessionSafety` proves, under the same assumption, that
`RequestTargetsSession`, `ConnectReportTruthful` and
`FailedConnectKeepsEndpoint` hold in every state. These three invariants are
not inductive on their own. The inductive invariant `IInv` is `TypeOK` and
the three, together with two more facts:
- `PromptLines`: inside connect's prompts only 'Input error.' has been
  printed, no request is pending, and the command is connect. This is needed
  because `ConnectPortInput` keeps the lines printed so far and, after the
  GET, adds its report to them.
- `StartFresh`: before `__main__` runs, no command has been read.

Most commands end with quiet lines: lines that carry neither connect report.
Two lemmas close those cases:
- `QuietDone`, for commands that send no request;
- `QuietSent`, for data commands that sent a GET to the connected details.

The connect tail, `get_config` on the details just stored, is the lemma
`TestConnectionSafe`. In each of its three outcomes, the report that is
printed names the details the GET went to. `IInv` was checked with TLC
before it was proved.

`CliRefinementProofs.tla` proves `THEOREM Refinement == Spec =>
SessionRefinement`. The argument follows the usual two steps:
- `RefineInit`: the start state maps to SessionSpec's, with no details and
  no cache.
- `RefineStep`: under `TypeOK`, every step maps to a connect, a daemon
  reconfiguration, or a stutter of `<<conn, cache, srvUnits>>`.
  - `StoreAndTest` covers storing an endpoint and testing it.
  - `Retest` covers `get_config` on the stored details. It is a connect of
    the same endpoint, or a stutter before any connection, because
    `http://None:None` raises.
  - `TestConnectionCache` says that `get_config` keeps `CONFIG` or caches
    what the daemon at the tested details reports.
  
  Only two facts of `TypeOK` are needed: the stored details are an
  endpoint or `NoConn`, and `server_name` is a host at the port prompt.

`AdminToolProofs.tla` proves, under `AdminAssumption`:
- `TypeCorrect == Spec => []TypeOK`, for both values of `resolves`;
- `DropsConfirmed == Spec => DropOnlyConfirmed`. It follows from `TypeOK`
  (the daemon's start recreates only tables of `Tables`) and a case split
  of `Next` (`DropStep`). Only `ConfirmAnswer` with y or Y removes a table,
  and that table is `DropTable[ans]`.

`InitSystemProofs.tla` proves, under `NoneAssumption`:
- `TypeCorrect == Spec => []TypeOK`;
- `DetectsInOrder == Spec => []DetectsFirstInOrder`.

Both rest on the loop invariant `LoopInv`, which TLC checked before
it was proved. `LoopInv` is `TypeOK` together with four facts:
- the checks before index `i` all answered false;
- a returned name is the check at `i`, and that check answered true;
- 'unknown' is returned only after the last check, at `i = 4`;
- a raise happened at the check at `i`, with nothing returned.

`DetectsFirstInOrder` alone is not inductive: it says nothing until the
call returns. The first fact is what carries the loop's history to the
step that returns.

The reference answer `FirstDetected` picks the least index with CHOOSE.
Two lemmas evaluate it:
- `FirstHit`: it is the check at `j` when that check answers true and every
  earlier one answers false;
- `NoHit`: it is 'unknown' when no check answers true.

`CliSessionProofs.tla` also states two corollaries of `SessionSafety`, one
per invariant: `ReportTruthful == Spec => []ConnectReportTruthful` and
`FailedConnectKept == Spec => []FailedConnectKeepsEndpoint`.

Every invariant and action property of a passing run is proved. The
violation runs' properties are false by design.

Liveness, `ENABLED` and recursive definitions stay with TLC. TLAPS cannot
prove temporal properties under fairness here, and its backends cannot
instantiate the library's induction theorems.

## Not modelled

- **The daemon.** It is not in the repository.
- **Column widths and text of the formatters, and the sort by
  `record_date`.** The printed lines keep only what the properties compare.
- **`help`, unknown commands and the empty-line repeat of `cmd.Cmd`.** The
  first two only print. An empty line re-runs the last command, which
  behaves exactly as that command typed again.
- **The Python version checks.**
- **The admin script's `-d` option**, beyond printing: it only runs
  `rpiweatherd -v`.
- **`connect host badport`** ends in a ValueError traceback in one step (`ConnectWithArgs`); no run is spent on it.
- **The port range and integer width.** The code never does arithmetic on
  the port.

## Plan for later work

- A module for the sort of fetch entries by `record_date`, checked against a
  reference ordering over bounded inputs. This needs a model of the
  daemon's date format.
- A probe that hangs. `check_output(['systemctl'])` and
  `Popen.communicate()` have no timeout. Each probe is one atomic step
  here, so a hang is outside the model.
