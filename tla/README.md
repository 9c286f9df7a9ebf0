# Verification of mjump

mjump is a small SSH jump host: a user logs in over SSH, sees the hosts that
`config.json` grants, picks one, and is bridged to a shell on it; an SFTP login
sees the same hosts as directories. These modules model its concurrent and
stateful parts in TLA+, check them with TLC on small instances and prove the
central safety properties with TLAPS for every value of the constants.

## The system

| Part | State | Operations | Interacts with | Hard because |
|---|---|---|---|---|
| **Session bridge** `SwitchSession.Bridge` (`app/proxy/switch.go`) | two channels of capacity 1, `exitSignal`, the last activity, ticker | two reader goroutines; a select loop that forwards, resizes, times out | user's `WrapperSession`, remote `SSHConnection` | three goroutines, several stop reasons, a `done` channel nobody closes |
| **Proxy set-up** `Server.SSHconn` (`proxy.go`, `conn.go`) | `s.flag`, the TCP client, the shell, `refCount`, `traceSessionMap` | dial, acquire, shell, bridge, deferred clean-up; spinner; waiter | bridge, registry | every step may fail; an unsynchronized flag |
| **Session registry** `sessManager` (`sessm.go`) | a map | add, delete | all sessions | one key `"1"` for all of them |
| **Host panel** `DispPanel` (`app/sshd/active.go`) | hosts, page | Enter, n, b, r, h, q, host | configuration, proxy | page arithmetic; a list replaced under the page |
| **User input path** `WrapperSession` (`active.go`) | one pipe, `closed`, the window channel | `readLoop`, `Read`, `SetWin` | panel, bridge readers | several readers of one pipe |
| **Configuration, authentication** (`app/data/config.go`, `app/sshd/server.go`) | `config.json`, read anew every time | `Loadcnf`, `GetUser`, `PasswordAuth`, `PublicKeyAuth` | panel, SFTP | the file changes between two reads |
| **SFTP gateway** (`app/sshd/sftp.go`) | a cache of connections, open files | list, stat, read, write, rename, ... | configuration, `SSHClient` | cached connections die; commands with two paths; a removal of many requests |
| **Terminal line editor** (`app/utils/teminal.go`) | line, cursor, history, unread bytes | `ReadLine`, `Write`, `SetSize` | panel | escape sequences split over reads; pasting |
| Listener, process, logger | none of their own | start | | |

What makes each part correct: the bridge forwards in order and without a gap,
ends when a party leaves or nothing moved for the idle time, and does not end
otherwise; set-up releases what it acquired exactly once, whatever fails; the
registry names no dead session; the panel shows every host and no other; what
the user types at the menu reaches the menu; a login gets the hosts granted to
it; an SFTP command reaches the host its path names, and no file or
SFTP session opened on a remote host outlives it; the keys the user presses are
recognized however their bytes arrive, and the screen shows what the terminal has;
no session takes the server down.

## Modules

| Module | Models | Checked by | Proved in |
|---|---|---|---|
| `Relay` | what a session promises (abstract) | | |
| `Bridge` | the bridge: readers, loop, ticker, window changes | `bridge_*` | `BridgeProofs` |
| `ProxySetup` | `SSHconn`, spinner, waiter, registry, several sessions | `setup` | `ProxySetupProofs` |
| `HostPanel` | the panel's list and pages | `panel_paging` | `HostPanelProofs` |
| `MenuInput` | who gets what the user types | `menu_input` | `MenuInputProofs` |
| `KeyReader` | how bytes become keys and lines: `bytesToKey`, `readLine` | `key_reader` | `KeyReaderProofs` |
| `Recall` | what the terminal promises about its history (abstract) | | |
| `LineEditor` | the keys, the history ring, the screen: `handleKey`, `SetSize` | `line_editor` | `LineEditorProofs` |
| `Access` | the two reads of `config.json` by a load | `access_stable` | `AccessProofs` |
| `SftpGateway` | one SFTP session: connections, commands, files | `sftp_*` | `SftpGatewayProofs` |
| `RemoteTree` | the removal of a directory: `RedirAll` | `remote_tree` | `SftpGatewayProofs` |
| `MC*` | the instances TLC checks | | |

`PROJECT.json` maps every definition to its lines.

**Bridge.** `rpc[d]` is the place of the reader goroutine of direction `d`,
`held[d]` its buffer, `chan[d]` is `srvInChan` or `usrInChan`, `loop` is the
select loop, `p` the chunk it is writing. Each case of the select is an action
(`Take`, `ResizeSeen`, `ReturnClosed`, `ReturnContext`, `ReturnSignal`,
`ReturnIdle`, `SkipTick`); a write is a step of its own, so that readers,
hang-ups and window changes may come between. It waits while the peer's SSH window
is full: `unread[d]` counts what the peer of `d` has received and not yet consumed, at
most `Window` chunks, and may start anywhere, since the window belongs to the SSH
channel and the panel has written to it before. A write to a side that is gone fails.
Chunks are serial numbers: only their order and identity matter. Time is counted in ticks of 30 seconds; a
pending tick keeps its age relative to the last activity, because the code
compares the time carried by the tick with a `lastActiveTime` that may have moved
since. The implementation of `Relay` is checked and proved by
`open <- loop # "returned", quiet <- idle`.

**ProxySetup.** `pc[s]` walks through `SSHconn` with every failure exit and the
deferred calls in their order (`CloseShell`, `Unspin`, `Return`). The spinner's test
of `s.flag` and its write are separate steps; that is the data race. The bridge itself
is one step, which may never come. `crowded` is a history variable: the sessions that
ran beside another one.

**HostPanel.** A host is its position in the list. `Capacity` stands for what
Go's `append` allocates: a slice expression is legal up to the capacity, so
`d.hosts[art:end]` may print zero hosts before it panics. `seen` and `since` are
history variables for the properties.

**MenuInput.** A line the user types is one chunk. `readLoop` holds it in the
pipe until a reader takes it: the panel's `ReadLine`, or the user reader of any
session, running or finished. `Bridge` is reduced to its user side and to the places
where its loop can be: at its select, the only place it returns from, or in a write to
the remote host or to the user (`Forward`, `Output`, `WriteEnds`), where it sees neither
the user's hang-up nor any signal.

**Access.** `Edit` changes the file at any moment, also to something that does
not parse. `LoadHosts` and `LoadUser` are the two reads. `window` and `sound` are
history variables: the versions the file held during a load, and whether it was
readable and named the user ever since the login.

**SftpGateway.** `at` walks the request server's single command worker through
`getRemotHost`, `GetSftpCon` and `CreateSftpConn`, each failure exit included, to
the remote command, and then `SFTPHandler` through its end. `cache` is `uConn.fc`;
clients are numbered as they are dialed, and `sess`, `waiter` and `refs` are the SSH
session under a client, the goroutine in `Wait`, and `refCount`. A file is closed
twice: by the request server (`Close`), which then cancels the request's context,
and by the goroutine that waited for it (`Watcher`). pkg/sftp 1.13.5 sends the
handle both times, and `table` is what the remote host keeps under each handle.
`clean` is a history variable: nobody claimed the handle when it was given out.

**RemoteTree.** One step of the worker in `SftpGateway` (`Executes`) unfolded: `calls`
is the stack of the calls of `RedirAll` that have not returned, each with the path it
removes and what is left of its listing. `tree` says what is at each place of the remote
host, a place being the sequence of names that leads to it. Every request names a path
and follows it anew (`Route`): through the links on the way (`Opens`), while a removal
takes the link at the end itself (`Entry`) and a listing describes it. `Client.Remove`
also removes an empty directory. Every request may be refused, and between two of them
other clients may put anything anywhere, remove it with all that is in it, or replace it
(`Meddle`): also a listed directory by a link of the same name. A move is a removal at
one place and an adding at another. The tree is any one in which what exists is in a
directory (`IsTree`); a chain of links is taken as one link to its end. `diverted` is a
history variable: a path in the walk's hands has come to lead elsewhere than before.
Names are prefixed (`TreeInit`), since `SftpGatewayProofs` extends both modules.

**KeyReader.** Bytes are classes, as many as `bytesToKey` tells apart. `wire` is what
`readLoop` writes, `rem` is `rest` and `remainder`; a `Read` returns after any number
of bytes (`Fill`, `ReadReturns`). `lexed` is a reference beside the code: an automaton
that sees every byte once and lists the keys that are due. A line is empty or not,
which is all `readLine` asks of it; `typed` is a history variable. The panel and a
session are reduced to what they do to the terminal and to the pipe.

**LineEditor.** `line`, `pos` and the history variables are the code's, with one
character per rune and positions from 0. `term` holds the terminal's own idea of the
screen (`cursorX`, `cursorY`, `maxLine`, `termWidth`) beside the screen: its cells, its
cursor, and whether the last column has just been filled. Every key updates both with
the code's sequence of outputs. Terminals differ in what they do to long rows when a
window gets narrower, so `exact` is false from then until the screen is cleared. The
ring implements `Recall` by `past <- Past`: entry `i` is `NthPreviousEntry(i - 1)`.

## Runs

| Run | Shows | Bounds |
|---|---|---|
| `bridge_safety` | order, accounting, bounded loss, `Relay` implemented | 3 chunks per side fill the channel, the buffer and the loop's hands at once; a window of one chunk, open or full at the start; idle limit of one tick; one resize |
| `bridge_live` | a hang-up ends the session; chunks are delivered; silence ends the session, though writes wait for the peers | 1 chunk per side, a window of 1, 1 resize |
| `bridge_window` (violation) | a window change is lost while the loop writes | 2 sizes |
| `panel_paging` | pages, crashes and empty rows only for the stated reasons | 13 list lengths around every multiple of ten and both sides of the capacities |
| `menu_input` | a finished session takes at most two lines; if the remote hosts answer, no panel outlives its user and q works in the end | 2 sessions, 1 line ahead |
| `setup` | stray writes, counts; the registry names no dead session and misses none that ran alone; clean-up | 2 sessions |
| `access_stable` | mixing two reads is safe when IDs are stable | 4 versions, any order, any moment |
| `sftp_gateway` | right host, no stray or miscounted session, clean files survive, everything ends with the user | 2 hosts, 2 connections, 3 files on 1 handle |
| `sftp_cross` (violation) | a rename between two hosts is carried out on the first | 2 hosts, 1 connection |
| `remote_tree` | what a removal removes and reports, and that it ends | 8 places: a directory with a directory in it, a file, a link out of it and a link to it, another directory with the same names; any of them may be named; 3 changes by others |
| `key_reader` | keys as in the whole stream; no key left waiting; pasted lines; the end of the user | a buffer of 3 bytes, the length of the longest key here (6 in 256 in the code); keys typed without an end |
| `line_editor` | the screen, the words, local edits, `Recall` implemented | lines up to 3, windows 1, 2 and 3 columns wide, a history of 2 lines of at most 1 character |

Two sessions are enough for the registry and the pipe, since every property
relates at most two sessions; the theorems do not depend on the number.
`bridge_live` is smaller than `bridge_safety` because its graph is searched for
cycles, and one chunk per side already shows every position of a chunk. Three
characters and a prompt of one column fill rows exactly and over the edge in every
width, so that a line wraps up to four times; a history of two wraps its index after one more line. A buffer of three bytes is filled by
the longest key and by a sequence that does not end; a buffer of four, with a byte to
spare, shows nothing else (2.2 million states, not kept as a run). One
handle makes every late close hit the next file; three files let a file be
harmed by one that was itself harmed. Deadlock is not checked: every part really
comes to rest (a session is over, the bounded user has nothing left to do).

### What the violations say

* `WindowFollowed`: `SetWin` (active.go:323) offers the size without waiting; the
  comment in the loop says the size is watched.
* `CrossHostRefused`: `Rename` and `Symlink` look both paths up with the first
  path's host (sftp.go:330), so that the comparison at sftp.go:334 never fails.

Others are pinned down by properties that hold, and state the exception themselves.

* `WalkComplete` excludes lists whose length is a multiple of ten: the end of the last
  page is `art + len % 10` (active.go:136), so that with ten hosts Enter, which the help
  says shows the hosts, shows none.
* `StolenBound` and `QuitWorks`: the help promises that q leaves, but a reader that a
  finished session left behind may take it, twice per session at most.
* `CrashCause`: the README promises that editing `config.json` needs no restart, but an
  unreadable file at the wrong moment leaves a nil panel, which a new goroutine uses.
* `WaitsForInput` excludes a byte that is in no rune: `bytesToKey` answers it as it
  answers a partial sequence, and the keys behind it wait until more input comes. The
  comment at teminal.go:855 says that only a partial sequence is left over.
* `GoneLeaves` of `KeyReader` excludes a sequence that fills the buffer without ending:
  `Read` then gets no room and returns at once while there is something to read, and
  `readLine` neither takes a byte nor learns that the user is gone.
* `PastedOnly`: the panel does not know `ErrPasteIndicator` and ends at a pasted line.
* `WordsFound`: the comment at teminal.go:383 promises "the number of characters from
  the cursor to the start of the previous word". That is false when this word starts at
  position 1: the loops stop there, and the key goes to position 0, over the blank in
  front of the word. `WordsFound` claims nothing for that word; without the exception
  TLC finds it.
* `ErrorHasCause`, `OnlyInside`: `rmdir` of a link to a directory removes what the
  directory holds, and then fails.
* `OnlyInside`: `IsDir` is of the listing, and the path is opened later. When a link has
  taken the place of a listed directory in between (or of one above it), `RedirAll`
  follows it and removes what it leads to, outside the directory the user named.
  `OnlyInside` claims nothing from that moment on (`diverted`); without the exception
  TLC finds it. No document promises otherwise.
* `GoneLeaves` of `MenuInput` and of `KeyReader`: a session whose loop waits in a write
  to a remote host that does not read (switch.go:126) outlives its user.

Some behaviours the models show without contradicting a document.
The two reads of `config.json` may mix versions: `ListRight` holds
under `StableIDs` (an ID always names the same machine), and a renumbered file
breaks them. A file that is not `clean` may be closed by another one's late second
close. A connection that died stays in the SFTP cache, and every later command for
its host fails until the user logs in again. An escape character makes the terminal
skip to the next letter, over an Enter or the end of a paste. A pasted line may grow
beyond `maxLineLength`, and typing, which tests with `==`, may then go on.

Two more divergences concern text only and are not modelled: conn.go:57 says
15 minutes where the code waits 15 seconds, and switch.go:100 logs 60 minutes
where the limit is 120.

## Fairness

* Every runnable goroutine runs: weak fairness of each step of a goroutine.
* `select` picks among its ready cases with uniform probability, so a case that
  is ready again and again is taken: strong fairness of each case.
* Waiters on a pipe are served in turn: strong fairness of the panel's read.
* A write to a side that is gone ends. A write to a side that is there waits for its
  window, and nobody has to read: `HangUpEndsBridge`, `EverythingDelivered` and
  `SilenceEndsBridge` name as their premise that a side consumes what it gets. Without
  it they fail: one loop writes in both directions, so that a peer that stops reading
  stops the other direction, the context test and the idle limit, and a remote
  program that stops reading because its own output is stuck stops the session for good.
* `MenuInput`: `Bridge` need not return while it waits in a write. A write to a user who
  is gone ends; that the remote hosts answer or fail the requests of a dial (only the TCP
  connection has a timeout) and consume what they are sent (`RemotesAnswer`) is a premise
  of `GoneLeaves` and `QuitWorks`.
* `ProxySetup`: nothing is assumed of `SSHconn` and of the bridge. The spinner tests its
  flag, and `Wait` returns once the shell is over; that a write of the spinner ends is a
  premise of `CleansUp`. That the end of the shell brings the user back is the bridge's
  matter (`HangUpEndsBridge`).
* `KeyReader`: only the handler's goroutine runs. That a session ends when its user is
  gone is a premise of `GoneLeaves`.
* `RemoteTree`: every request is answered, or fails when the connection ends.
* `Bridge`: the clock need not advance; `SilenceEndsBridge` assumes it in its own
  statement, and what the others show does not rest on the timeout.
* `SftpGateway`: the worker, each watcher and each waiter run; a dial, a request
  and a close are answered or fail.
* Nothing is assumed of the user, the remote shell, or the editor of the file,
  except where a property says so (`QuitWorks`: the user keeps typing q).

## Proofs

All theorems hold for every value of the constants under the assumptions named
in the modules. The pattern is one lemma for the initial states, one for the
steps, and temporal logic for the rest. The type invariants are theorems
(`TypeCorrect`) and not checked again by TLC, except in `LineEditor` and `RemoteTree`,
whose types say more than where a value comes from: that a cursor is in its line and
window, how calls are nested. `Causes` and `PageInList` belong to inductive invariants
and are proved only.

* **Bridge.** `IInv == TypeOK /\ Accounting /\ Causes`. `Accounting` alone is not
  inductive without the types; `Causes` needs `Accounting` for the reader that
  stops (it has read everything its side sent). `LossBound`, `ExitNeverBlocks` and
  `TailLoss` follow from `IInv`: both tokens of `exitSignal` belong to stopped
  readers, so a reader about to send finds room; when the server's reader has
  stopped, everything sent is received, in the channel, or in the loop's hands.
  The refinement takes every step to a relay step or a stutter: only `Write`
  delivers, and `Accounting` says that it delivers the next chunk; the loop returns
  only for a reason, and `Causes` turns the reason into a hang-up or a silence.
* **HostPanel.** The invariant adds that `hosts` comes from `HostCounts` and that,
  between refreshes, `seen` is exactly what pages `1..page` show.
* **MenuInput.** What a finished session stole sits in its channel or its reader:
  `stolen[s] <= Len(chan[s]) + (1 if it holds one)`, once it no longer runs.
* **ProxySetup.** For `StaleBound`: a screen that is over has the flag set or the
  main goroutine past it, so a spinner with one stale write is back at its test and
  will not draw. For `RefsBalanced`, who owns the shell at each `pc`. For `RegistrySound`:
  the entry is of a running session, and a session that has run alone so far finds its
  own entry there, since two that run at once are both `crowded` (`Beside`).
* **Access.** `hosts` is what one version in `window` lists and another grants;
  under `StableIDs` such a mixture is within one version's grant (`MixedGrant`).
* **SftpGateway.** `WorkInv` says what the worker knows at each step, `ConnInv` that a
  cached client is connected to the host it is cached for, `FileInv` that nobody else
  claims the handle of a clean file; with the types and the properties themselves
  they are inductive. A late close frees only a handle its own file claims, and so
  not that of a clean file.
* **RemoteTree.** Three facts are inductive with the types. `Nested`: every call but the
  innermost has a listing, and the path of each is its caller's and one name more.
  `Straight`: until the walk is diverted, every path in its hands leads to what the
  root's path opens or below it (`OpensAppend`, `OpensStraight`); what a request removes
  is therefore below it too, or the root's own entry (`OnlyInside`).
  `Undisturbed`: while nobody refuses or meddles, what is listed exists and what exists
  is listed, so that no request fails (`ErrorHasCause`). An empty directory has nothing
  below it at any depth (`EmptyBelow`, from `IsTree`), which gives `SuccessMeansGone`. A
  path is followed by a recursive function; that it is total and typed is shown by
  a least counterexample (`RouteFollowed`).
* **LineEditor.** `LineType /\ HistoryType` is inductive. Words: the two loops of
  `countToLeftWord` are a greatest blank before a greatest non-blank, and `LeftWord`
  shows that a start of a word follows it. Refinement: a key that is not Enter leaves
  `Past` alone, `AddShifts` says that the next slot of the ring holds the new line and
  every other entry moves one back, for every depth.
  `ScreenShowsLine` follows from `Painted /\ Bounded`, which is inductive with the types:
  the terminal knows the row and column of its cursor (`Stands`); the screen's cursor is
  there and the screen shows the prompt and the line (`Sees`); `maxLine` is not less than
  the last row of the line, without which a key at the end of the line could go to a row
  that a repaint does not clear; and remembered lines fit on the screen. A screen is
  compared with a picture, a function of the number of a character, so that the wrapping
  of rows is arithmetic (`NextPlace`, `FurtherPlace`) and is dealt with once, in
  `DrawOne`. `WriteLineWrites` and `QueueWrites` carry it to texts of every length: the
  two ways of sending a text, row by row in `writeLine` and at once with one
  `advanceCursor` behind it, do the same. `Redraw` is what the keys have in common, and
  says how many blanks a shorter line needs. The proofs assume what the bounds of the
  model mean: there is a widest window, a line that enters the history is not longer than
  a line may be, and the screen has a row to spare below the longest line, since
  scrolling is not modelled.
* **KeyReader.** `Len(rem) <= BufLen` needs that `bytesToKey` returns a suffix
  (`RestType`); `PastedOnly` needs that a line that was begun empty in a paste stays so.
  `KeysInOrder` and `WaitsForInput` compare `bytesToKey`, which looks at a buffer again
  and again, with `lexed`, which sees each byte once. `Reads` links them: the keys
  recognized are `lexed` without what the automaton finds in `rem`, started afresh
  (`Lexes`). `FindsFirstKey` says that the first key of a buffer is the same for both, and
  `LexBehead` that the automaton restarted behind it finds the rest. The induction over
  the bytes is a least counterexample, a number, and not a rule with a parameter.

Only model-checked: the liveness properties (the prover does not reason about
`ENABLED`).

## Not modelled

* Of the terminal: `Write` while a prompt is on the screen, `ReadPassword`, `ReadLines`,
  `SetBracketedPasteMode` and the completion callback, which the program never uses
  there, and characters that are not one column wide.
* In the SFTP gateway: `ListAt`, the listing of `/`, the joining of paths. None of them
  keeps a state.
* The TCP connection of a session: `tcp` becomes true and never false again,
  because no code closes the client. The same holds for the connections of the SFTP
  gateway, where only the SFTP session on them is closed. No document promises otherwise.
* `WrapperSession.Close`: nothing calls it. `s.ctx` and `sw.MaxIdleTime`: nothing
  reads or cancels them.
* The listener and `main`: they wire handlers and wait for a signal. The logger: it formats
  lines, and nothing reads what it keeps.
