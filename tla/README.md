# git-veil, formally

TLA+ models of git-veil (the Rust crate at the root of the repository): how a
machine comes to trust a repository, which keyring it acts on, what its
commands do to secrets on disk, how the key store is kept, and which file a
command means. TLC checks the models on small instances. For all of the
safety properties the TLA+ proof system proves the same statements for every
value of the constants, some under hypotheses that section 4 names.

## 1. The system

git-veil keeps secrets in a git repository as ciphertexts `<file>.secret` beside
git-ignored plaintexts. It is a command-line program without a daemon, a lock or
a network connection. Every command is a process that reads a few files, computes
and writes a few files, and any number of them may be started at once. Three kinds of state exist.

| state | where | who can change it |
|---|---|---|
| repository content: `.git-veil/keyring`, `trust.json`, `owner.verifying`, `tracked.json`, the `.secret` files | the clone | commands, and **git**: anybody who can push |
| key store: pins, freshness baselines, ring-change stamps, allowance records, acknowledgments, verifying and signing keys, identities, recipients | `~/.git-veil` or so, per machine | commands, and `chmod` |
| plaintexts, `.gitignore`, the git index | the clone | commands, editors, git |

### Components

| component | state | operations | model |
|---|---|---|---|
| signed keyring (`keyring.rs`, `signing.rs`) | entries, counter, signature | parse, add and remove entry, bump, sign, verify | `Keyring` |
| verification and freshness (`verify_keys.rs`, `trust_store.rs`, `fingerprint.rs`) | pin, verifying keys, baseline | the gate every command passes | `RingTrust`, `FreshAcceptance` |
| keyring curation (`add_key.rs`, `remove_key.rs`, `key_discovery.rs`) | keyring, stamp, allowance | add-key, remove-key | `RingTrust`, `Passes` |
| trust ceremony (`init.rs`, `export_pin.rs`, `trust.rs`, `pin_file.rs`) | all of `.git-veil`, pin, baseline | init, export-pin, trust --import | `TrustAnchor`, `RingTrust` |
| clean (`clean.rs`) | `.git-veil` | clean, whole or stopped half-way | `TrustAnchor` |
| hide, reveal, rotate | plaintexts, ciphertexts, stamp | the three passes | `Passes`, `Vault`, `Worktree` |
| manifest (`add_file.rs`, `allow.rs`, `remove_file.rs`, `allowance.rs`, `tracked_files.rs`) | `tracked.json`, allowance records, `.gitignore` | add-file, allow, remove-file | `Manifest`, `Vault`, `Worktree` |
| path resolution (`tracked_files.rs`) | none | what is typed to a tracked path | `Paths`, `Worktree` |
| atomic replacement (`fs_atomic.rs`) | a temp file and its target | `write_atomic` | `AtomicWrite`, `AtomicFile` |
| key store files (`import.rs`, `forget.rs`, `age_crypto.rs`, `permissions.rs`) | identities, recipients, acknowledgments, modes | import, forget, trust-permissions, the permission gate | `KeyStore` |
| repository identity (`repo_identity.rs`) | none | a pure function | ids are values |
| reporting commands | none | cat, changes, list, list-keys, whoami, repo-id, fingerprint | what cat and changes open: `Worktree` |
| command line, CODEOWNERS notice | none | none | the gate before a command: `KeyStore` |

### How they interact

*init* proves possession of the owner key's seed, writes the four files of
`.git-veil` and pins the key. *export-pin* produces a pin-file that travels
outside the repository. *trust --import* compares it with the committed key and the
committed fingerprint and pins it on another machine. From then on every gated command first runs
`verify_keyring_against_trust`: the record agrees with the pin, the ring is
signed by the pinned key, and the ring is neither older than the baseline nor a
different ring of the same version. *add-key* and *remove-key* then read the
keyring again, edit, bump, sign and write it, and stamp the ring as due for a pass. *rotate*
consumes the stamp by re-encrypting every tracked ciphertext to the new ring.
*hide* and *reveal* carry single secrets across. *import* and *forget* keep the
identities that reveal and rotate decrypt with. The components share no memory.
All interaction is through files, so everything that goes wrong does so between one
process's file operations.

### What is hard

- **Stale checks.** A check reads one file, the action it allows reads or
  writes another one later. git, another command or an editor may have acted in between.
- **Deaths.** A command makes up to seven writes. Each is atomic, the sequence is not.
- **Adversarial content.** Whatever lies in `.git-veil` may have come from
  anybody who can push. Rollbacks, forks, hand-edited counters and planted `tracked.json` entries are ordinary inputs.
- **Two-phase passes.** One write of several may fail, and a retry meets the files that the failed pass already did.
- **Several names for one file.** Commands resolve what is typed in four different ways; links appear and disappear in between.
- **Self-inflicted refusals.** git-veil loosens file modes itself, and its own gate then refuses them.
- **Numeric edges.** The counter ends at `u64::MAX`, and "no version", "version 0" and "unsigned" compare alike.

`PROJECT.json` lists each place under `hazards`, with the property that covers it.

### What makes each component correct

- *Verification*: accepted rings form a chain of growing counters between two
  re-pins; the baseline is that chain's last element; acceptance is under the pin of that moment.
- *Curation*: the stamp names the ring that was written; a ring change always arms a pass.
- *Ceremony*: repository content never supplies its own anchor; a death, also of a clean, costs another attempt and no more.
- *Passes*: a content is never lost; a delivered pass left nothing encrypted to former members; a due pass is delivered in the end.
- *Manifest*: nothing is encrypted for the first time without this machine's consent; nothing committed falls out of the manifest unnoticed by a pass.
- *Names*: whatever commands accept a spelling mean the same file by it; what add-file stores never makes the manifest unreadable; what it adds, git ignores.
- *Atomic replacement*: a file holds what some call asked for, whole, or what it held before.
- *Key store*: no line is lost but by a forget of it; a forget that succeeds is complete and one that died can be completed; an acknowledgment opens the gate.

## 2. The modules

| module | what it holds |
|---|---|
| `Keyring` | rings, signatures and edits as data |
| `RingTrust` | EXTENDS `Keyring`: any number of machines and processes; verification, add-key, remove-key, re-pinning, git, deaths |
| `FreshAcceptance` | abstract specification: what freshness promises, with neither files nor processes |
| `RingTrustProofs` | its theorems |
| `VaultState` | one clone's files and the processes on them |
| `Passes`, `Manifest` | EXTEND `VaultState`: the actions of hide, reveal, rotate and ring changes; of add-file, allow and remove-file |
| `Vault` | EXTENDS both: adds editors, git and deaths, the specification and its properties |
| `Interference` | EXTENDS `Vault`: for each promise, who has to wait for a command in flight or what they must leave alone, and no more |
| `VaultProofs`, `PassProofs` | the type invariant of `Vault`; what the passes promise under those conditions |
| `TrustAnchor`, `TrustAnchorProofs` | init, export-pin, trust --import, renames, clean; theorems |
| `AtomicWrite` | `write_atomic` step by step, with failures, deaths, reused process ids and power cuts |
| `AtomicFile` | abstract specification: files that are replaced whole |
| `KeyStore` | EXTENDS `AtomicWrite`: the key store's files, its commands and the permission gate |
| `AtomicWriteProofs`, `KeyStoreProofs` | that the first implements `AtomicFile`; theorems about the key store |
| `Paths` | names, spellings, trees and the walk of `canonicalize` in them, `.gitignore` lines |
| `Worktree` | EXTENDS `Paths`: one clone with links, and which file add-file, remove-file, hide, reveal, cat and changes mean |
| `PathProofs`, `WorktreeProofs` | what the operators of `Paths` return for every tree and path; the theorems on `Worktree` |
| `MCRingTrust`, `MCVault`, `MCTrustAnchor`, `MCKeyStore`, `MCWorktree` | the instances the `.cfg` files use |

`RingTrust`, `Vault`, `TrustAnchor`, `KeyStore` and `Worktree` are five views of
one system, and each takes for granted what another one is about. `Vault` takes
it that verification lets only good rings through (`RingTrust`) and that a
path names one file (`Worktree`). `RingTrust` takes it that pins come from
outside (`TrustAnchor`). All take it that a write is one step, which is what
`AtomicWrite` implements. `Worktree` has every spelling and link but runs one
command at a time, whole; the steps of a command and what comes between them are `Vault`'s.

### Correspondence

A process is a record with a program counter `pc` and the Rust function's live
locals. **One step is one file read or one file write together with the pure code
around it.** `write_atomic` is what makes a write one step. An early return is
an `Exit(p)`, or a start that is not enabled when nothing was written yet. Exit codes are noted beside the guards.
`PROJECT.json` "map" names the lines of each definition.

*RingTrust.* `worktree[m].claimed` stands for `owner.verifying` and `trust.json`
where they agree, and is `None` where there is no record. `VerifyTrust`,
`VerifyFreshness` and `RecordBaseline` are `verify_keyring_against_trust`;
`Reread`, `WriteRing`, `WriteStamp` and `PurgeConsent` are the rest of add-key and
remove-key; `ImportPin`, `WritePin` and `ClearBaseline` are the per-machine
writes of the ceremony. `Git(m)` puts into a clone any content anybody ever signed or any
hand-edited one, beside any signature block ever made. `signed`, `current` and
`own` are observations; only `Git` reads one (`signed`), to know which signatures are in circulation.

*Vault.* `plain`, `cipher` and `index` are the plaintext, the ciphertext on disk
and in the git index; `exposed` are plaintexts in the index. `todo` and `ready`
are the loop variable and the prepared outputs of the two-phase commands, `list` the manifest a command has loaded. A
failed `write_atomic` is `WriteFails`: the loop goes on and the command stops after it.
What rotate reads before phase 1 it reads one file at a time, in the order of the code: the ring (`RotateStart`), the stamp
into `due` (`RotateGate`), the ring again (`RotateMatch`), the manifest (`RotateLoad`), the index (`RotateOrphans`), and which ciphertexts are there,
path by path (`RotateScan`). add-key and remove-key write, stamp and purge in `RingWrite`, `RingStamp` and `RingPurge`.
`.gitignore` is the one file written in place, by `AddFile` (truncated) and `AddAppend`. A consent record is
read into `lines` and written back whole (`ReadRecord`, `WriteRecord`).
`Restore` is `git checkout` of a ciphertext that is gone or, with `Checkouts`, of one that was written since the commit.

*TrustAnchor.* `dot` is `.git-veil`, file by file. `InitStart` has the gates of
init; the four `Init...` writes, `AppendKey`, `RecordFingerprint`, `WritePin`
and `ClearBaseline` follow in the order of the code. A fingerprint is the pair of id and key it is a digest of.
`CleanStops` is a `remove_dir_all` that ended after some of the files.

*AtomicWrite.* `disk` and `temp` are the targets and the `<name>.tmp-<pid>`
files with content, mode and whether they were synced; `job[p]` is the call p
is in. `left[n]` is what the journal of the file system may still hold under a name, so a
power cut picks from it (`LosePower`); a file whose content was not synced comes back torn. The
refinement mapping lets a replacement take effect at the rename.

*KeyStore.* A file is a bag of lines, because the code finds keys line by line
and never looks at their order; a private key and its public half are one `Key`, a
line that does not parse is `Junk`, and a line of the acknowledgments is a pair of place and
mode. `Begin` is the dispatch with its permission gate, which `trust-permissions` alone
passes by. `Forget` and `ForgetNext` are the two rewrites of forget on the strength of two reads.
`AppendRecipient` is what init and trust --import do to `recipients.txt`.

*Worktree.* `tree` maps absolute paths to files, directories and links. A name
is the sequence of its dot-separated parts, so that `x.y` and `x` are told apart and
`CiphertextOf` appends a part. `Resolve(verb, s)` is `resolve_repo_relative_input` in the
mode its caller passes: canonicalising or as it stands, checked or not. Each
command is one step, from the names typed to everything it wrote, including what it
had written before the name it refused.

### Simplifications

- A digest is its content; signatures cannot be forged; encryption is a set of recipients.
- *RingTrust*: the order of keyring entries and several entries for one mailbox
  in a hand-edited file keep no order; the reads before the baseline read are one
  step; recipients imported with a pin-file, the CODEOWNERS notice and pins in the 16-digit format of old releases
  (which only cause refusals) are left out.
- *Vault*: one clone, one pin; one principal (`Me`) works in it, so there is one consent record, which only the removal of `Me` purges; verification
  is passed; the gates that hide evaluates before phase 1 are one step, and so are the entry and key lookups of reveal; the private keys
  that rotate decrypts with do not change; the
  ciphertext-ignored refusal (40) and odd paths (71) are in `Worktree` instead; the
  tracked-plaintext warning (41) is left out; add-key and remove-key before their write are one step with it;
  the order of files is arbitrary, which contains the code's order.
- *TrustAnchor*: one machine and one ceremony at a time; verification is one
  step; the reads of `trust.json` and of the remotes (`trust.rs:250`, `261`) are one step with the write of the record
  (`trust.rs:265`), so a record that git changes in between is not overwritten here; forks are left to `RingTrust`; two equal seeds in one store, the
  location check of pin-files and CODEOWNERS are left out.
- *AtomicWrite*: parent directories exist; `fsync` tells the truth.
- *KeyStore*: the order of lines, comments and blank lines are left out;
  `signing-keys.txt` is only a mode; export reads and prints, so it is no
  action; `--dangerously-skip-permissions-check` is a field (`skip`) of the command line that only decides at the gate.
- *Worktree*: a path whose parent is no directory counts as absent, which the regular-file gate accepts; `tracked_files.rs:83` refuses it
  there, hide and reveal here when they open the file; keyring gates, the allow command and nominations that come with a
  pull are `Vault`'s; the case-insensitive match against the index and chains of links
  (`WellFormed`, `LinksAssumption`) are left out, and editors and git make files only in
  directories that exist; directories come and go in no step; encryption is a depth, for a ciphertext may be added as a secret itself.

## 3. What is checked

Bounds: `MaxVersion` ends the counter (for `u64::MAX`; two is enough for
a rollback, a fork and an overflow in one behaviour), `MaxFaults` bounds deaths
plus failed writes (and power cuts, and cleans that stop), `MaxMoves` bounds
renames, `MaxChmods` modes changed for the worse, `MaxLines` how often a line
is repeated in a store (two is a repetition), `MaxEdits` edits plus files replaced by a
link, `MaxDepth` how often a content is encrypted. Two files show an interrupted loop, two keys of
each kind a replacement, two machines a fork, two names on one command line a name refused after another was done.

### Runs that pass

| run | question | bounds |
|---|---|---|
| RingFreshness | Is the baseline the last accepted ring, are rings accepted only under the current pin, do they form a chain (`FreshAcceptance`), does a stamp name what was written? | one machine and command, two owner keys with a pin-file each, one principal, counter to 2, git moving even during commands, a baseline left by an old release, unsigned and hand-edited rings, deaths anywhere |
| VaultCeremony | Is revocation remembered until a pass delivered it, is a due pass delivered in the end, and is every content kept, also when one of several writes fails? | one command at a time; two files, two ring changes, one fault, fairness below; no death between ring and stamp (see VaultUnstamped), no remove-file and no checkout of an older ciphertext (see deviation 7) |
| VaultOverlap | Do the promises about secrets hold when commands overlap, if nobody does what `Considerate` excludes? | two commands at once, one secret with two contents, every command but add-key, one ring change (the owner removes her own key, which purges her consent too), pulls that nominate paths, checkouts of older ciphertexts, editors and git at any moment, one fault; processes and contents are symmetric |
| AnchorClaims | Do pins come only from the possession proof or outside pin-files? | three keys (own, vouched for, nobody's), every combination of claims at any moment, a rename, a death or half a clean |
| AnchorRecovery | Does the owner anchor the repository in spite of deaths? | two own keys, fairness below, three deaths of ceremonies or cleans |
| KeyStore | Are files replaced whole (`AtomicFile`), is no line lost, does forget complete, does an acknowledgment open the gate? | two keys, three modes, one command at a time through all steps of its writes, one death, failed write or power cut, one chmod; a store that is missing, has a repeated key, has a line that does not parse |
| Names | Do commands mean the same file by one spelling, does the manifest stay readable, are contents and ignore lines kept? | three secrets (one whose name begins with another's, one in a directory that a link leads to as well), fourteen spellings, one edit or file replaced by a link, `git add -A` at any moment, a `.gitignore` with an unterminated last line |

VaultCeremony runs one command at a time, which is how the code is meant to
be used. VaultOverlap starts two at once and lets editors and git in between any two steps; its
`ACTION_CONSTRAINT` takes out single steps that a promise does not survive, so that a
process that may not move now can move later. What it leaves in is most of the races: a pull or an add-file behind hide's gates, a pass that overlaps
a hide, a reveal or another pass, an edit behind a reveal's read, a remove-file behind a rotate's scan, a checkout behind its gate. No part of `Considerate` is idle: with any one
taken out TLC finds its promise broken (for `RecordWaits` and `ManifestWaits`, with a second file, since the update that is lost is
of another one). Deviations 5, 12, 14 and 24 are traces of that kind.
`PassKeepsContent` is checked in VaultCeremony only; `ContentKept` below says it of overlapping commands.
In both runs processes die at the program counters of `BetweenWrites`, between two writes or before the first one. A death while a command only reads
leaves what a command that was never started leaves, so nothing is lost by its absence. This machine holds one private key (`ka`).
`StaleIsDue` with overlapping commands has a condition of its own, which excludes more, and is left to
the theorem `RevocationRemembered`. `RingTrust`
has as many machines and processes as its constants say. RingFreshness needs only one of each
because the theorems below cover the others. The temp files of two processes
on one name have different names, so what two writers do to each other is a
lost update, never a torn file; `StoreWritesAtomically` below says so for any number of them.

RingFreshness leaves `stamp`, `consent` and `own` out of TLC's fingerprint (`VIEW`): no step
reads them, and `StampNamesWrittenRing` looks at a step at which `own` is what the process has just written.

### Runs that end in a counterexample

Each refutes a statement of the documentation or of a comment.
`PROJECT.json` "findings" has line and quotation.

| run | what the trace shows |
|---|---|
| RingOwnFork | a machine that just signed version N accepts another machine's version N, because only the ring it verified is in its baseline |
| VaultUnstamped | a death between ring and stamp: nothing records that a pass is due, rotate refuses |
| AnchorRename | after a rename no ceremony can write the new id's record |
| StoreForget | forget rewrites `identities.txt` with the mode of the umask, and the next gated command refuses the store |
| NamesGlob | `x` and `x.secret` are both tracked; a hide of both writes one's ciphertext over the other's plaintext and then deletes it |

### Deviations without a run

Met while modelling, and visible in the modules, but not given a run of their own.

1. `verify_keys.rs:209-232` reads, compares and writes the baseline without a
   lock: of two overlapping verifications the one of the older ring may write last (`RecordBaseline`).
2. `add_key.rs:87`: `--signing-key` accepts any key of the store, and no machine
   accepts the ring it signs; the comment above says add-key "must sign with the trusted key" (`Signers`).
3. `verify_keys.rs:197-209`: an unsigned empty ring counts as version 0, so it
   passes on a machine whose baseline is 0; `design.md`, Algorithm 5, refuses it on any baselined machine (`Fresh`).
   The counter of an unsigned empty ring, which anybody may have edited, is carried into the first signed one (`keyring.rs:184`).
4. `remove_key.rs:95` purges the allowance record of the email as typed, the
   record was written under the principal's own casing (`PurgeConsent`, `RecordConsent`).
5. `hide.rs:302` deletes the plaintext without comparing it with what it
   encrypted: an edit saved in between is lost (`HideDelete`; `LeavesHidden` is the condition that excludes it).
6. `reveal.rs:73` decrypts only with the key of the principal's present entry;
   after a key replacement it refuses what the old key on the same machine opens, until the pass (`EntryKey`).
7. `rotate.rs:237` skips a tracked path whose ciphertext is missing from the
   worktree, as `design.md` says, and consumes the stamp: when git restores the file it is
   still open to former members and no pass is due. A remove-file that
   dies or refuses half-way leads there, and so does re-adding a file that was removed with `--keep-ciphertext` before its ciphertext was committed (`RotateScan`).
   A `git checkout` of an older ciphertext over a rotated one has the same effect (`Restore` with `Checkouts`).
8. `remove_file.rs:43` refuses a later name after deleting the ciphertexts of
   earlier ones (`RemoveRefuses`); `remove_file.rs:51` deletes a ciphertext that was never committed (`RemoveFile`).
9. `add_file.rs:136` truncates `.gitignore` in place (`AddFile`, `AddAppend`).
10. `trust.rs:273` clears the baseline after the pin is written; a death in between leaves the old ring's baseline under the new pin (`ClearBaseline`).
11. `init.rs:58` takes a `trust.json` of the first releases for an empty one and resets the keyring and the manifest (`InitStart`).
    It refuses a record that a clean left behind half-way (`HalfCleaned`); only another clean or `rm` helps.
12. `rotate.rs:295` writes over a ciphertext that a hide replaced after phase 1 read it; the hide then deletes the plaintext,
    which was the only copy of the new content (`RotateWrite`, `HideDelete`; excluded by `RotateWaits` and `LeavesHidden`).
13. `add_key.rs:64` reads the keyring again after the verification; what git put there in between is edited and signed (`Reread`).
14. Every store file is read, changed and written back whole: `tracked.json`, the allowance records,
    `identities.txt`, `recipients.txt`. Of two overlapping commands one update is lost (`LineKept`, `ManifestWaits` and `RecordWaits` name the case).
15. `forget.rs:131`: the danger guard counts lines, so a repeated only key goes without `--yes`, and forget drops comment
    and blank lines; `commands.md:173-176` calls the guard one for "the only" key and the rewrite "lossless" (`OnlyLine`).
16. An acknowledgment is a set of (path, mode) pairs and outlives a fix: the same mode later passes again, although
    `commands.md:331` says that any later change fails until it is acknowledged (`GateOpen`).
17. `create_dir_all` leaves a new store directory with the mode of the umask, so the command after the first import refuses it (`MakeDir`).
18. A temp file left by a dead process keeps its mode when a later process with the same id opens it, so
    `identities.txt` may land group-readable; a dead import or forget leaves private keys in a temp file, a dead reveal
    a plaintext in one that no `.gitignore` line covers (`OpenTemp`, `Die`).
19. `add-file ./x` works, `remove-file ./x` and `cat ./x` are refused; `hide` through a linked directory works, `reveal`
    by the same spelling is refused; `cat` of an absolute path needs the plaintext to be there (`Resolve`).
20. One unsafe entry in `tracked.json` makes every command refuse, remove-file and clean among them (`Loads`).
21. `tracked_files.rs:106`: `stays_inside_repo_root` says it holds the line on its own, but accepts `../repo/x`, since
    the root it joins is called `repo` (`StaysInside`), so that the answer does depend on that name; the check on components
    before it refuses such a path, and after that check the name makes no difference (`ValidStaysBelow`).
22. add-file appends the bare name of a file at the root, which `.gitignore` matches at any depth, so it may hide the
    ciphertext of another directory's file and hide then refuses that one (`Matches`).
23. The id `repo+owner@service` is not one-to-one (a `+` may belong to either name), a pin and the baseline of a host that ends in
    `.ring-version` are one file, and the comment of `parse_git_remote_url` promises trailing slashes where only one is taken.
24. `rotate.rs:168` takes the recipients from the ring it verified, `176` and `177` read the stamp and the ring again: a ring change
    whose ring and stamp land in between makes the pass encrypt to the members before the change and consume the stamp of the
    change (`RotateStart`, `RotateGate`, `RotateMatch`; excluded by `LeavesWorkingSet`).

### Fairness

Liveness needs assumptions about people, and these are the weakest that will do.

- `WF(Step)`: a started command runs on unless it dies. It is straight-line code without waiting.
- `SF(RotateStart)` in `Vault`'s `FairSpec`: someone keeps invoking rotate, as the line
  add-key and remove-key print asks. Strong, because other commands and edits come in between.
- `SF(InitStart)`, `SF(ExportPin)`, `SF(ImportStart)` in `OwnerSpec`: an owner
  whose repository is not anchored tries the ceremonies again and again. Nobody is
  assumed to delete `.git-veil`, except to finish a clean that stopped
  half-way (`SF(HalfCleaned /\ Clean)`), for which init's refusal gives the instruction.
- `SF(Begin(p, run))` of a wanted forget and `SF(Tighten)` in `KeyStore`'s `FairSpec`: somebody who wants a
  key forgotten repeats `forget --yes` and runs the `chmod` that the gate's refusal prints.
- Faults are finite (`MaxFaults`). Every command could die each time, and then nothing is ever delivered.

`PassCompletes` says that the stamp is consumed, `PassDelivers` that whoever
consumed it had done the work. Together they say that revocation takes effect
on disk. `ForgetCompletes` and `ForgetForgets` divide the work in the same way.

## 4. What is proved

TLAPS checks these for any machines, processes, keys, files, contents and bounds.

**RingTrustProofs.** `TypeCorrect` is unconditional. The rest assume
`OneCommandPerMachine` (on one machine no two processes overlap), which the
code relies on without enforcing it: deviation 1 is what happens otherwise. Nothing is assumed about
git, which may act between any two steps, or about deaths.

- `BaselineCorrect`: `IInv == TypeOK /\ BaselineTracksAccepted /\
  CheckStillHolds` is inductive. `CheckStillHolds` is no result of its own, for nobody but the command itself
  writes the files it is about. That the baseline is the last accepted ring
  is not inductive alone: `RecordBaseline` writes on the strength of a
  comparison made steps earlier, and only `CheckStillHolds` says that it still stands when it does.
- `AcceptanceCorrect`: `RingTrust` implements `FreshAcceptance`. Under `IInv`
  every step that accepts is an `Accept` of the abstract specification (lemma
  `FreshIsAccept`: a ring that is fresh against the baseline extends the chain), clearing is a `Repin`, all else stutters.
- `PinCorrect`: the ring accepted was signed by the key pinned then.
- `StampCorrect`: a stamp names the ring written last. The invariant behind it
  (`AboutToStamp`) is that a command at the stamp still holds the last content its machine wrote; a re-pin in between would break it.

**TrustAnchorProofs.** All three are unconditional.

- `AnchorCorrect`: `IInv == TypeOK /\ AnchorFromOutside /\ ExportedIsAnchored /\
  CeremonyIsAnchored`. A pin is written at the end of a ceremony from a local
  variable, and that may have come from a pin-file this machine exported
  earlier, so exported pin-files and the key of the ceremony in flight must
  be known to be anchored too. Nothing is needed about `dot`: this is the point of the design.
- `RingCorrect`: so a signed ring that verifies was signed by an anchored key.

**AtomicWriteProofs, KeyStoreProofs.** All five theorems are unconditional: any number of commands at
once, deaths, failures, power cuts, chmods and reused process ids included.

- `StoreTypeCorrect`, `StoreWritesAtomically`: the key store implements
  `AtomicFile`. The invariant `StoreInv` says that no torn content has a
  proper name, in the present or in what a power cut may bring back. It holds because a call at the rename has
  a temp file that is complete and synced. `AtomicWriteProofs` maps each step of a
  write to a step of the abstract specification; `KeyStoreProofs` shows that every action of the key store
  is one of those or leaves the files alone.
- `StoreKeepsLines`: a line goes only by a forget of it, a power cut or an overlapping rewrite. What links a rename to the read is
  that a call in flight writes what its command made of `ids` or `recs`.
- `ForgetRemoves`, `AcknowledgmentPasses`: a forget between its two writes has removed the key from the first store, and no
  other command puts it back while none overlaps.

**VaultProofs, PassProofs.** `VaultTypeCorrect` is unconditional: any number of processes, pulls and editors at any moment. Its invariant
is `TypeOK` with, for each program counter, the type of the locals the next step needs.

`PassProofs` is about commands that overlap with each other, with editors and with git in any number and at any step.
git-veil takes no lock, so no promise holds without a condition on what the others do meanwhile, and
each theorem has the form `Spec /\ [][condition]_vars => promise`. The condition is a statement about
single steps of others (`Interference`). Most say only that certain commands wait, and nothing about what they would write; for two of the promises
it matters what they do. Everything a condition does not name may happen at any step:

| theorem | promise | who waits, or what others leave alone | what may happen all the same |
|---|---|---|---|
| `HideLosesNothing` | `NeverNeither` | the plaintexts a hide without `--keep` has read, and the contents it has written (`LeavesHidden`) | passes that read those ciphertexts after they were written, commits, pulls of other files, ring and manifest changes, another hide of the same content |
| `FirstEncryptCorrect` | `FirstEncryptIsAllowed` | commits and remove-key's purge for a hide; writers of the consent record for each other (`HideWaits`, `RecordWaits`) | pulls that bring another manifest or index, edits, checkouts, every other command |
| `RevealCorrect` | `RevealRestores` | hides, remove-files, checkouts, pulls and commits for a reveal, all but commits also for a rotate (`RevealWaits`, `RotateWaits`) | passes over the same ciphertexts, ring changes, edits, other reveals |
| `ContentKept` | `PassKeepsContent` | hides, remove-files, checkouts and pulls for a rotate (`RotateWaits`) | any number of other passes over the same ciphertexts, ring changes, commits |
| `PassHasDelivered` | `PassDelivers` | ring changes for a rotate; what enters its working set or is written there is for the ring (`LeavesWorkingSet`) | hides, other passes, remove-files, pulls with up-to-date ciphertexts, edits |
| `NoOrphanIsPassed` | `PassLeavesNoOrphan` | pulls and the saves of remove-files for a rotate that has loaded the manifest, commits for one that has seen the index, saves of the manifest for an add-file (`OrphanWaits`, `ManifestWaits`) | commits between load and index, pulls before the load, add-files and their saves, all other commands |
| `RevocationRemembered` | `StaleIsDue` | ring changes for hides, rotates and other ring changes; saves of the manifest for an add-file (`RingWaits`, `ManifestWaits`) | hides, passes, add-files, edits and commits |

The two conditions of `RevealCorrect` belong together: a pass writes contents it has read before, and only if those are still the contents
in place does it leave what a reveal has read. That a pass does so is `ContentKept`, so one proof uses the invariant of the other.

`RevocationRemembered` also assumes `NoRemoval`: no remove-file
and no checkout over a present ciphertext (deviation 7), no pulled commits, no death between ring and stamp (VaultUnstamped). Deaths and failed writes
are arbitrary elsewhere. `OneAtATime` and `OneAtATimeRemembers` draw the conclusion for the ordinary use: with one process, and users and git
that wait for it (`OneCommand`), every step meets every condition (lemma `OneCommandLeaves`), so all of the promises hold.

None of the promises is inductive, for a two-phase command writes and deletes on the strength of what it read many steps
earlier. What it owes says, for each program counter, what the prepared outputs and the files in `todo` have to
do with the files. It falls into parts. `LoopInv` (every prepared output is encrypted to the ring that was
read; in phase 2 every file in `todo` has one) needs nobody's cooperation and is
inductive for any number of processes. The parts `HideCopies`, `GrantKeeps`, `HideAllowed`, `RevealCopies`, `RotateCopies`, `Listing`, `OrphanFree` and
`RotateDelivers` also speak of files that others can change; for each one lemma shows that the command's own steps keep it, and that a step
of anybody else which meets the condition does. The promise then follows at the one step it is about.
That a step of a condition's family is all that can change a file is lemma `WhoChanges`; from it, not from the condition, comes what stays: that the consent and
the index a hide found are still there (`AllowedStays`), that a pass in between kept the content a reveal or another pass has read (`RotatedKeeps`). `StaleIsDue` is a
statement about the files alone and needs more (`StaleInv`): every command that encrypts holds the ring of the worktree and works on
tracked paths (`Current`), an add-file holds at least the manifest it will overwrite (`Listing`), every ciphertext is tracked and what is committed is on disk (`Matched`).

**PathProofs.** `Paths` defines the walk of `canonicalize`, the dropping of `.` and the lexical join as recursive functions,
and what they compute is proved by induction. The induction theorems of the library have a predicate as a parameter, which the
provers cannot instantiate. Here a set takes its place, the set of the numbers or sequences for which a statement
holds (`NumberInduction`, `SequenceInduction`, from the well-foundedness of `<`), and `Iteration` says that a function that is defined step by step exists and
stays in the set that each step stays in. On it rest:

- that in a well-formed tree the walk ends at a place that exists and is no link (`CanonicalReal`), walks the parts of a path one after the
  other (`CanonicalConcat`), returns a place that is no link unchanged (`CanonicalOfPlace`, `CanonicalBelow`) and is not led astray by components `.` (`CanonicalUndotted`);
- that different files have different ciphertexts (`CiphertextInjective`), which an extension that is replaced would not give;
- `ValidStaysBelow`, `PlainIsValid`: a path that `validate_tracked_path` accepts stays below every root. This is what the comment
  in `stays_inside_repo_root` claims ("a single representative root suffices"), and it is the check on components that makes it true.

**WorktreeProofs.** Any tree, any spellings, any command lines with any number of names.

- `WorktreeTypeCorrect`, `ManifestLoads`: `IInv == TypeOK /\ tree[Root] = Dir /\ LinksApart /\ Loads`. A command resolves
  names in a tree, so what it writes is well-typed only while the tree is well formed, and the tree stays so only
  while no link leads to a place that another one may take (`LinksApart`), since links do not chain here. `Loads` is part of it because an entry
  that hide or reveal writes to must be one.
- `NamesAgree`: what canonicalising finds is the entry itself. What stands in the manifest as typed
  has no components `.` and `..`, because it loaded; so it leads where what was typed leads, up to its last name, and that is no link
  because the command has looked. Neither half of the argument can go: `OwnManifestLoads` and the regular-file gate are what makes two ways of resolving agree.
- `IgnoreCorrect`: by induction over the paths of the command line.
- `HideKeeps` assumes `Unnested`: no tracked file bears the name of another one's ciphertext. NamesGlob is what happens otherwise.
  Then the places that a hide writes and those it deletes have nothing in common, and different files write to different places.

**Model-checked only.** Liveness (`PassCompletes`, `AnchorRecovers`, `ForgetCompletes`, `RenameIsRecovered`) is outside
what the prover does.

## 5. What is not modelled

- Locks or retries that would make the conditions of `Interference` true: the code has none. What commands do to
  each other when a condition is broken is in `Vault` (`Overlap = TRUE`) and in the deviations above, but no promise is left to state about it.
- URL parsing and the sanitising of repository ids: two regular expressions and a percent-encoding without
  state, for which the repository has a fuzz target. Pin-file and keyring syntax: parsing
  shows up as what it returns (`None` versions, unsigned rings, a `trust.json` that loads empty).
- Reporting commands (list, list-keys, whoami, repo-id, fingerprint, and cat and changes beyond the file they mean): they write nothing of their own,
  and where they verify they behave like verify-keys.
- Cryptography, argument parsing, exit-code plumbing, message text, the CODEOWNERS notice (advice that changes no outcome).

## 6. Plan

Done, in this order: the keyring and which ring a machine acts on; what happens to secrets; where trust comes from; atomic
replacement and the key store; names and links; the theorems on each of them; commands that overlap.

What could follow:

1. `RingTrust` and `Vault` composed, so that a pass runs behind a real verification
   instead of one taken for granted. The product is large for TLC; the theorems would have to be composed instead.
2. `Worktree` over several clones, with links that arrive by a pull, and links that lead to links.
