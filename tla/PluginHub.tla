----------------------------- MODULE PluginHub -----------------------------
(* The commands plugins add, install and remove (cli/_commands.py) over the
   plugin hub (plugins/hub.py): a package is checked before pip installs it and
   again after, and quarantined when the second check fails; its pins are kept
   in the project's manifest, beside those of the other plugins.

   The content of a package has components, files with a name and a digest, or
   none.  The code keeps digests in dictionaries whose keys are the names without
   their directories: of two components of one name it keeps one, which depends on
   where it looks, in the wheel's archive or in the list of installed files.
   Unclean content fails the wheel linter.  What the index serves may change at any
   time, between two downloads of one command too.  A manifest entry names its
   package by the "short" or the "full" name.  A target that is a repository, a
   path or a URL is refused before anything is downloaded, so that only targets
   on the package index are left to model. *)
EXTENDS Naturals, Sequences

CONSTANTS Package,      \* plugin packages
          Content,      \* contents a package can have
          File,         \* names of components
          Digest,       \* digests of components
          Components,   \* content -> its components, <<name, digest>>
          Wheel,        \* content -> what is kept of them, read from its wheel
          Recorded,     \* content -> what is kept of them, read where it is installed
          Unclean,      \* contents the linter refuses
          None,         \* no content, no registry entry
          Registry,     \* package -> the content its registry entry is about, or None
          Manifests,    \* manifests a project may begin with
          MaxReleases,  \* how often the index changes
          MaxCommands   \* commands run

Forms == {"short", "full"}

\* Dictionaries of digests by name, and those that keep of a content's components
\* one for each name.
Tables == {t \in SUBSET (File \X Digest) : \A d, e \in t : d[1] = e[1] => d = e}
Named(components) == {e[1] : e \in components}
Keeps(t, c) ==
  t \in Tables /\ t \subseteq Components[c] /\ Named(t) = Named(Components[c])

\* A PluginSpec: "pin" are its wasm_checksums, "hash" what dep_hashes demand of
\* the whole wheel.
PluginSpec == [pkg : Package, form : Forms, pin : Tables, hash : Content \cup {None}]

ASSUME PluginHubAssumption ==
  /\ Unclean \subseteq Content /\ None \notin Content
  /\ Components \in [Content -> SUBSET (File \X Digest)]
  /\ \A c \in Content : Keeps(Wheel[c], c) /\ Keeps(Recorded[c], c)
  /\ Registry \in [Package -> Content \cup {None}]
  /\ Manifests \subseteq Seq(PluginSpec)
  /\ MaxReleases \in Nat /\ MaxCommands \in Nat

VARIABLES
  site,      \* package -> installed content
  index,     \* package -> content the index serves
  manifest,  \* the manifest's entries
  valid,     \* whether the file parses
  cmd,       \* the command that runs
  runs,      \* commands begun
  releases,  \* changes of the index
  promised,  \* history: package -> the entries its last save left
  cut        \* history: whether a crash fell into a save

hubVars == <<site, index, manifest, valid, cmd, runs, releases, promised, cut>>

\* SelectSeq, where the test is to be in a set.
Sift(specs, set) ==
  LET f[n \in 0..Len(specs)] ==
        IF n = 0 THEN <<>>
        ELSE IF specs[n] \in set THEN Append(f[n - 1], specs[n]) ELSE f[n - 1]
  IN  f[Len(specs)]

SpecsOf(p) == [pkg : {p}, form : Forms, pin : Tables, hash : Content \cup {None}]
Of(specs, p) == Sift(specs, SpecsOf(p))
NoCommand == [pc |-> "idle", op |-> "none", read |-> <<>>, todo |-> <<>>, done |-> <<>>,
              save |-> FALSE, verify |-> TRUE, upgrade |-> FALSE, ok |-> TRUE]

HubInit ==
  /\ index \in [Package -> Content]
  /\ site \in [Package -> {None}]
  /\ manifest \in Manifests
  /\ valid \in BOOLEAN
  /\ cmd = NoCommand
  /\ runs = 0 /\ releases = 0
  /\ promised = [p \in Package |-> Of(manifest, p)]
  /\ cut = FALSE

At(pc) == cmd.pc = pc
The == Head(cmd.todo)

-------------------------------------------------------------------------------
(* Beginnings *)

Begin(c) ==
  /\ At("idle") /\ runs < MaxCommands
  /\ runs' = runs + 1
  /\ cmd' = c
  /\ UNCHANGED <<site, index, manifest, valid, releases, promised, cut>>

\* An add that takes a file it cannot read for an empty one.
BadAdd(s, save, verify) ==
  Begin([NoCommand EXCEPT !.op = "add", !.save = save, !.verify = verify,
           !.read = IF valid THEN manifest ELSE <<>>, !.todo = <<s>>, !.pc = "check"])

\* With --save the manifest is read, and has to parse, before pip is run.
Add(s, save, verify) ==
  /\ save => valid
  /\ Begin([NoCommand EXCEPT !.op = "add", !.save = save, !.verify = verify,
              !.read = manifest, !.todo = <<s>>, !.pc = "check"])

\* What the user typed, unpinned.
Typed(p, form) == [pkg |-> p, form |-> form, pin |-> {}, hash |-> None]

\* RegistryEntry.to_spec: the pins of the registry, under the short name.
Entries(p) ==
  IF Registry[p] = None THEN {}
  ELSE [pkg : {p}, form : {"short"}, hash : {None, Registry[p]},
        pin : {t \in SUBSET Components[Registry[p]] : Keeps(t, Registry[p])}]

\* The registry is asked when the user wants verification.  It may be out of
\* reach, not list the package, or be overridden: a warning, and what was typed.
\* An entry for another contract than this host's ends the command.
AddSpecs(p, form, verify) == {Typed(p, form)} \cup IF verify THEN Entries(p) ELSE {}

Install(upgrade, verify) ==
  /\ valid /\ manifest # <<>>
  /\ Begin([NoCommand EXCEPT !.op = "install", !.verify = verify, !.upgrade = upgrade,
              !.todo = manifest, !.pc = "check"])

Remove(p, form, save) ==
  /\ save => valid
  /\ Begin([NoCommand EXCEPT !.op = "remove", !.save = save, !.read = manifest, !.pc = "uninstall",
              !.todo = <<Typed(p, form)>>])

-------------------------------------------------------------------------------
(* One package: pre_install_security_check, pip, security_check_plugin *)

\* The command ends in an error, or goes on to the next entry of the manifest.
GiveUp ==
  cmd' = IF cmd.op = "install"
         THEN [cmd EXCEPT !.todo = Tail(@), !.ok = FALSE, !.pc = "check"]
         ELSE NoCommand

\* compute_wasm_checksums, of what is installed: one digest for each name.
DigestsOf(c) == IF c = None THEN {} ELSE Recorded[c]

\* _lint_wheelhouse: what was downloaded is what the hashes demand, and clean.
Hashed(c, s) == s.hash \in {None, c}
Clean(c) == c \notin Unclean

\* The pinned components are in the wheel; others may be there too.
Pinned(c, s) == s.pin \subseteq Wheel[c]
Acceptable(c, s) == Hashed(c, s) /\ Clean(c) /\ Pinned(c, s)

\* Pins that were in the wheel are taken to be those of what is installed.
BadVerified(c, s) == s.pin \subseteq DigestsOf(c)

\* verify_wasm_checksums: a spec without pins is warned of; otherwise they are
\* those kept of the components installed, no more and no less.
Verified(c, s) == s.pin = {} \/ s.pin = DigestsOf(c)

PreCheck ==
  /\ At("check") /\ cmd.todo # <<>>
  /\ IF cmd.verify => Acceptable(index[The.pkg], The)
     THEN cmd' = [cmd EXCEPT !.pc = "pip"]
     ELSE GiveUp
  /\ UNCHANGED <<site, index, manifest, valid, runs, releases, promised, cut>>

\* Nothing is downloaded, or it is no wheel.
DownloadFails ==
  /\ At("check") /\ cmd.todo # <<>> /\ cmd.verify
  /\ GiveUp
  /\ UNCHANGED <<site, index, manifest, valid, runs, releases, promised, cut>>

\* pip downloads again.  With hashes the wheelhouse is linted once more and the
\* command ends if it is not clean.  A package that is there may be left as it is.
PipInstall ==
  LET s == The  c == index[s.pkg] IN
  /\ At("pip")
  /\ s.hash # None => Hashed(c, s) /\ Clean(c)
  /\ \E new \in {c} \cup (IF cmd.upgrade \/ site[s.pkg] = None THEN {} ELSE {site[s.pkg]}) :
       site' = [site EXCEPT ![s.pkg] = new]
  /\ cmd' = [cmd EXCEPT !.pc = "verify"]
  /\ UNCHANGED <<index, manifest, valid, runs, releases, promised, cut>>

\* pip fails, or an error of the wheelhouse ends an install early.
PipFails ==
  /\ At("pip")
  /\ \/ GiveUp
     \/ The.hash # None /\ ~Clean(index[The.pkg]) /\ cmd' = NoCommand
  /\ UNCHANGED <<site, index, manifest, valid, runs, releases, promised, cut>>

\* An add without pins records what it finds (trust on first use); pins that are
\* there must be those of what is installed.
PostCheck ==
  LET s == The  c == site[s.pkg] IN
  /\ At("verify")
  /\ cmd' = IF ~cmd.verify THEN [cmd EXCEPT !.pc = "next"]
            ELSE IF Verified(c, s)
            THEN [cmd EXCEPT !.pc = "next",
                    !.todo[1].pin = IF cmd.op = "add" THEN DigestsOf(c) ELSE @]
            ELSE [cmd EXCEPT !.pc = "quarantine"]
  /\ UNCHANGED <<site, index, manifest, valid, runs, releases, promised, cut>>

\* pip_uninstall's exit code is not looked at.
Quarantine ==
  /\ At("quarantine")
  /\ \E gone \in BOOLEAN : site' = [site EXCEPT ![The.pkg] = IF gone THEN None ELSE @]
  /\ GiveUp
  /\ UNCHANGED <<index, manifest, valid, runs, releases, promised, cut>>

\* The next entry, or the save of an add.
NextSpec ==
  /\ At("next")
  /\ cmd' = IF cmd.save THEN [cmd EXCEPT !.pc = "save"]
            ELSE [cmd EXCEPT !.todo = Tail(@), !.done = Append(@, The), !.pc = "check"]
  /\ UNCHANGED <<site, index, manifest, valid, runs, releases, promised, cut>>

Uninstall ==
  /\ At("uninstall")
  /\ \/ /\ site' = [site EXCEPT ![The.pkg] = None]
        /\ cmd' = [cmd EXCEPT !.pc = IF cmd.save THEN "save" ELSE "check",
                              !.todo = IF cmd.save THEN @ ELSE <<>>]
     \/ cmd' = NoCommand /\ UNCHANGED site
  /\ UNCHANGED <<index, manifest, valid, runs, releases, promised, cut>>

-------------------------------------------------------------------------------
(* The manifest *)

\* The names by which an entry is found: the one typed and the full one.
Matching(s) == {e \in SpecsOf(s.pkg) : e.form \in {s.form, "full"}}

\* The entry replaced or taken out, the others as they were read.
Updated(read, s) ==
  Sift(read, PluginSpec \ Matching(s)) \o (IF cmd.op = "add" THEN <<s>> ELSE <<>>)

\* write_text empties the file before it writes: an empty file parses.
OpenManifest ==
  /\ At("save")
  /\ manifest' = <<>>
  /\ cmd' = [cmd EXCEPT !.pc = "write"]
  /\ UNCHANGED <<site, index, valid, runs, releases, promised, cut>>

WriteManifest ==
  /\ At("write")
  /\ manifest' = Updated(cmd.read, The)
  /\ promised' = [promised EXCEPT ![The.pkg] = Of(manifest', The.pkg)]
  /\ cmd' = [cmd EXCEPT !.todo = <<>>, !.done = <<The>>, !.pc = "check"]
  /\ UNCHANGED <<site, index, valid, runs, releases, cut>>

\* The command reports success, or which packages failed.
Finish ==
  /\ At("check") /\ cmd.todo = <<>>
  /\ cmd' = NoCommand
  /\ UNCHANGED <<site, index, manifest, valid, runs, releases, promised, cut>>

-------------------------------------------------------------------------------
(* Around the commands *)

Release(p, c) ==
  /\ releases < MaxReleases /\ c # index[p]
  /\ releases' = releases + 1
  /\ index' = [index EXCEPT ![p] = c]
  /\ UNCHANGED <<site, manifest, valid, cmd, runs, promised, cut>>

\* The process is killed.
Crash ==
  /\ ~At("idle")
  /\ cmd' = NoCommand
  /\ cut' = (cut \/ At("write"))
  /\ UNCHANGED <<site, index, manifest, valid, runs, releases, promised>>

Command ==
  \/ \E p \in Package, form \in Forms, save \in BOOLEAN :
       \/ Remove(p, form, save)
       \/ \E verify \in BOOLEAN : \E s \in AddSpecs(p, form, verify) : Add(s, save, verify)
  \/ \E upgrade \in BOOLEAN, verify \in BOOLEAN : Install(upgrade, verify)

Step ==
  \/ PreCheck \/ DownloadFails \/ PipInstall \/ PipFails \/ PostCheck \/ Quarantine \/ NextSpec
  \/ Uninstall \/ OpenManifest \/ WriteManifest \/ Finish

HubNext ==
  \/ Command \/ Step \/ Crash
  \/ \E p \in Package, c \in Content : Release(p, c)

HubSpec == HubInit /\ [][HubNext]_hubVars

-------------------------------------------------------------------------------
(* Properties *)

Places == {"idle", "check", "pip", "verify", "quarantine", "next", "save", "write", "uninstall"}
Operations == {"none", "add", "install", "remove"}
Commands ==
  [pc : Places, op : Operations, read : Seq(PluginSpec), todo : Seq(PluginSpec),
   done : Seq(PluginSpec), save : BOOLEAN, verify : BOOLEAN, upgrade : BOOLEAN, ok : BOOLEAN]

\* Type correctness.
HubTypeOK ==
  /\ site \in [Package -> Content \cup {None}]
  /\ index \in [Package -> Content]
  /\ manifest \in Seq(PluginSpec)
  /\ promised \in [Package -> Seq(PluginSpec)]
  /\ cmd \in Commands
  /\ valid \in BOOLEAN /\ cut \in BOOLEAN
  /\ runs \in 0..MaxCommands /\ releases \in 0..MaxReleases

\* The pins of the entry of a package that the command handled last.
LastOf(p) == LET of == Of(cmd.done, p) IN IF of = <<>> THEN {} ELSE of[Len(of)].pin

\* What is installed of a package.
Has(p) == IF site[p] = None THEN {} ELSE Components[site[p]]

\* A command that verifies has got through its entries, and the last one about a
\* package has pins.
Ended(p) ==
  /\ cmd.verify /\ cmd.op # "remove" /\ cmd.ok
  /\ At("check") /\ cmd.todo = <<>> /\ LastOf(p) # {}

\* Such a command leaves the package with every component that is pinned, and with
\* none under a name that is not: whatever the index served in between, and
\* whatever of it was installed before.
InstalledAsPinned ==
  \A p \in Package : Ended(p) => LastOf(p) \subseteq Has(p) /\ Named(Has(p)) = Named(LastOf(p))

\* The code's own claim (hub.py, verify_wasm_checksums: "Verify the SHA-256 of
\* every installed .wasm file"): it leaves no component that is not pinned.  It
\* fails for the second of two components of one name.
EveryFileIsPinned == \A p \in Package : Ended(p) => Has(p) = LastOf(p)

\* Outside a save the manifest has, of each package, the entries the last save
\* about it left: an unreadable file is not an empty inventory, and no command
\* drops another plugin's pins.  (A crash within a save can.)
OthersKeepPins ==
  ~At("write") /\ ~cut => \A p \in Package : Of(manifest, p) = promised[p]

\* A remove --save that ends well leaves no entry of the package.  This does not
\* hold, when the full name is typed and the entry has the short one; no
\* configuration lists it.
RemovedIsGone ==
  cmd.op = "remove" /\ At("check") /\ cmd.save =>
    \A k \in DOMAIN cmd.done : Of(manifest, cmd.done[k].pkg) = <<>>

===============================================================================
