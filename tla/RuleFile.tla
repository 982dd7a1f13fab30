------------------------------ MODULE RuleFile ------------------------------
(***************************************************************************)
(* The candidate configuration and the directory of project rules: writers *)
(* that edit the configuration under a lock file, writers that add a rule  *)
(* file without one, and an editor that follows no protocol.               *)
(*                                                                         *)
(* A configuration is [cats, of, rules, packages, custom, profiles, life,  *)
(* notes]: the category registry (name -> starter identity, or Custom),    *)
(* the rules' explicit categories, the rule settings, the selected         *)
(* packages, whether project rules are selected, what each profile         *)
(* includes, the lifecycle states, and whether the file has comments.      *)
(***************************************************************************)
EXTENDS Naturals, Sequences, FiniteSets, Functions

CONSTANTS
    Builtin,        \* built-in rule -> [package, category, required]
    Project,        \* project rule -> [package, category, required], on disk
    Always,         \* packages that need no selection ("core", "shared")
    Custom,         \* the origin of a category that is no starter
    MaxCategories,
    MaxRuleFiles,
    Writer,
    Mutations,      \* what a writer may ask for
    NewRules,       \* rule files a writer may generate, [id, text]
    Files,          \* configurations the file may start as, or be edited into
    MaxEdits        \* bounds the editor
-----------------------------------------------------------------------------
(* Catalogs: Inventory::selected, Catalog::resolve *)

Unset == "unset"
Selected(c) ==
    LET on == {id \in DOMAIN Builtin : Builtin[id].package \in Always \cup c.packages}
        project == IF c.custom THEN DOMAIN Project ELSE {}
    IN [id \in on \cup project |-> IF id \in project THEN Project[id] ELSE Builtin[id]]

NoSetting == [enabled |-> FALSE, required |-> Unset, severity |-> Unset, parameters |-> FALSE]

\* What a configuration means: for each configured rule whether it runs and
\* whether it is required; lifecycle records override the settings.
Effective(c) ==
    [id \in DOMAIN c.rules |->
        LET state == IF id \in DOMAIN c.life THEN c.life[id] ELSE "none"
        IN [enabled |-> c.rules[id].enabled /\ state \notin {"retired", "revoked"},
            required |-> CASE state = "demoted" -> FALSE
                           [] state # "demoted" /\ c.rules[id].required = Unset ->
                                Selected(c)[id].required
                           [] OTHER -> c.rules[id].required = "yes",
            severity |-> IF state = "demoted" THEN "warning" ELSE c.rules[id].severity]]

CategoriesValid(c) ==
    /\ Cardinality(DOMAIN c.cats) <= MaxCategories
    /\ \A m, n \in DOMAIN c.cats : c.cats[m] = c.cats[n] /\ c.cats[m] # Custom => m = n
    /\ \A id \in DOMAIN c.of : /\ c.of[id] # <<>> /\ IsInjective(c.of[id])
                               /\ Range(c.of[id]) \subseteq DOMAIN c.cats

\* validation::layout
Typed(c) ==
    /\ CategoriesValid(c)
    /\ DOMAIN c.life \subseteq DOMAIN c.rules

Resolves(c) ==
    /\ DOMAIN c.rules \subseteq DOMAIN Selected(c)
    /\ \A id \in DOMAIN c.rules : Selected(c)[id].package = "custom" => ~c.rules[id].parameters
-----------------------------------------------------------------------------
(* edit_value: the operations on a configuration; Refused when it cannot be done *)

Refused == [ok |-> FALSE]
Done(c) == [ok |-> TRUE, config |-> c]
Known == DOMAIN Builtin \cup DOMAIN Project
Put(f, x, y) == [z \in DOMAIN f \cup {x} |-> IF z = x THEN y ELSE f[z]]
Drop(f, X) == [z \in DOMAIN f \ X |-> f[z]]
Labels(c, id) == IF id \in DOMAIN c.of THEN c.of[id] ELSE <<>>
SetLabels(c, id, names) ==
    [c EXCEPT !.of = IF names = <<>> THEN Drop(@, {id}) ELSE Put(@, id, names)]

\* The memberships that name a category
Relabel(of) == [id \in {r \in DOMAIN of : of[r] # <<>>} |-> of[id]]

Create(c, m) ==
    IF m.name \in DOMAIN c.cats THEN Refused
    ELSE Done([c EXCEPT !.cats = Put(@, m.name, Custom)])

Rename(c, m) ==
    LET swap(names) == [i \in DOMAIN names |-> IF names[i] = m.name THEN m.new ELSE names[i]]
    IN IF m.new \in DOMAIN c.cats \/ m.name \notin DOMAIN c.cats THEN Refused
       ELSE Done([c EXCEPT !.cats = Put(Drop(@, {m.name}), m.new, c.cats[m.name]),
                           !.of = Relabel([id \in DOMAIN @ |-> swap(@[id])])])

Delete(c, m) ==
    LET others(names) == SelectSeq(names, LAMBDA n : n # m.name)
        used == \E id \in DOMAIN c.of : m.name \in Range(c.of[id])
    IN IF m.name \notin DOMAIN c.cats \/ (used /\ ~m.force) THEN Refused
       ELSE Done([c EXCEPT !.cats = Drop(@, {m.name}), !.of = Relabel([id \in DOMAIN @ |-> others(@[id])])])

Assign(c, m) ==
    LET names == Labels(c, m.id)
    IN IF m.id \notin Known \/ m.name \notin DOMAIN c.cats THEN Refused
       ELSE Done(SetLabels(c, m.id, IF m.name \in Range(names) THEN names
                                    ELSE Append(names, m.name)))

Unassign(c, m) ==
    LET names == Labels(c, m.id)
    IN IF m.id \notin Known \/ m.name \notin Range(names) \/ m.name \notin DOMAIN c.cats
       THEN Refused
       ELSE Done(SetLabels(c, m.id, SelectSeq(names, LAMBDA n : n # m.name)))

\* The definition a rule setting is about, selecting what it comes with
Select(c, id) ==
    LET entry == CASE id \in DOMAIN Selected(c) -> Selected(c)[id]
                   [] id \notin DOMAIN Selected(c) /\ id \in DOMAIN Project -> Project[id]
                   [] OTHER -> Builtin[id]
        custom == entry.package = "custom"
    IN [c EXCEPT !.custom = @ \/ custom,
                 !.packages = IF custom \/ entry.package \in Always THEN @
                              ELSE @ \cup {entry.package},
                 !.rules = Put(@, id, IF id \in DOMAIN @ THEN @[id] ELSE NoSetting)]

\* Plausible bug: the profiles are left as they were.
Enable_Only(c, m) ==
    IF m.id \notin Known THEN Refused
    ELSE Done([Select(c, m.id) EXCEPT !.rules[m.id].enabled = TRUE])

Enable(c, m) ==
    IF m.id \notin Known THEN Refused
    ELSE Done([Select(c, m.id) EXCEPT !.rules[m.id].enabled = TRUE,
                                      !.profiles = [p \in DOMAIN @ |-> @[p] \cup {m.id}]])

Disable(c, m) ==
    IF m.id \notin Known THEN Refused
    ELSE Done([Select(c, m.id) EXCEPT !.rules[m.id].enabled = FALSE])

\* An unset field of the request leaves that field of the setting alone.
Configure(c, m) ==
    LET into == Select(c, m.id)
        set(old, new) == IF new = Unset THEN old ELSE new
    IN IF \/ m.id \notin Known
          \/ m.required = Unset /\ m.severity = Unset /\ ~m.parameters
          \/ m.parameters /\ m.id \in DOMAIN Selected(into)
                          /\ Selected(into)[m.id].package = "custom"
       THEN Refused
       ELSE Done([into EXCEPT !.rules[m.id] =
                     [@ EXCEPT !.required = set(@, m.required),
                               !.severity = set(@, m.severity),
                               !.parameters = @ \/ m.parameters]])

Lifecycle(c, m) ==
    LET into(r, s) == Configure(c, [id |-> m.id, required |-> r, severity |-> s,
                                    parameters |-> FALSE])
        change ==
          CASE m.state = "revalidate" -> Enable(c, m)
            [] m.state = "demoted" -> into("no", "warning")
            [] m.state = "deprecated" ->
                 IF Resolves(c) /\ m.id \in DOMAIN c.rules
                 THEN into(IF Effective(c)[m.id].required THEN "yes" ELSE "no", Unset)
                 ELSE Refused
            [] m.state \in {"retired", "revoked"} -> Disable(c, m)
    IN IF ~change.ok THEN Refused
       ELSE Done([change.config EXCEPT !.life = Put(@, m.id, m.state)])

Edit(c, m) ==
    CASE m.op = "create" -> Create(c, m)
      [] m.op = "rename" -> Rename(c, m)
      [] m.op = "delete" -> Delete(c, m)
      [] m.op = "assign" -> Assign(c, m)
      [] m.op = "unassign" -> Unassign(c, m)
      [] m.op = "enable" -> Enable(c, m)
      [] m.op = "disable" -> Disable(c, m)
      [] m.op = "configure" -> Configure(c, m)
      [] m.op = "lifecycle" -> Lifecycle(c, m)

\* What update publishes: the edited value, without the file's comments
Candidate(c, m) ==
    LET edit == Edit(c, m)
    IN IF Typed(c) /\ Resolves(c) /\ edit.ok /\ Typed(edit.config) /\ Resolves(edit.config)
       THEN Done(IF edit.config = c THEN c ELSE [edit.config EXCEPT !.notes = FALSE])
       ELSE Refused
-----------------------------------------------------------------------------
(* What the operations promise *)

\* What a label means to a reader: the rules it selects, given or by default
Default(c, id) ==
    LET category == (IF id \in DOMAIN Project THEN Project[id] ELSE Builtin[id]).category
    IN {n \in DOMAIN c.cats : c.cats[n] = category}
Members(c, name) ==
    {id \in Known : name \in IF id \in DOMAIN c.of THEN Range(c.of[id]) ELSE Default(c, id)}

\* A valid configuration is never edited into one that does not load, and every
\* edit is local: labels change neither what runs nor another label's rules, a
\* renamed label keeps its rules, and an edit of one rule leaves every other
\* rule's effect as it was, as long as it brings in no project rules that
\* replace built-in ones (rule_management.rs:153-371).
EditIsLocal(c, m) ==
    LET got == Candidate(c, m)
        new == got.config
        labels == m.op \in {"create", "rename", "delete", "assign", "unassign"}
    IN (Typed(c) /\ Resolves(c) /\ got.ok) =>
        /\ Typed(new) /\ Resolves(new)
        /\ labels => /\ Effective(new) = Effective(c)
                     /\ \A n \in DOMAIN c.cats \cap DOMAIN new.cats :
                            \/ m.op = "delete" \/ (m.op \in {"assign", "unassign"})
                            \/ Members(new, n) = Members(c, n)
        /\ m.op = "rename" => Members(new, m.new) = Members(c, m.name)
        /\ ~labels => /\ new.cats = c.cats /\ new.of = c.of
                      /\ (new.custom = c.custom) =>
                             \A id \in DOMAIN c.rules \ {m.id} :
                                 Effective(new)[id] = Effective(c)[id]

\* What is asked for is what then happens: an enabled rule runs in every
\* profile unless its lifecycle retires it, a disabled or retired one never
\* runs, a demoted one cannot fail a check, and a deprecated one stays as
\* required as it was (rule_management.rs:251-358; catalog.rs:874-888).
EditTakesEffect(c, m) ==
    LET got == Candidate(c, m)
        now == Effective(got.config)[m.id]
        state == IF m.op = "lifecycle" THEN m.state ELSE "none"
    IN (m.op \in {"enable", "disable", "configure", "lifecycle"} /\ got.ok) =>
        /\ m.op = "enable" /\ m.id \notin DOMAIN c.life =>
               now.enabled /\ \A p \in DOMAIN c.profiles : m.id \in got.config.profiles[p]
        /\ state = "revalidate" => now.enabled
        /\ m.op = "disable" \/ state \in {"retired", "revoked"} => ~now.enabled
        /\ state = "demoted" => ~now.required /\ now.severity = "warning"
        /\ state = "deprecated" /\ m.id \notin DOMAIN c.life =>
               now = Effective(c)[m.id]
-----------------------------------------------------------------------------
(* The file, its lock and the directory of project rules *)

VARIABLES
    file,       \* the configuration's bytes
    lock,       \* {} or {w}: the lock file, and the writer that made it
    writer,     \* writer -> [at, ask, read, write]
    alien,      \* writers whose last look at the file an editor has overtaken
    edits,      \* edits made by the editor so far
    directory,  \* rule id -> text of <id>.yaml
    section     \* the normative section that rule files quote
vars == <<file, lock, writer, alien, edits, directory, section>>

NoConfig == [cats |-> <<>>]
Idle == [at |-> "idle", ask |-> [op |-> "none"], read |-> NoConfig, write |-> NoConfig]

Init ==
    /\ file \in Files /\ lock = {} /\ alien = {} /\ edits = 0
    /\ writer = [w \in Writer |-> Idle]
    /\ directory = <<>> /\ section = "old"

Step(w, from, record) ==
    /\ writer[w].at = from
    /\ writer' = [writer EXCEPT ![w] = record]

Free(w) == lock' = lock \ {w}

\* Plausible bug: the lock file is created or truncated.
Lock_Shared(w) ==
    /\ lock' = {w}
    /\ \E m \in Mutations : Step(w, "idle", [Idle EXCEPT !.at = "locked", !.ask = m])
    /\ UNCHANGED <<file, alien, edits, directory, section>>

\* create_new fails when the lock file is there
Lock(w) ==
    /\ lock = {}
    /\ lock' = {w}
    /\ \E m \in Mutations : Step(w, "idle", [Idle EXCEPT !.at = "locked", !.ask = m])
    /\ UNCHANGED <<file, alien, edits, directory, section>>

\* The original bytes are read and edited; a refusal and a no-op leave the file
\* and release the lock.
Read(w) ==
    LET got == Candidate(file, writer[w].ask) IN
    /\ writer[w].at = "locked"
    /\ IF got.ok /\ got.config # file
       THEN /\ Step(w, "locked", [writer[w] EXCEPT !.at = "edited", !.read = file,
                                                   !.write = got.config])
            /\ UNCHANGED lock
       ELSE Step(w, "locked", [Idle EXCEPT !.at = "ended"]) /\ Free(w)
    /\ UNCHANGED <<file, alien, edits, directory, section>>

\* publish: the temporary file is complete; the original must still be there
Recheck(w) ==
    /\ IF file = writer[w].read
       THEN Step(w, "edited", [writer[w] EXCEPT !.at = "checked"]) /\ UNCHANGED lock
       ELSE Step(w, "edited", [Idle EXCEPT !.at = "ended"]) /\ Free(w)
    /\ alien' = alien \ {w}
    /\ UNCHANGED <<file, edits, directory, section>>

Publish(w) ==
    /\ Step(w, "checked", [Idle EXCEPT !.at = "ended"])
    /\ file' = writer[w].write
    /\ Free(w)
    /\ UNCHANGED <<alien, edits, directory, section>>

\* A killed writer leaves its lock; nobody else's is taken from it until an
\* operator removes the file.
Die(w) ==
    /\ w \in lock
    /\ Step(w, writer[w].at, [Idle EXCEPT !.at = "dead"])
    /\ UNCHANGED <<file, lock, alien, edits, directory, section>>

RemoveLock ==
    /\ \E w \in lock : writer[w].at = "dead"
    /\ lock' = {}
    /\ UNCHANGED <<file, writer, alien, edits, directory, section>>

\* An editor takes no lock: it replaces the configuration, or the document the
\* project rules quote.
EditFile ==
    /\ edits < MaxEdits /\ edits' = edits + 1
    /\ file' \in Files \ {file}
    /\ alien' = alien \cup {w \in Writer : writer[w].at = "checked"}
    /\ UNCHANGED <<lock, writer, directory, section>>

EditDocument ==
    /\ edits < MaxEdits /\ edits' = edits + 1
    /\ section = "old" /\ section' = "new"
    /\ UNCHANGED <<file, lock, writer, alien, directory>>

\* generate: the rule's own source, the files and ids that are there
Draft(w) ==
    /\ \E r \in NewRules :
         /\ r.quotes = section
         /\ r.id \notin DOMAIN directory
         /\ Cardinality(DOMAIN directory) < MaxRuleFiles
         /\ Step(w, "idle", [Idle EXCEPT !.at = "drafted", !.ask = r])
    /\ UNCHANGED <<file, lock, alien, edits, directory, section>>

\* Plausible bug: persist instead of persist_noclobber.
Persist_Replacing(w) ==
    /\ Step(w, "drafted", [Idle EXCEPT !.at = "ended"])
    /\ directory' = IF writer[w].ask.quotes = section
                    THEN Put(directory, writer[w].ask.id, writer[w].ask.text) ELSE directory
    /\ UNCHANGED <<file, lock, alien, edits, section>>

\* The binding again, then a link that never replaces a file
Persist(w) ==
    LET r == writer[w].ask IN
    /\ Step(w, "drafted", [Idle EXCEPT !.at = "ended"])
    /\ directory' = IF r.quotes = section /\ r.id \notin DOMAIN directory
                    THEN Put(directory, r.id, r.text) ELSE directory
    /\ UNCHANGED <<file, lock, alien, edits, section>>

Next ==
    \/ \E w \in Writer : \/ Lock(w) \/ Read(w) \/ Recheck(w) \/ Publish(w) \/ Die(w)
                         \/ Draft(w) \/ Persist(w)
    \/ RemoveLock \/ EditFile \/ EditDocument

Spec == Init /\ [][Next]_vars

\* No writer publishes over an edit it has not seen, whatever the others do and
\* wherever one of them is killed: what it replaces is what it read, unless an
\* editor without the lock came between the last comparison and the rename
\* (rule_management.rs:60-69, 122-138).
NothingOverwritten ==
    \A w \in Writer : writer[w].at = "checked" =>
        w \in alien \/ file = writer[w].read

\* A rule file, once there, keeps its text: of two writers that generate the
\* same rule, the second fails (rule_authoring.rs:225-236).
CandidatesKept ==
    [][\A id \in DOMAIN directory : id \in DOMAIN directory' /\ directory'[id] = directory[id]]_vars
=============================================================================
