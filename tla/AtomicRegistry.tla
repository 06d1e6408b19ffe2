--------------------------- MODULE AtomicRegistry ---------------------------
(***************************************************************************)
(* What container-bin.toml promises its commands: a registry that each     *)
(* mutating command changes once, in one step that depends only on what    *)
(* the registry holds then, and that never disappears once it exists --    *)
(* unless a failed write could not put the old file back, after which a    *)
(* command that writes without loading first may lose the registry.        *)
(***************************************************************************)
CONSTANTS
    Process,  \* invocations of cb
    Command   \* the commands they may be

Sections == Process \union {"custom", "builtin"}
Content == [exists : BOOLEAN, tools : SUBSET Sections]

Absent == [exists |-> FALSE, tools |-> {}]
File(tools) == [exists |-> TRUE, tools |-> tools]
Defaults == {"builtin"}
Snapshot == {"custom", "builtin"}

\* What a command makes of the tool sections it finds: add appends a section of
\* its own, uninstall (unexpose, default set) rewrites the file without one,
\* install and setup append the missing built-in ones, restore replaces all.
Effect(c, p, tools) ==
    IF c = "add" THEN tools \union {p}
    ELSE IF c = "uninstall" THEN tools \ {"custom"}
    ELSE IF c = "install" THEN tools \union Defaults
    ELSE IF c = "restore" THEN Snapshot
    ELSE tools

\* The commands that write the registry without a load under the lock.
WritesUnread == {"install", "restore"}

VARIABLES
    reg,       \* the registry
    exposed,   \* a failed write has left the registry to its backup only
    cmd,       \* the command each process is
    committed  \* the processes whose command has taken effect

Init ==
    /\ reg \in {Absent, File({"custom"})}
    /\ exposed = FALSE
    /\ cmd \in [Process -> Command]
    /\ committed = {}

\* EnsureFile: the first command that needs a registry creates the default one.
Create ==
    /\ ~reg.exists
    /\ reg' = File(Defaults)
    /\ UNCHANGED <<exposed, cmd, committed>>

Take(p) ==
    /\ p \notin committed
    /\ reg.exists \/ cmd[p] = "restore"
    /\ reg' = File(Effect(cmd[p], p, reg.tools))
    /\ committed' = committed \union {p}
    /\ UNCHANGED <<exposed, cmd>>

\* The rename of a write failed, and so did the one that puts the old file back.
Expose ==
    /\ exposed' = TRUE
    /\ UNCHANGED <<reg, cmd, committed>>

\* The backup is removed, or the defaults are written in its place.
Lose(p) ==
    /\ exposed /\ reg.exists
    /\ \/ cmd[p] \in WritesUnread /\ reg' = Absent
       \/ cmd[p] = "install" /\ reg' = File(Defaults)
    /\ UNCHANGED <<exposed, cmd, committed>>

Next == Create \/ Expose \/ \E p \in Process : Take(p) \/ Lose(p)

Spec == Init /\ [][Next]_<<reg, exposed, cmd, committed>>
=============================================================================
