----------------------------- MODULE ProjectTrust -----------------------------
(***************************************************************************)
(* Project overlays, .container-bin.toml, and the user's trust in them     *)
(* (internal/projectconfig with the commands of main.go): cb trust and cb  *)
(* untrust, which rewrite project-trust.toml under the mutation lock, and  *)
(* the commands that find an overlay above their working directory, merge  *)
(* it with the global registry and act on it only if it is trusted.  One   *)
(* step is one look at the overlay, one file operation on the store or one *)
(* answer of the user.  All commands belong to one installation, so that   *)
(* one mutation lock orders the writers.                                   *)
(***************************************************************************)
EXTENDS Naturals

CONSTANTS
    OverlayJob,       \* concurrent commands
    Directory,        \* directories that may hold an overlay
    Parent,           \* the directory above; the root is its own
    Enclosing,        \* projects whose root contains the trust store itself
    MaxEdits,         \* bound: changes of an overlay or of the global registry
    MaxOverlayCommands \* bound: commands started in a behaviour

ASSUME ProjectTrustAssumption ==
    /\ Parent \in [Directory -> Directory]
    /\ Enclosing \subseteq Directory /\ Enclosing # Directory
    /\ MaxEdits \in Nat /\ MaxOverlayCommands \in Nat

\* What is at the path of an overlay: nothing, no regular file, a file that asks
\* for more than an overlay may (validateOverlay), or one of two accepted ones.
\* A content stands for its SHA-256.
ValidOverlay == {"lint", "lintAndFormat"}
Content == ValidOverlay \union {"absent", "notAFile", "forbidden"}
ToolNames(content) ==
    IF content = "lint" THEN {"lint"}
    ELSE IF content = "lintAndFormat" THEN {"lint", "format"} ELSE {}

NoRecord == "none"
Store == [Directory -> ValidOverlay \union {NoRecord}]
NoStore == [p \in Directory |-> "no file"]
EmptyStore == [p \in Directory |-> NoRecord]

VARIABLES
    overlay,     \* what is at each project's .container-bin.toml
    globalTools, \* the tools of the global registry an overlay could clash with
    trustFile, trustBak, \* project-trust.toml and its .bak
    shims,       \* overlay tools with a shim next to cb
    visit,       \* the commands
    edits, overlayCommands, \* what the bounds count
    \* history:
    approved,    \* <<project, content>> the user approved and did not withdraw
    stood        \* what was approved at some time since a command began

storeFiles == <<trustFile, trustBak>>
overlayWorld == <<overlay, globalTools, edits>>
projectTrustVars == <<overlay, globalTools, trustFile, trustBak, shims, visit, edits,
                      overlayCommands, approved, stood>>

NoVisit == [cmd |-> "none", step |-> "idle", global |-> {}, at |-> "",
            seen |-> "absent", store |-> NoStore, new |-> NoStore]

\* The store that counts: the file or, until it is recovered, its backup.
Recorded == IF trustFile # NoStore THEN trustFile
            ELSE IF trustBak # NoStore THEN trustBak ELSE EmptyStore
RecordsOf(store) == {<<p, store[p]>> : p \in {q \in Directory : store[q] \in ValidOverlay}}

ProjectTrustInit ==
    /\ overlay = [p \in Directory |-> "lint"]
    /\ globalTools = {}
    /\ \E s \in {NoStore, [EmptyStore EXCEPT ![CHOOSE p \in Directory : p \notin Enclosing] = "lint"]} :
          \/ trustFile = s /\ trustBak = NoStore
          \/ trustFile = NoStore /\ trustBak = s  \* an earlier write was cut short
    /\ shims = {}
    /\ visit = [j \in OverlayJob |-> NoVisit]
    /\ edits = 0 /\ overlayCommands = 0
    /\ approved = RecordsOf(Recorded)
    /\ stood = [j \in OverlayJob |-> {}]

-----------------------------------------------------------------------------
(* Commands *)

Visiting(j) == visit[j].step # "idle"
Deciding == {"trust", "untrust"}

\* The user changes an overlay, or the global registry gains or loses a tool.
EditProject ==
    /\ edits < MaxEdits /\ edits' = edits + 1
    /\ \/ /\ \E p \in Directory, c \in Content : overlay' = [overlay EXCEPT ![p] = c]
          /\ UNCHANGED globalTools
       \/ /\ globalTools' = {"format"} \ globalTools
          /\ UNCHANGED overlay
    /\ UNCHANGED <<storeFiles, shims, visit, overlayCommands, approved, stood>>

\* History: what is approved now was approved while these commands were running.
Remember ==
    stood' = [j \in OverlayJob |-> IF visit'[j].cmd = "run" THEN stood[j] \union approved' ELSE {}]

Mutant_MayDecide == TRUE  \* the writers without the mutation lock

\* trust and untrust hold the mutation lock from here to their end; the global
\* registry is loaded first.
MayDecide == \A k \in OverlayJob : ~(Visiting(k) /\ visit[k].cmd \in Deciding)

StartVisit(j) ==
    /\ ~Visiting(j) /\ overlayCommands < MaxOverlayCommands
    /\ overlayCommands' = overlayCommands + 1
    /\ \E c \in Deciding \union {"run"}, p \in Directory :
          /\ c \in Deciding => MayDecide
          /\ visit' = [visit EXCEPT ![j] = [NoVisit EXCEPT !.cmd = c, !.at = p, !.step = "find",
                                                           !.global = globalTools]]
    /\ UNCHANGED <<overlayWorld, storeFiles, shims, approved>>
    /\ Remember

VisitAt(j, step) == visit[j].step = step
To(j, step) == visit' = [visit EXCEPT ![j].step = step]
Leaves(j) == visit' = [visit EXCEPT ![j] = NoVisit]
GoesOrFails(j, ok, step) == IF ok THEN To(j, step) ELSE Leaves(j)
Quiet == UNCHANGED <<overlayWorld, storeFiles, shims, overlayCommands, approved>> /\ Remember

-----------------------------------------------------------------------------
(* Find, Load, Merge and the trust status *)

\* findFromRoot looks at one directory after the other, up to the root.
Climb(j) ==
    /\ VisitAt(j, "find")
    /\ LET p == visit[j].at IN
          /\ overlay[p] = "absent" /\ Parent[p] # p
          /\ visit' = [visit EXCEPT ![j].at = Parent[p]]
    /\ Quiet

\* No overlay leaves a run the global tools; untrust needs no contents.
Find(j) ==
    /\ VisitAt(j, "find")
    /\ LET w == visit[j] IN
          /\ overlay[w.at] # "absent" \/ Parent[w.at] = w.at
          /\ IF overlay[w.at] \in {"absent", "notAFile"} \/ (w.cmd = "untrust" /\ w.at \in Enclosing)
             THEN Leaves(j)
             ELSE To(j, IF w.cmd = "untrust" THEN "recover" ELSE "load")
    /\ Quiet

\* Load, Merge and validateExternalStore: the contents are read once, whatever
\* is at the path by now; a collision with a global tool makes it invalid.
LoadOverlay(j) ==
    /\ VisitAt(j, "load")
    /\ LET w == visit[j]  c == overlay[w.at] IN
          IF c \notin ValidOverlay \/ ToolNames(c) \intersect w.global # {} \/ w.at \in Enclosing
          THEN Leaves(j)
          ELSE visit' = [visit EXCEPT ![j].seen = c, ![j].step = "readStore"]
    /\ Quiet

\* loadStore reads the backup in place where the file is missing, and takes
\* two missing files for an empty store.
ReadStore(j) ==
    /\ VisitAt(j, "readStore")
    /\ visit' = [visit EXCEPT ![j].store = trustFile,
                     ![j].step = IF trustFile = NoStore THEN "readBackup" ELSE "judge"]
    /\ Quiet

ReadBackup(j) ==
    /\ VisitAt(j, "readBackup")
    /\ visit' = [visit EXCEPT ![j].store = IF trustBak = NoStore THEN EmptyStore ELSE trustBak,
                     ![j].step = "judge"]
    /\ Quiet

Mutant_IsTrusted(w) ==  \* the digest alone, whatever root it was approved for
    \E p \in Directory : w.store[p] = w.seen

IsTrusted(w) == w.store[w.at] = w.seen

\* A run goes on only with a trusted overlay; trust shows its review at any
\* status but invalid.
Judge(j) ==
    /\ VisitAt(j, "judge")
    /\ LET w == visit[j] IN
          IF w.cmd = "trust" THEN To(j, "review")
          ELSE GoesOrFails(j, IsTrusted(w), "run")
    /\ Quiet

\* The merged registry, with the overlay's root as the only workspace.
RunOverlayTool(j) == VisitAt(j, "run") /\ Leaves(j) /\ Quiet

-----------------------------------------------------------------------------
(* Trust *)

\* The user types "trust" (or gave --yes) for what the review shows.
Approve(j) ==
    /\ VisitAt(j, "review")
    /\ To(j, "recheck")
    /\ approved' = approved \union {<<visit[j].at, visit[j].seen>>}
    /\ UNCHANGED <<overlayWorld, storeFiles, shims, overlayCommands>>
    /\ Remember

\* The user declines, the input is no terminal, or it was only --check.
Decline(j) == VisitAt(j, "review") /\ Leaves(j) /\ Quiet

\* reloadReviewedOverlay searches from the reviewed root: the nearest overlay is
\* the one there, and must have the reviewed contents.
StillReviewed(w) == overlay[w.at] = w.seen

Recheck(j) ==
    /\ VisitAt(j, "recheck")
    /\ GoesOrFails(j, StillReviewed(visit[j]), "recover")
    /\ Quiet

\* RecoverFromBackup puts a lone backup back.
Recovered == IF trustFile = NoStore THEN trustBak ELSE trustFile

\* loadStoreForMutation.  untrust fails where there is nothing to withdraw.
LoadForMutation(j) ==
    /\ VisitAt(j, "recover")
    /\ trustFile' = Recovered
    /\ trustBak' = IF trustFile = NoStore /\ Recovered # NoStore THEN NoStore ELSE trustBak
    /\ LET w == visit[j]
           s == IF Recorded \in Store THEN Recorded ELSE EmptyStore IN
          IF w.cmd = "untrust" /\ s[w.at] = NoRecord THEN Leaves(j)
          ELSE visit' = [visit EXCEPT
                   ![j].store = s,
                   ![j].new = IF w.cmd = "untrust" THEN [s EXCEPT ![w.at] = NoRecord] ELSE NoStore,
                   ![j].step = IF w.cmd = "trust" THEN "shims" ELSE "dropBak"]
    /\ UNCHANGED <<overlayWorld, shims, overlayCommands, approved>>
    /\ Remember

\* The shims come first; without a record of trust they are inert.
InstallProjectShims(j) ==
    /\ VisitAt(j, "shims")
    /\ \/ shims' = shims \union ToolNames(visit[j].seen) /\ To(j, "recheckShims")
       \/ UNCHANGED shims /\ Leaves(j)
    /\ UNCHANGED <<overlayWorld, storeFiles, overlayCommands, approved>>
    /\ Remember

RecheckAfterShims(j) ==
    /\ VisitAt(j, "recheckShims")
    /\ LET w == visit[j] IN
          IF StillReviewed(w)
          THEN visit' = [visit EXCEPT ![j].step = "dropBak",
                             ![j].new = [w.store EXCEPT ![w.at] = overlay[w.at]]]
          ELSE Leaves(j)
    /\ Quiet

-----------------------------------------------------------------------------
(* saveStore: atomicio.WriteFile *)

DropTrustBak(j) ==
    /\ VisitAt(j, "dropBak")
    /\ trustBak' \in {NoStore, trustBak}  \* nobody looks at what os.Remove returns
    /\ To(j, IF trustFile = NoStore THEN "publish" ELSE "moveAside")
    /\ UNCHANGED <<overlayWorld, trustFile, shims, overlayCommands, approved>>
    /\ Remember

MoveTrustAside(j) ==
    /\ VisitAt(j, "moveAside")
    /\ \/ trustBak' = trustFile /\ trustFile' = NoStore /\ To(j, "publish")
       \/ UNCHANGED storeFiles /\ Leaves(j)
    /\ UNCHANGED <<overlayWorld, shims, overlayCommands, approved>>
    /\ Remember

\* The decision counts from here on; a trust replaces the project's earlier one.
PublishTrust(j) ==
    /\ VisitAt(j, "publish")
    /\ LET w == visit[j] IN
          \/ /\ trustFile' = w.new /\ To(j, "cleanBak")
             /\ approved' = {a \in approved :
                    a[1] = w.at => w.cmd = "trust" /\ a[2] = w.seen}
          \/ UNCHANGED <<trustFile, approved>> /\ To(j, "putBack")
    /\ UNCHANGED <<overlayWorld, trustBak, shims, overlayCommands>>
    /\ Remember

PutTrustBack(j) ==
    /\ VisitAt(j, "putBack")
    /\ \/ trustFile' = (IF trustBak = NoStore THEN trustFile ELSE trustBak) /\ trustBak' = NoStore
       \/ UNCHANGED storeFiles
    /\ Leaves(j)
    /\ UNCHANGED <<overlayWorld, shims, overlayCommands, approved>>
    /\ Remember

CleanTrustBak(j) ==
    /\ VisitAt(j, "cleanBak")
    /\ trustBak' = NoStore \/ UNCHANGED trustBak
    /\ Leaves(j)
    /\ UNCHANGED <<overlayWorld, trustFile, shims, overlayCommands, approved>>
    /\ Remember

KillVisit(j) == Visiting(j) /\ Leaves(j) /\ Quiet

InspectOverlay(j) ==
    Climb(j) \/ Find(j) \/ LoadOverlay(j) \/ ReadStore(j) \/ ReadBackup(j) \/ Judge(j)
TrustOverlay(j) ==
    Approve(j) \/ Decline(j) \/ Recheck(j) \/ LoadForMutation(j) \/ InstallProjectShims(j)
    \/ RecheckAfterShims(j)
SaveStore(j) ==
    DropTrustBak(j) \/ MoveTrustAside(j) \/ PublishTrust(j) \/ PutTrustBack(j) \/ CleanTrustBak(j)

ProjectTrustNext ==
    \/ EditProject
    \/ \E j \in OverlayJob : \/ StartVisit(j) \/ InspectOverlay(j) \/ TrustOverlay(j)
                             \/ SaveStore(j)
                             \/ RunOverlayTool(j) \/ KillVisit(j)

ProjectTrustSpec == ProjectTrustInit /\ [][ProjectTrustNext]_projectTrustVars

-----------------------------------------------------------------------------
(* Properties *)

\* A tool of an overlay runs only with the very contents the user reviewed and
\* approved for that very root, whatever was edited between the review, the
\* approval, the shims and the record; not once the trust is withdrawn or the
\* contents are replaced; never in place of a global tool; and never from a
\* project that could write its own trust (inspectLocation, Trust).
RunsApproved ==
    \A j \in OverlayJob : LET w == visit[j] IN
        w.cmd = "run" /\ w.step = "run" =>
            /\ <<w.at, w.seen>> \in stood[j]
            /\ ToolNames(w.seen) \intersect w.global = {}
            /\ w.at \notin Enclosing

\* What is recorded of a project changes only when the user trusts or withdraws
\* it: a decision about one project, its failure or its crash at any point leaves
\* what was decided about every other (loadStoreForMutation, saveStore).
OthersKept ==
    [][\A p \in Directory :
          Recorded'[p] # Recorded[p] =>
              \E j \in OverlayJob :
                  /\ visit[j].at = p /\ visit[j].cmd \in Deciding
                  /\ visit[j].step = "publish" /\ visit'[j].step = "cleanBak"]_projectTrustVars
=============================================================================
