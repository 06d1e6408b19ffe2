---------------------------- MODULE WslInstallProofs ----------------------------
(***************************************************************************)
(* Proofs about cb wsl install, for every set of concurrent installs: a    *)
(* managed link reaches a whole binary in a directory that is there, and   *)
(* no install takes an object of the user away.                            *)
(***************************************************************************)
EXTENDS WslInstall, TLAPS

Places == {"config", "lib", "bin"}
Linking == {"management", "inspect", "shims"}
Copying == {"hashRest", "stage", "stageRest", "publish"}
InstallSteps ==
    {"idle", "config", "lib", "bin", "rollback", "lock", "check", "registry", "preflight", "hash"}
    \union Copying \union Linking
Bytes == {NoBinary} \union (Build \X (Build \union {"none", "half"}))

InstallType ==
    [step : InstallSteps, made : SUBSET Places, names : SUBSET Tool, sum : Bytes, mtime : Nat,
     staged : Bytes]

InstallWorldOK ==
    /\ dirs \in SUBSET Places
    /\ wslTools \in {{"no file"}} \union SUBSET Tool
    /\ signed \in BOOLEAN
    /\ links \in [LinkName -> {"none", "managed", "foreign"}]
    /\ binary \in {NoBinary} \union {<<b, b>> : b \in Build}
    /\ installs \in Nat /\ meddling \in Nat

InstallTypeOK ==
    /\ InstallWorldOK
    /\ source \in [InstallJob -> [bytes : Build, mtime : Nat]]
    /\ install \in [InstallJob -> InstallType]

\* What was read of a source tells its bytes as long as its time has not changed.
CopyKnows(w, src) ==
    /\ w.step \in {"hashRest", "stage", "stageRest"} => w.mtime <= src.mtime
    /\ w.step = "hashRest" /\ w.mtime = src.mtime => w.sum[1] = src.bytes
    /\ w.step = "hashRest" => w.sum[1] \in Build
    /\ w.step \in {"stage", "stageRest"} /\ w.mtime = src.mtime => w.sum = <<src.bytes, src.bytes>>
    /\ w.step = "stageRest" => w.staged[1] \in Build
    /\ w.step = "publish" => w.staged = w.sum /\ w.sum \in {<<b, b>> : b \in Build}

\* What an install has found out, and what it relies on until it ends.
InstallKnows(w) ==
    /\ w.names \subseteq wslTools
    /\ w.staged # NoBinary => "lib" \in dirs
    /\ w.step \in Linking => binary # NoBinary
    /\ w.step \in {"inspect", "shims"} => links["cb"] = "managed"

\* The binary keeps its directory, and every managed link has both.
LinksHeld ==
    /\ binary # NoBinary => "lib" \in dirs
    /\ \A n \in LinkName : links[n] = "managed" =>
          binary # NoBinary /\ "bin" \in dirs /\ (n \in Tool => n \in wslTools)

InstallInv ==
    /\ InstallTypeOK
    /\ LinksHeld
    /\ \A j \in InstallJob : CopyKnows(install[j], source[j]) /\ InstallKnows(install[j])

-----------------------------------------------------------------------------
(* Frames *)

\* What other installs rely on is kept by a step of one of them.
Grown(j) ==
    /\ binary # NoBinary => binary' # NoBinary
    /\ wslTools \ {"no file"} \subseteq wslTools'
    /\ links["cb"] = "managed" => links'["cb"] = "managed"
    /\ \A k \in InstallJob \ {j} :
          install[k].staged # NoBinary /\ "lib" \in dirs => "lib" \in dirs'

\* A step of one install keeps the invariant if it keeps what the others rely on
\* and finds out what its own next step needs.
LEMMA InstallFrame ==
    ASSUME InstallInv, NEW j \in InstallJob, NEW v \in InstallType,
           install' = [install EXCEPT ![j] = v], source' = source,
           InstallWorldOK', LinksHeld', Grown(j),
           CopyKnows(v, source[j]), InstallKnows(v)'
    PROVE  InstallInv'
<1>1. /\ install'[j] = v
      /\ \A k \in InstallJob \ {j} : install'[k] = install[k]
      /\ install' \in [InstallJob -> InstallType]
  BY DEF InstallInv, InstallTypeOK
<1>2. InstallTypeOK'
  BY <1>1 DEF InstallInv, InstallTypeOK
<1>3. CopyKnows(install[j], source[j])' /\ InstallKnows(install[j])'
  BY <1>1 DEF CopyKnows, InstallKnows
<1>4. ASSUME NEW k \in InstallJob, k # j
      PROVE  CopyKnows(install[k], source[k])' /\ InstallKnows(install[k])'
  <2>1. install'[k] = install[k] /\ source'[k] = source[k]
    BY <1>1, <1>4
  <2>2. CopyKnows(install[k], source[k])'
    BY <2>1 DEF InstallInv, CopyKnows
  <2>3. install[k].names \subseteq wslTools \ {"no file"}
    BY DEF InstallInv, InstallTypeOK, InstallType, InstallKnows, Tool
  <2>4. InstallKnows(install[k])'
    BY <1>4, <2>1, <2>3 DEF InstallInv, InstallKnows, Grown
  <2> QED  BY <2>2, <2>4
<1> QED  BY <1>2, <1>3, <1>4 DEF InstallInv

LEMMA AbortFrame ==
    ASSUME InstallInv, NEW j \in InstallJob, Aborts(j), source' = source,
           InstallWorldOK', LinksHeld', Grown(j)
    PROVE  InstallInv'
<1>1. NoInstall \in InstallType
  BY DEF NoInstall, InstallType, InstallSteps, Bytes
<1>2. CopyKnows(NoInstall, source[j]) /\ InstallKnows(NoInstall)'
  BY DEF NoInstall, CopyKnows, InstallKnows, Linking
<1> QED  BY <1>1, <1>2, InstallFrame DEF Aborts

\* Nothing but the jobs themselves: what is installed stays as it is.
LEMMA WorldKept ==
    ASSUME InstallInv, UNCHANGED <<dirs, wslTools, signed, links, binary, meddling>>, installs' \in Nat
    PROVE  InstallWorldOK' /\ LinksHeld' /\ \A j \in InstallJob : Grown(j)
<1>1. InstallWorldOK'
  BY DEF InstallInv, InstallTypeOK, InstallWorldOK
<1>2. LinksHeld'
  BY DEF InstallInv, LinksHeld
<1> QED  BY <1>1, <1>2 DEF Grown

LEMMA InstallUpdates ==
    ASSUME NEW v \in InstallType
    PROVE  /\ \A st \in InstallSteps : [v EXCEPT !.step = st] \in InstallType
           /\ \A st \in InstallSteps, m \in SUBSET Places :
                 [v EXCEPT !.step = st, !.made = m] \in InstallType
           /\ \A m \in SUBSET Places : [v EXCEPT !.made = m] \in InstallType
           /\ \A n \in SUBSET Tool : [v EXCEPT !.names = n] \in InstallType
           /\ \A n \in SUBSET Tool : [v EXCEPT !.step = "preflight", !.names = n] \in InstallType
           /\ \A t \in Nat, b \in Bytes :
                 [v EXCEPT !.step = "hashRest", !.mtime = t, !.sum = b] \in InstallType
           /\ \A st \in InstallSteps, b \in Bytes :
                 [v EXCEPT !.sum = b, !.step = st] \in InstallType
           /\ \A st \in InstallSteps, b \in Bytes :
                 [v EXCEPT !.step = st, !.staged = b] \in InstallType
<1>1. \A st \in InstallSteps : [v EXCEPT !.step = st] \in InstallType
  BY DEF InstallType
<1>2. \A st \in InstallSteps, m \in SUBSET Places :
          [v EXCEPT !.step = st, !.made = m] \in InstallType
  BY DEF InstallType
<1>3. \A m \in SUBSET Places : [v EXCEPT !.made = m] \in InstallType
  BY DEF InstallType
<1>4. \A n \in SUBSET Tool : [v EXCEPT !.names = n] \in InstallType
  BY DEF InstallType
<1>5. \A n \in SUBSET Tool : [v EXCEPT !.step = "preflight", !.names = n] \in InstallType
  BY DEF InstallType, InstallSteps
<1>6. \A t \in Nat, b \in Bytes :
          [v EXCEPT !.step = "hashRest", !.mtime = t, !.sum = b] \in InstallType
  BY DEF InstallType, InstallSteps, Copying
<1>7. \A st \in InstallSteps, b \in Bytes : [v EXCEPT !.sum = b, !.step = st] \in InstallType
  BY DEF InstallType
<1>8. \A st \in InstallSteps, b \in Bytes : [v EXCEPT !.step = st, !.staged = b] \in InstallType
  BY DEF InstallType
<1> QED  BY <1>1, <1>2, <1>3, <1>4, <1>5, <1>6, <1>7, <1>8

LEMMA InstallAtWork ==
    ASSUME InstallInv, NEW j \in InstallJob
    PROVE  /\ install[j] \in InstallType /\ source[j] \in [bytes : Build, mtime : Nat]
           /\ CopyKnows(install[j], source[j]) /\ InstallKnows(install[j])
           /\ InstallWorldOK /\ LinksHeld
BY DEF InstallInv, InstallTypeOK

\* A step that goes on to a step which relies on nothing new.
LEMMA GoesOn ==
    ASSUME InstallInv, NEW j \in InstallJob, NEW v \in InstallType,
           v.step \notin Copying \union Linking,
           v.names = install[j].names, v.staged = install[j].staged,
           install' = [install EXCEPT ![j] = v], source' = source,
           InstallWorldOK', LinksHeld', Grown(j),
           v.staged # NoBinary => "lib" \in dirs'
    PROVE  InstallInv'
<1> PICK w : w = install[j]  OBVIOUS
<1>1. w \in InstallType /\ InstallKnows(w)
  BY InstallAtWork
<1>2. CopyKnows(v, source[j])
  BY DEF CopyKnows, Copying
<1>3. InstallKnows(v)'
  <2>1. w.names \subseteq wslTools \ {"no file"}
    BY <1>1 DEF InstallType, InstallKnows, Tool
  <2> QED  BY <1>1, <2>1 DEF InstallKnows, Linking, Grown
<1> QED  BY <1>2, <1>3, InstallFrame

-----------------------------------------------------------------------------
(* The steps *)

\* A step that touches nothing but the job's own place in the install.
LEMMA MovesOn ==
    ASSUME InstallInv, NEW j \in InstallJob, NEW st \in InstallSteps \ (Copying \union Linking),
           Moves(j, st), UNCHANGED <<dirs, wslTools, signed, links, binary, source, meddling>>,
           installs' \in Nat
    PROVE  InstallInv'
<1> PICK w : w = install[j]  OBVIOUS
<1> PICK v : v = [w EXCEPT !.step = st]  OBVIOUS
<1>1. w \in InstallType /\ InstallKnows(w)
  BY InstallAtWork
<1>2. v \in InstallType
  BY <1>1, InstallUpdates
<1>3. v.step = st /\ v.names = w.names /\ v.staged = w.staged
  BY <1>1 DEF InstallType
<1>4. install' = [install EXCEPT ![j] = v]
  BY DEF Moves
<1>5. InstallWorldOK' /\ LinksHeld' /\ Grown(j)
  BY WorldKept
<1>6. v.staged # NoBinary => "lib" \in dirs'
  BY <1>1, <1>3 DEF InstallKnows
<1> QED  BY <1>2, <1>3, <1>4, <1>5, <1>6, GoesOn

LEMMA AbortsQuietly ==
    ASSUME InstallInv, NEW j \in InstallJob, Aborts(j),
           UNCHANGED <<dirs, wslTools, signed, links, binary, source, installs, meddling>>
    PROVE  InstallInv'
<1>1. installs' \in Nat
  BY DEF InstallInv, InstallTypeOK, InstallWorldOK
<1> QED  BY <1>1, AbortFrame, WorldKept

\* The user's own steps.
LEMMA UserSteps ==
    ASSUME InstallInv, PlaceForeign \/ \E j \in InstallJob : OverwriteSource(j)
    PROVE  InstallInv'
<1>0. /\ InstallWorldOK /\ LinksHeld
      /\ \A k \in InstallJob : /\ CopyKnows(install[k], source[k]) /\ InstallKnows(install[k])
                               /\ install[k] \in InstallType
                               /\ source[k] \in [bytes : Build, mtime : Nat]
  BY InstallAtWork DEF InstallInv, InstallTypeOK
<1>1. CASE PlaceForeign
  <2>1. PICK n \in LinkName, l \in {"none", "foreign"} :
            links[n] \in {"none", "foreign"} /\ links' = [links EXCEPT ![n] = l]
    BY <1>1 DEF PlaceForeign
  <2>2. /\ UNCHANGED <<dirs, wslTools, signed, binary, source, install, installs>>
        /\ meddling' = meddling + 1
    BY <1>1 DEF PlaceForeign
  <2>3. links \in [LinkName -> {"none", "managed", "foreign"}]
    BY <1>0 DEF InstallWorldOK
  <2>4. /\ links' \in [LinkName -> {"none", "managed", "foreign"}]
        /\ \A k \in LinkName : links'[k] = "managed" <=> links[k] = "managed"
    BY <2>1, <2>3
  <2>5. InstallTypeOK'
    <3>1. meddling' \in Nat
      <4>1. meddling \in Nat  BY <1>0 DEF InstallWorldOK
      <4>2. meddling' = meddling + 1  BY <2>2
      <4> QED  BY <4>1, <4>2
    <3> QED  BY <1>0, <2>2, <2>4, <3>1 DEF InstallInv, InstallTypeOK, InstallWorldOK
  <2>6. LinksHeld'
    BY <1>0, <2>2, <2>4 DEF LinksHeld
  <2>7. \A k \in InstallJob : CopyKnows(install[k], source[k])' /\ InstallKnows(install[k])'
    BY <1>0, <2>2, <2>4 DEF CopyKnows, InstallKnows, LinkName
  <2> QED  BY <2>5, <2>6, <2>7 DEF InstallInv
<1>2. ASSUME NEW j \in InstallJob, OverwriteSource(j) PROVE InstallInv'
  <2>1. PICK s : s = [bytes |-> IF source[j].bytes = "v1" THEN "v2" ELSE "v1",
                      mtime |-> source[j].mtime + 1]
    OBVIOUS
  <2>2. /\ source' = [source EXCEPT ![j] = s] /\ meddling' = meddling + 1
        /\ UNCHANGED <<dirs, wslTools, signed, links, binary, install, installs>>
    BY <1>2, <2>1 DEF OverwriteSource
  <2>3. s \in [bytes : Build, mtime : Nat] /\ s.mtime > source[j].mtime
    BY <1>0, <2>1 DEF Build
  <2>4. InstallTypeOK'
    <3>1. meddling' \in Nat
      <4>1. meddling \in Nat  BY <1>0 DEF InstallWorldOK
      <4>2. meddling' = meddling + 1  BY <2>2
      <4> QED  BY <4>1, <4>2
    <3>2. source' \in [InstallJob -> [bytes : Build, mtime : Nat]]
      BY <2>2, <2>3 DEF InstallInv, InstallTypeOK
    <3> QED  BY <2>2, <3>1, <3>2 DEF InstallInv, InstallTypeOK, InstallWorldOK
  <2>5. LinksHeld'
    BY <1>0, <2>2 DEF LinksHeld
  <2>6. ASSUME NEW k \in InstallJob
        PROVE  CopyKnows(install[k], source[k])' /\ InstallKnows(install[k])'
    <3>1. InstallKnows(install[k])'
      BY <1>0, <2>2 DEF InstallKnows
    <3>2. CASE k # j
      <4>1. source'[k] = source[k] /\ install'[k] = install[k]
        BY <2>2, <3>2
      <4> QED  BY <1>0, <3>1, <4>1 DEF CopyKnows
    <3>3. CASE k = j
      <4>1. source'[j] = s /\ install'[j] = install[j]
        BY <2>2 DEF InstallInv, InstallTypeOK
      <4>2. install[j].mtime \in Nat /\ source[j].mtime \in Nat /\ s.mtime \in Nat
        BY <1>0, <2>3 DEF InstallType
      <4>3. install[j].mtime <= source[j].mtime =>
                install[j].mtime <= s.mtime /\ install[j].mtime # s.mtime
        BY <2>3, <4>2
      <4>4. CopyKnows(install[j], s)
        BY <1>0, <4>3 DEF CopyKnows
      <4> QED  BY <3>1, <3>3, <4>1, <4>4 DEF CopyKnows
    <3> QED  BY <3>2, <3>3
  <2> QED  BY <2>4, <2>5, <2>6 DEF InstallInv
<1> QED  BY <1>1, <1>2

\* The directories are made and taken back without the lock: a directory that
\* holds a temporary file, a binary or a link is not empty.
LEMMA LayoutSteps ==
    ASSUME InstallInv, NEW j \in InstallJob, PrepareLayout(j)
    PROVE  InstallInv'
<1> PICK w : w = install[j]  OBVIOUS
<1>1. /\ w \in InstallType /\ InstallKnows(w) /\ InstallWorldOK /\ LinksHeld
      /\ \A k \in InstallJob : InstallKnows(install[k])
  BY InstallAtWork
<1>2. CASE PrepareDirectory(j)
  <2>1. PICK d \in Places :
            \/ /\ dirs' = dirs \union {d}
               /\ \E step \in {Following(d), "rollback"} :
                     install' = [install EXCEPT ![j].step = step, ![j].made = @ \union ({d} \ dirs)]
            \/ Moves(j, "rollback") /\ UNCHANGED dirs
    BY <1>2 DEF PrepareDirectory, Places
  <2>2. UNCHANGED <<wslTools, links, binary, signed, source, installs, meddling>>
    BY <1>2 DEF PrepareDirectory, WslRest
  <2>3. Following(d) \in {"lib", "bin", "lock"} \ (Copying \union Linking)
    BY DEF Following, Copying, Linking
  <2>4. CASE Moves(j, "rollback") /\ UNCHANGED dirs
    <3>1. installs' \in Nat
      BY <1>1, <2>2 DEF InstallWorldOK
    <3>2. "rollback" \in InstallSteps \ (Copying \union Linking)
      BY DEF InstallSteps, Copying, Linking
    <3> QED  BY <2>2, <2>4, <3>1, <3>2, MovesOn
  <2>5. ASSUME dirs' = dirs \union {d}, NEW st \in {Following(d), "rollback"},
               install' = [install EXCEPT ![j].step = st, ![j].made = @ \union ({d} \ dirs)]
        PROVE  InstallInv'
    <3>1. PICK m : m = w.made \union ({d} \ dirs)  OBVIOUS
    <3>2. PICK v : v = [w EXCEPT !.step = st, !.made = m]  OBVIOUS
    <3>3. m \in SUBSET Places
      BY <1>1, <3>1 DEF InstallType
    <3>4. st \in InstallSteps \ (Copying \union Linking)
      BY <2>3 DEF InstallSteps, Copying, Linking
    <3>5. v \in InstallType
      BY <1>1, <3>2, <3>3, <3>4, InstallUpdates
    <3>6. v.step = st /\ v.names = w.names /\ v.staged = w.staged
      BY <1>1, <3>2 DEF InstallType
    <3>7. install' = [install EXCEPT ![j] = v]
      BY <2>5, <3>1, <3>2
    <3>8. InstallWorldOK' /\ LinksHeld' /\ Grown(j)
      BY <1>1, <2>2, <2>5 DEF InstallWorldOK, LinksHeld, Grown, Places
    <3>9. v.staged # NoBinary => "lib" \in dirs'
      BY <1>1, <2>5, <3>6 DEF InstallKnows
    <3> QED  BY <2>2, <3>4, <3>5, <3>6, <3>7, <3>8, <3>9, GoesOn
  <2> QED  BY <2>1, <2>4, <2>5
<1>3. CASE RollBackDirectory(j)
  <2>1. PICK d \in w.made :
            /\ dirs' = IF InUse(d) THEN dirs ELSE dirs \ {d}
            /\ install' = [install EXCEPT ![j].made = @ \ {d}]
    BY <1>3 DEF RollBackDirectory
  <2>2. w.step = "rollback" /\ UNCHANGED <<wslTools, links, binary, signed, source, installs, meddling>>
    BY <1>3 DEF RollBackDirectory, Does, WslRest
  <2>3. d \in Places /\ dirs' \in SUBSET Places
    BY <1>1, <2>1 DEF InstallType, InstallWorldOK
  <2>4. "lib" \in dirs /\ "lib" \notin dirs' =>
            binary = NoBinary /\ \A k \in InstallJob : install[k].staged = NoBinary
    BY <2>1 DEF InUse
  <2>5. "bin" \in dirs /\ "bin" \notin dirs' => \A n \in LinkName : links[n] = "none"
    BY <2>1, <2>3 DEF InUse, Places
  <2>6. InstallWorldOK' /\ LinksHeld' /\ Grown(j)
    BY <1>1, <2>2, <2>3, <2>4, <2>5 DEF InstallWorldOK, LinksHeld, Grown
  <2>7. PICK v : v = [w EXCEPT !.made = w.made \ {d}]  OBVIOUS
  <2>8. v \in InstallType
    <3>1. w.made \ {d} \in SUBSET Places
      BY <1>1 DEF InstallType
    <3> QED  BY <1>1, <2>7, <3>1, InstallUpdates
  <2>9. v.step = "rollback" /\ v.names = w.names /\ v.staged = w.staged
    BY <1>1, <2>2, <2>7 DEF InstallType
  <2>10. v.staged # NoBinary => "lib" \in dirs'
    BY <1>1, <2>4, <2>9 DEF InstallKnows
  <2>11. install' = [install EXCEPT ![j] = v]
    BY <2>1, <2>7
  <2> QED
    BY <2>2, <2>6, <2>8, <2>9, <2>10, <2>11, GoesOn DEF Copying, Linking
<1>4. CASE RolledBack(j)
  BY <1>4, AbortsQuietly DEF RolledBack, WslRest
<1> QED  BY <1>2, <1>3, <1>4 DEF PrepareLayout

LEMMA StartAndChecks ==
    ASSUME InstallInv, NEW j \in InstallJob,
           StartInstall(j) \/ LockInstall(j) \/ CheckLayout(j) \/ PreflightShims(j) \/ KillInstall(j)
    PROVE  InstallInv'
<1>1. installs \in Nat
  BY DEF InstallInv, InstallTypeOK, InstallWorldOK
<1>2. {"config", "check", "registry", "hash"} \subseteq InstallSteps \ (Copying \union Linking)
  BY DEF InstallSteps, Copying, Linking
<1>3. CASE StartInstall(j)
  <2>1. installs' \in Nat
    <3>1. installs' = installs + 1  BY <1>3 DEF StartInstall
    <3> QED  BY <1>1, <3>1
  <2> QED  BY <1>2, <1>3, <2>1, MovesOn DEF StartInstall
<1>4. CASE LockInstall(j)
  BY <1>1, <1>2, <1>4, MovesOn, AbortsQuietly DEF LockInstall, NextIf, WslRest
<1>5. CASE CheckLayout(j)
  BY <1>1, <1>2, <1>5, MovesOn, AbortsQuietly DEF CheckLayout, NextIf, WslRest
<1>6. CASE PreflightShims(j)
  BY <1>1, <1>2, <1>6, MovesOn, AbortsQuietly DEF PreflightShims, NextIf, WslRest
<1>7. CASE KillInstall(j)
  BY <1>7, AbortsQuietly DEF KillInstall, WslRest
<1> QED  BY <1>3, <1>4, <1>5, <1>6, <1>7

\* Tools are only ever added to the registry file.
LEMMA RegistryStep ==
    ASSUME InstallInv, NEW j \in InstallJob, EnsureRegistry(j)
    PROVE  InstallInv'
<1> PICK w : w = install[j]  OBVIOUS
<1>1. /\ w \in InstallType /\ InstallKnows(w) /\ InstallWorldOK /\ LinksHeld
  BY InstallAtWork
<1>2. /\ wslTools' = IF signed THEN wslTools ELSE (wslTools \ {"no file"}) \union Shipped
      /\ UNCHANGED <<dirs, signed, links, binary, source, installs, meddling>>
  BY DEF EnsureRegistry, WslRest
<1>3. wslTools' \in {{"no file"}} \union SUBSET Tool /\ wslTools \ {"no file"} \subseteq wslTools'
  BY <1>1, <1>2 DEF InstallWorldOK, Shipped
<1>4. \A n \in Tool : n \in wslTools => n \in wslTools'
  BY <1>3 DEF Tool
<1>5. InstallWorldOK' /\ LinksHeld' /\ Grown(j)
  BY <1>1, <1>2, <1>3, <1>4 DEF InstallWorldOK, LinksHeld, Grown
<1>6. CASE Aborts(j)
  BY <1>2, <1>5, <1>6, AbortFrame
<1>7. CASE ~Aborts(j)
  <2>1. PICK names : names = wslTools'  OBVIOUS
  <2>2. PICK v : v = [w EXCEPT !.step = "preflight", !.names = names]  OBVIOUS
  <2>3. install' = [install EXCEPT ![j] = v] /\ wslTools' # {"no file"}
    BY <1>7, <2>1, <2>2 DEF EnsureRegistry
  <2>4. v \in InstallType
    BY <1>1, <1>3, <2>1, <2>2, <2>3, InstallUpdates
  <2>5. v.step = "preflight" /\ v.names = names /\ v.staged = w.staged
    BY <1>1, <2>2 DEF InstallType
  <2>6. CopyKnows(v, source[j])
    BY <2>5 DEF CopyKnows
  <2>7. InstallKnows(v)'
    BY <1>1, <1>2, <2>1, <2>5 DEF InstallKnows, Linking
  <2> QED  BY <1>2, <1>5, <2>3, <2>4, <2>6, <2>7, InstallFrame
<1> QED  BY <1>6, <1>7

\* The bytes that are renamed into place are those of one moment: the source had
\* the same time from before the first half was hashed until the copy was made.
LEMMA BinarySteps ==
    ASSUME InstallInv, NEW j \in InstallJob, InstallBinary(j)
    PROVE  InstallInv'
<1> PICK w : w = install[j]  OBVIOUS
<1> PICK src : src = source[j]  OBVIOUS
<1>1. /\ w \in InstallType /\ src \in [bytes : Build, mtime : Nat] /\ CopyKnows(w, src)
      /\ InstallKnows(w) /\ InstallWorldOK /\ LinksHeld
  BY InstallAtWork
<1>2. UNCHANGED <<dirs, wslTools, links, signed, source, installs, meddling>>
  BY DEF InstallBinary, HashSource, HashRest, StageBinary, StageRest, PublishBinary, WslRest
<1>3. binary' = binary => InstallWorldOK' /\ LinksHeld' /\ Grown(j)
  BY <1>1, <1>2, WorldKept DEF InstallWorldOK
<1>4. CASE Aborts(j) /\ binary' = binary
  BY <1>2, <1>3, <1>4, AbortFrame
<1>5. ASSUME NEW v \in InstallType, install' = [install EXCEPT ![j] = v], binary' = binary,
             CopyKnows(v, src), v.names = w.names,
             v.staged # NoBinary => "lib" \in dirs, v.step \in Linking => binary # NoBinary,
             v.step \notin {"inspect", "shims"}
      PROVE  InstallInv'
  <2>1. InstallKnows(v)'
    BY <1>1, <1>2, <1>5 DEF InstallKnows
  <2> QED  BY <1>2, <1>3, <1>5, <2>1, InstallFrame
<1>6. CASE HashSource(j)
  <2>1. PICK b : b = <<src.bytes, "none">>  OBVIOUS
  <2>2. PICK v : v = [w EXCEPT !.step = "hashRest", !.mtime = src.mtime, !.sum = b]  OBVIOUS
  <2>3. install' = [install EXCEPT ![j] = v] /\ binary' = binary
    BY <1>6, <2>1, <2>2 DEF HashSource
  <2>4. b \in Bytes /\ b[1] = src.bytes
    BY <1>1, <2>1 DEF Bytes
  <2>5. v \in InstallType
    BY <1>1, <2>2, <2>4, InstallUpdates
  <2>6. /\ v.step = "hashRest" /\ v.mtime = src.mtime /\ v.sum = b /\ v.names = w.names
        /\ v.staged = w.staged
    BY <1>1, <2>2 DEF InstallType
  <2>7. CopyKnows(v, src)
    BY <1>1, <2>4, <2>6 DEF CopyKnows
  <2> QED
    BY <1>1, <1>5, <2>3, <2>5, <2>6, <2>7 DEF InstallKnows, Linking
<1>7. CASE HashRest(j)
  <2>1. PICK sum : sum = <<w.sum[1], src.bytes>>  OBVIOUS
  <2>2. PICK st : st = IF binary = sum THEN "management" ELSE "stage"  OBVIOUS
  <2>3. PICK v : v = [w EXCEPT !.sum = sum, !.step = st]  OBVIOUS
  <2>4. install' = [install EXCEPT ![j] = v] /\ binary' = binary /\ w.step = "hashRest"
    BY <1>7, <2>1, <2>2, <2>3 DEF HashRest, Does
  <2>5. w.sum[1] \in Build
    BY <1>1, <2>4 DEF CopyKnows
  <2>6. sum \in Bytes /\ sum # NoBinary /\ st \in InstallSteps
    BY <1>1, <2>1, <2>2, <2>5 DEF Bytes, Build, NoBinary, InstallSteps, Linking, Copying
  <2>7. v \in InstallType
    BY <1>1, <2>3, <2>6, InstallUpdates
  <2>8. /\ v.step = st /\ v.mtime = w.mtime /\ v.sum = sum /\ v.names = w.names
        /\ v.staged = w.staged
    BY <1>1, <2>3 DEF InstallType
  <2>9. CopyKnows(v, src)
    BY <1>1, <2>1, <2>2, <2>4, <2>8 DEF CopyKnows
  <2> QED
    BY <1>1, <1>5, <2>2, <2>4, <2>6, <2>7, <2>8, <2>9 DEF InstallKnows, Linking
<1>8. CASE StageBinary(j) /\ ~Aborts(j)
  <2>1. PICK b : b = <<src.bytes, "half">>  OBVIOUS
  <2>2. PICK v : v = [w EXCEPT !.step = "stageRest", !.staged = b]  OBVIOUS
  <2>3. /\ install' = [install EXCEPT ![j] = v] /\ binary' = binary /\ w.step = "stage"
        /\ "lib" \in dirs
    BY <1>8, <2>1, <2>2 DEF StageBinary, Does
  <2>4. b \in Bytes /\ b[1] = src.bytes
    BY <1>1, <2>1 DEF Bytes
  <2>5. v \in InstallType
    BY <1>1, <2>2, <2>4, InstallUpdates DEF InstallSteps, Copying
  <2>6. /\ v.step = "stageRest" /\ v.mtime = w.mtime /\ v.sum = w.sum /\ v.names = w.names
        /\ v.staged = b
    BY <1>1, <2>2 DEF InstallType
  <2>7. CopyKnows(v, src)
    BY <1>1, <2>3, <2>4, <2>6 DEF CopyKnows
  <2> QED  BY <1>5, <2>3, <2>5, <2>6, <2>7 DEF Linking
<1>9. CASE StageRest(j) /\ ~Aborts(j)
  <2>1. PICK copy : copy = <<w.staged[1], src.bytes>>  OBVIOUS
  <2>2. PICK v : v = [w EXCEPT !.step = "publish", !.staged = copy]  OBVIOUS
  <2>3. /\ install' = [install EXCEPT ![j] = v] /\ binary' = binary /\ w.step = "stageRest"
        /\ copy = w.sum /\ src.mtime = w.mtime
    BY <1>9, <2>1, <2>2 DEF StageRest, Does, CopiedUnchanged
  <2>4. w.sum = <<src.bytes, src.bytes>> /\ w.sum \in {<<b, b>> : b \in Build}
    BY <1>1, <2>3 DEF CopyKnows
  <2>5. v \in InstallType
    <3>1. copy \in Bytes /\ "publish" \in InstallSteps
      BY <1>1, <2>3 DEF InstallSteps, Copying, InstallType
    <3> QED  BY <1>1, <2>2, <3>1, InstallUpdates
  <2>6. /\ v.step = "publish" /\ v.sum = w.sum /\ v.names = w.names /\ v.staged = copy
    BY <1>1, <2>2 DEF InstallType
  <2>7. CopyKnows(v, src)
    BY <2>3, <2>4, <2>6 DEF CopyKnows
  <2>8. w.staged # NoBinary
    BY <1>1, <2>3 DEF CopyKnows, NoBinary, Build
  <2> QED  BY <1>1, <1>5, <2>3, <2>5, <2>6, <2>7, <2>8 DEF Linking, InstallKnows
<1>10. CASE PublishBinary(j) /\ ~(Aborts(j) /\ binary' = binary)
  <2>1. w.step = "publish" /\ binary' = w.staged
    BY <1>10 DEF PublishBinary, Does
  <2>2. w.staged = w.sum /\ w.sum \in {<<b, b>> : b \in Build}
    BY <1>1, <2>1 DEF CopyKnows
  <2>3. binary' \in {<<b, b>> : b \in Build} /\ binary' # NoBinary
    BY <2>1, <2>2 DEF NoBinary, Build
  <2>4. "lib" \in dirs
    BY <1>1, <2>1, <2>3 DEF InstallKnows
  <2>5. InstallWorldOK' /\ LinksHeld' /\ Grown(j)
    BY <1>1, <1>2, <2>3, <2>4 DEF InstallWorldOK, LinksHeld, Grown
  <2>6. PICK v : v = [w EXCEPT !.step = "management", !.staged = NoBinary]  OBVIOUS
  <2>7. install' = [install EXCEPT ![j] = v]
    BY <1>10, <2>1, <2>2, <2>6 DEF PublishBinary
  <2>8. v \in InstallType
    BY <1>1, <2>6, InstallUpdates DEF InstallSteps, Linking, Bytes
  <2>9. v.step = "management" /\ v.names = w.names /\ v.staged = NoBinary
    BY <1>1, <2>6 DEF InstallType
  <2>10. CopyKnows(v, src)
    BY <2>9 DEF CopyKnows
  <2>11. InstallKnows(v)'
    BY <1>1, <1>2, <2>3, <2>9 DEF InstallKnows
  <2> QED  BY <1>2, <2>5, <2>7, <2>8, <2>10, <2>11, InstallFrame
<1>11. (StageBinary(j) \/ StageRest(j)) => binary' = binary
  BY DEF StageBinary, StageRest
<1> QED
  BY <1>4, <1>6, <1>7, <1>8, <1>9, <1>10, <1>11 DEF InstallBinary

\* A link that is made leads to the binary, and none is lost.
LEMMA LinkMade ==
    ASSUME InstallInv, NEW n \in LinkName, EnsureLink(n), binary # NoBinary, "bin" \in dirs,
           n \in Tool => n \in wslTools,
           UNCHANGED <<dirs, wslTools, signed, binary, installs, meddling>>
    PROVE  /\ InstallWorldOK' /\ LinksHeld' /\ \A j \in InstallJob : Grown(j)
<1>1. InstallWorldOK /\ LinksHeld
  BY DEF InstallInv, InstallTypeOK
<1>2. links \in [LinkName -> {"none", "managed", "foreign"}]
  BY <1>1 DEF InstallWorldOK
<1>3. /\ links' \in [LinkName -> {"none", "managed", "foreign"}]
      /\ \A m \in LinkName : links[m] = "managed" => links'[m] = "managed"
      /\ \A m \in LinkName \ {n} : links'[m] = links[m]
  BY <1>2 DEF EnsureLink
<1>4. InstallWorldOK'
  BY <1>1, <1>3 DEF InstallWorldOK
<1>5. LinksHeld'
  BY <1>1, <1>3 DEF LinksHeld
<1>6. "cb" \in LinkName
  BY DEF LinkName
<1> QED  BY <1>3, <1>4, <1>5, <1>6 DEF Grown

LEMMA LinkSteps ==
    ASSUME InstallInv, NEW j \in InstallJob, Reconcile(j)
    PROVE  InstallInv'
<1> PICK w : w = install[j]  OBVIOUS
<1>1. /\ w \in InstallType /\ InstallKnows(w) /\ InstallWorldOK /\ LinksHeld
  BY InstallAtWork
<1>2. UNCHANGED <<dirs, wslTools, binary, signed, source, installs, meddling>>
  BY DEF Reconcile, ReconcileManagement, InspectShims, ReconcileShim, EndInstall, WslRest
<1>3. w.step \in Linking /\ binary # NoBinary
  BY <1>1 DEF Reconcile, ReconcileManagement, InspectShims, ReconcileShim, EndInstall, Does,
              Linking, InstallKnows
<1>4. links' = links => InstallWorldOK' /\ LinksHeld' /\ Grown(j)
  BY <1>1, <1>2, WorldKept DEF InstallWorldOK
<1>5. CASE Aborts(j) /\ links' = links
  BY <1>2, <1>4, <1>5, AbortFrame
<1>6. ASSUME NEW v \in InstallType, install' = [install EXCEPT ![j] = v],
             v.step \in {"inspect", "shims"}, v.names \subseteq w.names, v.staged = w.staged,
             links'["cb"] = "managed", InstallWorldOK', LinksHeld', Grown(j)
      PROVE  InstallInv'
  <2>1. CopyKnows(v, source[j])
    BY <1>6 DEF CopyKnows
  <2>2. InstallKnows(v)'
    BY <1>1, <1>2, <1>3, <1>6 DEF InstallKnows
  <2> QED  BY <1>2, <1>6, <2>1, <2>2, InstallFrame
<1>7. CASE ReconcileManagement(j) /\ ~(Aborts(j) /\ links' = links)
  <2>1. "bin" \in dirs /\ EnsureLink("cb") /\ NextIf(j, links'["cb"] = "managed", "inspect")
    BY <1>7 DEF ReconcileManagement
  <2>2. "cb" \in LinkName /\ "cb" \notin Tool
    BY DEF LinkName, Tool
  <2>3. InstallWorldOK' /\ LinksHeld' /\ Grown(j)
    BY <1>2, <1>3, <2>1, <2>2, LinkMade
  <2>4. CASE Aborts(j)
    BY <1>2, <2>3, <2>4, AbortFrame
  <2>5. CASE links'["cb"] = "managed" /\ Moves(j, "inspect")
    <3>1. PICK v : v = [w EXCEPT !.step = "inspect"]  OBVIOUS
    <3>2. v \in InstallType
      BY <1>1, <3>1, InstallUpdates DEF InstallSteps, Linking
    <3>3. v.step = "inspect" /\ v.names = w.names /\ v.staged = w.staged
      BY <1>1, <3>1 DEF InstallType
    <3> QED  BY <1>6, <2>3, <2>5, <3>1, <3>2, <3>3 DEF Moves
  <2> QED  BY <2>1, <2>4, <2>5 DEF NextIf
<1>8. CASE InspectShims(j) /\ ~Aborts(j)
  <2>1. links["cb"] = "managed" /\ links' = links /\ Moves(j, "shims")
    BY <1>8 DEF InspectShims, NextIf
  <2>2. PICK v : v = [w EXCEPT !.step = "shims"]  OBVIOUS
  <2>3. v \in InstallType
    BY <1>1, <2>2, InstallUpdates DEF InstallSteps, Linking
  <2>4. v.step = "shims" /\ v.names = w.names /\ v.staged = w.staged
    BY <1>1, <2>2 DEF InstallType
  <2> QED  BY <1>4, <1>6, <2>1, <2>2, <2>3, <2>4 DEF Moves
<1>9. CASE ReconcileShim(j)
  <2>1. PICK n \in w.names :
            /\ EnsureLink(n)
            /\ IF links'[n] = "managed" THEN install' = [install EXCEPT ![j].names = @ \ {n}]
               ELSE Aborts(j)
    BY <1>9 DEF ReconcileShim
  <2>2. w.step = "shims" /\ links["cb"] = "managed"
    BY <1>1, <1>9 DEF ReconcileShim, Does, InstallKnows
  <2>3. n \in LinkName /\ n \in wslTools /\ "cb" \in LinkName
    BY <1>1, <2>1 DEF InstallType, InstallKnows, LinkName
  <2>4. "bin" \in dirs
    BY <1>1, <2>2, <2>3 DEF LinksHeld
  <2>5. InstallWorldOK' /\ LinksHeld' /\ Grown(j)
    BY <1>2, <1>3, <2>1, <2>3, <2>4, LinkMade
  <2>6. CASE Aborts(j)
    BY <1>2, <2>5, <2>6, AbortFrame
  <2>7. CASE ~Aborts(j)
    <3>1. PICK names : names = w.names \ {n}  OBVIOUS
    <3>2. PICK v : v = [w EXCEPT !.names = names]  OBVIOUS
    <3>3. v \in InstallType
      <4>1. names \in SUBSET Tool
        BY <1>1, <3>1 DEF InstallType
      <4> QED  BY <1>1, <3>2, <4>1, InstallUpdates
    <3>4. v.step = "shims" /\ v.names = names /\ v.staged = w.staged
      BY <1>1, <2>2, <3>2 DEF InstallType
    <3>5. install' = [install EXCEPT ![j] = v]
      BY <2>1, <2>7, <3>1, <3>2
    <3>6. links'["cb"] = "managed"
      BY <2>2, <2>5 DEF Grown
    <3> QED  BY <1>6, <2>5, <3>1, <3>3, <3>4, <3>5, <3>6
  <2> QED  BY <2>6, <2>7
<1>10. /\ EndInstall(j) => Aborts(j) /\ links' = links
       /\ InspectShims(j) => links' = links
  BY DEF EndInstall, InspectShims
<1> QED  BY <1>5, <1>7, <1>8, <1>9, <1>10 DEF Reconcile

-----------------------------------------------------------------------------
(* Theorems *)

LEMMA InstallInit == WslInstallInit => InstallInv
<1> SUFFICES ASSUME WslInstallInit PROVE InstallInv
  OBVIOUS
<1>1. NoInstall \in InstallType
  BY DEF NoInstall, InstallType, InstallSteps, Bytes
<1>2. /\ install = [j \in InstallJob |-> NoInstall]
      /\ source = [j \in InstallJob |-> [bytes |-> "v2", mtime |-> 0]]
      /\ links = [n \in LinkName |-> "none"]
      /\ installs = 0 /\ meddling = 0 /\ signed \in BOOLEAN
      /\ dirs \in {{}, {"config", "lib", "bin"}}
      /\ wslTools \in {{"python"}, {"no file"}}
      /\ binary \in {NoBinary} \union (IF dirs = {} THEN {} ELSE {<<"v1", "v1">>})
  BY DEF WslInstallInit
<1>3. InstallWorldOK
  BY <1>2 DEF InstallWorldOK, Places, Tool, Build
<1>4. InstallTypeOK
  BY <1>1, <1>2, <1>3 DEF InstallTypeOK, Build
<1>5. LinksHeld
  BY <1>2 DEF LinksHeld
<1>6. \A j \in InstallJob : CopyKnows(install[j], source[j]) /\ InstallKnows(install[j])
  BY <1>2 DEF CopyKnows, InstallKnows, NoInstall, Linking
<1> QED  BY <1>4, <1>5, <1>6 DEF InstallInv

LEMMA InstallStep == InstallInv /\ [WslInstallNext]_wslInstallVars => InstallInv'
<1> SUFFICES ASSUME InstallInv, [WslInstallNext]_wslInstallVars PROVE InstallInv'
  OBVIOUS
<1>1. CASE UNCHANGED wslInstallVars
  BY <1>1 DEF wslInstallVars, InstallInv, InstallTypeOK, InstallWorldOK, LinksHeld, CopyKnows,
              InstallKnows
<1>2. CASE WslInstallNext
  BY <1>2, UserSteps, StartAndChecks, LayoutSteps, RegistryStep, BinarySteps, LinkSteps
  DEF WslInstallNext
<1> QED  BY <1>1, <1>2

LEMMA InstallInvariance == WslInstallSpec => []InstallInv
BY InstallInit, InstallStep, PTL DEF WslInstallSpec

\* Whatever is killed, rolled back or overwritten by any number of installs at
\* once, a managed link leads to a whole build in a directory that is there, and
\* its tool is in the registry (installBinaryFile, reconcile, prepare).
THEOREM LinksReachBinary == WslInstallSpec => []LinksReachWholeBinary
<1>1. InstallInv => LinksReachWholeBinary
  <2> SUFFICES ASSUME InstallInv, NEW n \in LinkName, links[n] = "managed"
               PROVE  /\ Whole(binary) /\ {"lib", "bin"} \subseteq dirs
                      /\ n \in Tool => n \in wslTools
    BY DEF LinksReachWholeBinary
  <2>1. /\ binary # NoBinary /\ {"lib", "bin"} \subseteq dirs
        /\ n \in Tool => n \in wslTools
    BY DEF InstallInv, LinksHeld
  <2>2. binary \in {<<b, b>> : b \in Build}
    BY <2>1 DEF InstallInv, InstallTypeOK, InstallWorldOK
  <2> QED  BY <2>1, <2>2 DEF Whole
<1> QED  BY <1>1, InstallInvariance, PTL

\* No step of an install replaces or removes an object that is not its own, also
\* one that appeared after the preflight (ensure: "publish shim without replacing
\* an existing object").
THEOREM ForeignIsKept == WslInstallSpec => ForeignUntouched
<1>1. ASSUME InstallInv, WslInstallNext, NEW n \in LinkName, links[n] = "foreign",
             links'[n] # "foreign"
      PROVE  install' = install
  <2>1. links \in [LinkName -> {"none", "managed", "foreign"}]
    BY <1>1 DEF InstallInv, InstallTypeOK, InstallWorldOK
  <2>2. \A m : EnsureLink(m) => links'[n] = links[n]
    BY <1>1, <2>1 DEF EnsureLink
  <2>3. ~UNCHANGED links /\ \A m : ~EnsureLink(m)
    BY <1>1, <2>2
  <2>4. PlaceForeign
    BY <1>1, <2>3 DEF WslInstallNext, StartInstall, OverwriteSource, PrepareLayout,
       PrepareDirectory, RollBackDirectory, RolledBack, LockInstall, CheckLayout, EnsureRegistry,
       PreflightShims, InstallBinary, HashSource, HashRest, StageBinary, StageRest, PublishBinary,
       Reconcile, ReconcileManagement, InspectShims, ReconcileShim, EndInstall, KillInstall
  <2> QED  BY <2>4 DEF PlaceForeign
<1>2. InstallInv /\ [WslInstallNext]_wslInstallVars
        => [\A n \in LinkName :
              links[n] = "foreign" /\ links'[n] # "foreign" => install' = install]_wslInstallVars
  BY <1>1
<1> QED  BY <1>2, InstallInvariance, PTL DEF WslInstallSpec, ForeignUntouched

=============================================================================
