--------------------------- MODULE LeaseFileProofs ---------------------------
(***************************************************************************)
(* With a temporary file for each holder id the lease file always parses   *)
(* and changes in one step, however many holders write it and wherever     *)
(* they stop.                                                              *)
(***************************************************************************)
EXTENDS LeaseFile, FiniteSetTheorems, TLAPS

USE LeaseFileAssumption

\* Where the temporary files and the lease file are.
LEMMA NamesAre ==
  /\ LeasePath \in Names
  /\ \A i \in Writers : Tmp[i] \in Names /\ Tmp[i] # LeasePath
BY DEF Names

LEMMA OneTextParses == ASSUME NEW i \in Writers PROVE Parses({i})
BY FS_Singleton DEF Parses

\* What is known of one writer and of its temporary file.
Writer(i) ==
  /\ at[i] = "opened" => /\ fd[i] # NoInode /\ fd[i] = dir[Tmp[i]]
                         /\ data[fd[i]] = {}
  /\ at[i] # "opened" => fd[i] = NoInode
  /\ at[i] = "written" => /\ dir[Tmp[i]] # NoInode
                          /\ data[dir[Tmp[i]]] = {i}

OneName == \A m, n \in Names : dir[m] # NoInode /\ dir[m] = dir[n] => m = n

LeaseIsOnes == dir[LeasePath] # NoInode =>
                 \E i \in Writers : data[dir[LeasePath]] = {i}

LEMMA FileInvIs ==
  FileInv <=> /\ FileTypeOK /\ OneName /\ LeaseIsOnes
              /\ \A i \in Writers : Writer(i)
BY DEF FileInv, OneName, LeaseIsOnes, Writer, LeaseText

\* Another writer keeps what it has if the step leaves its file alone.
LEMMA OtherWriter ==
  ASSUME NEW j \in Writers, Writer(j), FileTypeOK,
         at'[j] = at[j], fd'[j] = fd[j], dir'[Tmp[j]] = dir[Tmp[j]],
         dir[Tmp[j]] # NoInode => data'[dir[Tmp[j]]] = data[dir[Tmp[j]]]
  PROVE  Writer(j)'
BY DEF Writer

LEMMA FileInvInit == FileInit => FileInv
<1> SUFFICES ASSUME FileInit PROVE FileInv
  OBVIOUS
<1>1. FileTypeOK
  BY DEF FileInit, FileTypeOK
<1>2. OneName /\ LeaseIsOnes
  BY NamesAre DEF FileInit, OneName, LeaseIsOnes
<1>3. \A i \in Writers : Writer(i)
  BY DEF FileInit, Writer
<1> QED BY <1>1, <1>2, <1>3, FileInvIs

LEMMA OpenTmpStep ==
  ASSUME TmpDistinct, FileInv, NEW i \in Writers, OpenTmp(i)
  PROVE  FileInv'
<1>1. /\ FileTypeOK /\ OneName /\ LeaseIsOnes
      /\ \A j \in Writers : Writer(j)
  BY FileInvIs
<1>2. PICK f \in Inodes :
        /\ IF dir[Tmp[i]] = NoInode THEN Free(f) ELSE f = dir[Tmp[i]]
        /\ dir' = [dir EXCEPT ![Tmp[i]] = f]
        /\ data' = [data EXCEPT ![f] = {}]
        /\ fd' = [fd EXCEPT ![i] = f]
  BY DEF OpenTmp
<1>3. at' = [at EXCEPT ![i] = "opened"] /\ Tmp[i] \in Names
  BY NamesAre DEF OpenTmp
<1>4. FileTypeOK'
  BY <1>1, <1>2, <1>3 DEF FileTypeOK
<1>5. \A n \in Names : n # Tmp[i] => dir[n] # f /\ dir'[n] = dir[n]
  BY <1>1, <1>2, <1>3 DEF OneName, Free, FileTypeOK
<1>6. dir'[Tmp[i]] = f
  BY <1>1, <1>2, <1>3 DEF FileTypeOK
<1>7. OneName'
  <2> SUFFICES ASSUME NEW m \in Names, NEW n \in Names,
                      dir'[m] # NoInode, dir'[m] = dir'[n]
               PROVE  m = n
    BY DEF OneName
  <2> QED BY <1>1, <1>5, <1>6 DEF OneName
<1>8. LeaseIsOnes'
  BY <1>1, <1>2, <1>5, NamesAre DEF LeaseIsOnes, FileTypeOK
<1>9. Writer(i)'
  BY <1>1, <1>2, <1>3, <1>6 DEF Writer, FileTypeOK
<1>10. ASSUME NEW j \in Writers, j # i PROVE Writer(j)'
  <2>1. Tmp[j] \in Names /\ Tmp[j] # Tmp[i]
    BY <1>10, NamesAre DEF TmpDistinct
  <2>2. dir'[Tmp[j]] = dir[Tmp[j]] /\ dir[Tmp[j]] # f
    BY <1>5, <2>1
  <2>3. dir[Tmp[j]] # NoInode => data'[dir[Tmp[j]]] = data[dir[Tmp[j]]]
    BY <1>1, <1>2, <2>1, <2>2 DEF FileTypeOK
  <2>4. at'[j] = at[j] /\ fd'[j] = fd[j]
    BY <1>1, <1>2, <1>3, <1>10 DEF FileTypeOK
  <2> QED BY <1>1, <2>2, <2>3, <2>4, OtherWriter
<1> QED BY <1>4, <1>7, <1>8, <1>9, <1>10 DEF FileInv, OneName, LeaseIsOnes,
                                             Writer, LeaseText

LEMMA WriteTmpStep ==
  ASSUME TmpDistinct, FileInv, NEW i \in Writers, WriteTmp(i)
  PROVE  FileInv'
<1>1. /\ FileTypeOK /\ OneName /\ LeaseIsOnes
      /\ \A j \in Writers : Writer(j)
  BY FileInvIs
<1> DEFINE f == fd[i]
<1>2. /\ f \in Inodes /\ f = dir[Tmp[i]] /\ f # NoInode /\ data[f] = {}
      /\ Tmp[i] \in Names /\ Tmp[i] # LeasePath
  BY <1>1, NamesAre DEF Writer, WriteTmp, FileTypeOK
<1>3. /\ data' = [data EXCEPT ![f] = @ \cup {i}]
      /\ fd' = [fd EXCEPT ![i] = NoInode]
      /\ at' = [at EXCEPT ![i] = "written"]
      /\ dir' = dir
  BY DEF WriteTmp
<1> HIDE DEF f
<1>4. FileTypeOK'
  BY <1>1, <1>2, <1>3 DEF FileTypeOK
<1>5. \A n \in Names : n # Tmp[i] => dir[n] # f
  BY <1>1, <1>2 DEF OneName
<1>6. OneName'
  BY <1>1, <1>3 DEF OneName
<1>7. LeaseIsOnes'
  BY <1>1, <1>2, <1>3, <1>5, NamesAre DEF LeaseIsOnes, FileTypeOK
<1>8. data'[f] = {i}
  BY <1>1, <1>2, <1>3 DEF FileTypeOK
<1>9. Writer(i)'
  BY <1>1, <1>2, <1>3, <1>8 DEF Writer, FileTypeOK
<1>10. ASSUME NEW j \in Writers, j # i PROVE Writer(j)'
  <2>1. Tmp[j] \in Names /\ Tmp[j] # Tmp[i]
    BY <1>10, NamesAre DEF TmpDistinct
  <2>2. dir'[Tmp[j]] = dir[Tmp[j]] /\ dir[Tmp[j]] # f
    BY <1>3, <1>5, <2>1
  <2>3. dir[Tmp[j]] # NoInode => data'[dir[Tmp[j]]] = data[dir[Tmp[j]]]
    BY <1>1, <1>3, <2>1, <2>2 DEF FileTypeOK
  <2>4. at'[j] = at[j] /\ fd'[j] = fd[j]
    BY <1>1, <1>3, <1>10 DEF FileTypeOK
  <2> QED BY <1>1, <2>2, <2>3, <2>4, OtherWriter
<1> QED BY <1>4, <1>6, <1>7, <1>9, <1>10 DEF FileInv, OneName, LeaseIsOnes,
                                             Writer, LeaseText

\* What a rename does to the lease file.
LEMMA RenameEffect ==
  ASSUME FileInv, NEW i \in Writers, Rename(i)
  PROVE  /\ dir'[LeasePath] = dir[Tmp[i]] /\ dir'[LeasePath] # NoInode
         /\ data'[dir'[LeasePath]] = {i}
         /\ dir'[Tmp[i]] = NoInode
         /\ \A n \in Names \ {Tmp[i], LeasePath} : dir'[n] = dir[n]
<1>1. FileTypeOK /\ Writer(i)
  BY FileInvIs
<1>2. /\ dir' = [dir EXCEPT ![LeasePath] = dir[Tmp[i]], ![Tmp[i]] = NoInode]
      /\ data' = data /\ at[i] = "written"
  BY DEF Rename
<1>3. dir[Tmp[i]] # NoInode /\ data[dir[Tmp[i]]] = {i}
  BY <1>1, <1>2 DEF Writer
<1>4. /\ dir'[LeasePath] = dir[Tmp[i]] /\ dir'[Tmp[i]] = NoInode
      /\ \A n \in Names \ {Tmp[i], LeasePath} : dir'[n] = dir[n]
  BY <1>1, <1>2, NamesAre DEF FileTypeOK
<1> QED BY <1>2, <1>3, <1>4

LEMMA RenameStep ==
  ASSUME TmpDistinct, FileInv, NEW i \in Writers, Rename(i)
  PROVE  FileInv'
<1>1. /\ FileTypeOK /\ OneName /\ LeaseIsOnes
      /\ \A j \in Writers : Writer(j)
  BY FileInvIs
<1>2. /\ at[i] = "written"
      /\ dir' = [dir EXCEPT ![LeasePath] = dir[Tmp[i]], ![Tmp[i]] = NoInode]
      /\ at' = [at EXCEPT ![i] = "idle"]
      /\ data' = data /\ fd' = fd
  BY DEF Rename
<1>3. Tmp[i] \in Names /\ LeasePath \in Names /\ Tmp[i] # LeasePath
  BY NamesAre
<1>4. FileTypeOK'
  BY <1>1, <1>2, <1>3 DEF FileTypeOK
<1>5. OneName'
  <2> SUFFICES ASSUME NEW m \in Names, NEW n \in Names,
                      dir'[m] # NoInode, dir'[m] = dir'[n]
               PROVE  m = n
    BY DEF OneName
  <2> QED BY <1>1, <1>3, RenameEffect DEF OneName
<1>6. LeaseIsOnes'
  BY RenameEffect DEF LeaseIsOnes
<1>7. Writer(i)'
  BY <1>1, <1>2 DEF Writer, FileTypeOK
<1>8. ASSUME NEW j \in Writers, j # i PROVE Writer(j)'
  <2>1. Tmp[j] \in Names \ {Tmp[i], LeasePath}
    BY <1>8, NamesAre DEF TmpDistinct
  <2>2. dir'[Tmp[j]] = dir[Tmp[j]]
    BY <2>1, RenameEffect
  <2>3. at'[j] = at[j]
    BY <1>1, <1>2, <1>8 DEF FileTypeOK
  <2> QED BY <1>1, <1>2, <2>2, <2>3, OtherWriter
<1> QED BY <1>4, <1>5, <1>6, <1>7, <1>8 DEF FileInv, OneName, LeaseIsOnes,
                                            Writer, LeaseText

\* The rename or the writing fails: at most the temporary file goes.
LEMMA GiveUpStep ==
  ASSUME TmpDistinct, FileInv, NEW i \in Writers, RenameFails(i) \/ Stop(i)
  PROVE  FileInv'
<1>1. /\ FileTypeOK /\ OneName /\ LeaseIsOnes
      /\ \A j \in Writers : Writer(j)
  BY FileInvIs
<1>2. /\ dir' \in {dir, [dir EXCEPT ![Tmp[i]] = NoInode]}
      /\ at' = [at EXCEPT ![i] = "idle"]
      /\ fd' \in {fd, [fd EXCEPT ![i] = NoInode]}
      /\ data' = data
  BY DEF RenameFails, Stop
<1>3. Tmp[i] \in Names /\ LeasePath \in Names /\ Tmp[i] # LeasePath
  BY NamesAre
<1>4. FileTypeOK'
  BY <1>1, <1>2, <1>3 DEF FileTypeOK
<1>5. \A n \in Names : dir'[n] \in {dir[n], NoInode} /\ (n # Tmp[i] => dir'[n] = dir[n])
  BY <1>1, <1>2, <1>3 DEF FileTypeOK
<1>6. OneName'
  BY <1>1, <1>5 DEF OneName
<1>7. LeaseIsOnes'
  BY <1>1, <1>2, <1>3, <1>5 DEF LeaseIsOnes
<1>8. Writer(i)'
  <2>1. fd'[i] = NoInode
    <3>1. CASE RenameFails(i)
      BY <1>1, <3>1 DEF RenameFails, Writer
    <3>2. CASE Stop(i)
      BY <1>1, <3>2 DEF Stop, FileTypeOK
    <3> QED BY <3>1, <3>2
  <2>2. at'[i] = "idle"
    BY <1>1, <1>2 DEF FileTypeOK
  <2> QED BY <2>1, <2>2 DEF Writer
<1>9. ASSUME NEW j \in Writers, j # i PROVE Writer(j)'
  <2>1. Tmp[j] \in Names /\ Tmp[j] # Tmp[i]
    BY <1>9, NamesAre DEF TmpDistinct
  <2>2. dir'[Tmp[j]] = dir[Tmp[j]]
    BY <1>5, <2>1
  <2>3. at'[j] = at[j] /\ fd'[j] = fd[j]
    BY <1>1, <1>2, <1>9 DEF FileTypeOK
  <2> QED BY <1>1, <1>2, <2>2, <2>3, OtherWriter
<1> QED BY <1>4, <1>6, <1>7, <1>8, <1>9 DEF FileInv, OneName, LeaseIsOnes,
                                            Writer, LeaseText

LEMMA FileInvNext ==
  ASSUME TmpDistinct, FileInv, [FileNext]_fileVars
  PROVE  FileInv'
<1>1. CASE UNCHANGED fileVars
  <2>1. dir' = dir /\ data' = data /\ at' = at /\ fd' = fd
    BY <1>1 DEF fileVars
  <2>2. FileTypeOK' /\ OneName' /\ LeaseIsOnes' /\ \A i \in Writers : Writer(i)'
    BY <2>1, FileInvIs DEF FileTypeOK, OneName, LeaseIsOnes, Writer
  <2> QED BY <2>2 DEF FileInv, OneName, LeaseIsOnes, Writer, LeaseText
<1>2. CASE FileNext
  BY <1>2, OpenTmpStep, WriteTmpStep, RenameStep, GiveUpStep DEF FileNext
<1> QED BY <1>1, <1>2

\* Every writer that has not stopped has its temporary file to itself.
THEOREM FileInvariant ==
  ASSUME TmpDistinct
  PROVE  FileSpec => []FileInv
<1>1. FileInv /\ [FileNext]_fileVars => FileInv'
  BY FileInvNext
<1> QED BY <1>1, FileInvInit, PTL DEF FileSpec

\* The lease file always parses, wherever a writer stopped (writeLease).
THEOREM LeaseFileParses ==
  ASSUME TmpDistinct
  PROVE  FileSpec => []FileParses
<1>1. FileInv => FileParses
  <2> SUFFICES ASSUME FileInv, dir[LeasePath] # NoInode
               PROVE  Parses(LeaseText)
    BY DEF FileParses
  <2>1. PICK i \in Writers : LeaseText = {i}
    BY DEF FileInv
  <2> QED BY <2>1, OneTextParses
<1> QED BY <1>1, FileInvariant, PTL

\* No step but the rename of a written file changes what readLease returns.
LEMMA OnlyRenameShows ==
  ASSUME TmpDistinct, FileInv, [FileNext]_fileVars
  PROVE  OneStep
<1>1. FileTypeOK /\ OneName /\ \A j \in Writers : Writer(j)
  BY FileInvIs
<1>2. CASE UNCHANGED fileVars
  BY <1>2 DEF fileVars, OneStep, LeaseText
<1>3. ASSUME NEW i \in Writers, OpenTmp(i) PROVE OneStep
  <2>1. PICK f \in Inodes :
          /\ IF dir[Tmp[i]] = NoInode THEN Free(f) ELSE f = dir[Tmp[i]]
          /\ dir' = [dir EXCEPT ![Tmp[i]] = f]
          /\ data' = [data EXCEPT ![f] = {}]
    BY <1>3 DEF OpenTmp
  <2>2. dir'[LeasePath] = dir[LeasePath] /\ dir[LeasePath] # f
    BY <1>1, <2>1, NamesAre DEF OneName, Free, FileTypeOK
  <2>3. LeaseText' = LeaseText
    BY <1>1, <2>1, <2>2, NamesAre DEF LeaseText, FileTypeOK
  <2> QED BY <2>3 DEF OneStep
<1>4. ASSUME NEW i \in Writers, WriteTmp(i) PROVE OneStep
  <2>1. fd[i] # NoInode /\ fd[i] = dir[Tmp[i]]
    BY <1>1, <1>4 DEF WriteTmp, Writer
  <2>2. fd[i] # dir[LeasePath]
    BY <1>1, <2>1, NamesAre DEF OneName
  <2>3. LeaseText' = LeaseText
    BY <1>1, <1>4, <2>2 DEF LeaseText, WriteTmp, FileTypeOK
  <2> QED BY <2>3 DEF OneStep
<1>5. ASSUME NEW i \in Writers, Rename(i) PROVE OneStep
  <2>1. LeaseText' = {i}
    BY <1>5, RenameEffect DEF LeaseText
  <2>2. at[i] = "written" /\ at'[i] = "idle"
    BY <1>1, <1>5 DEF Rename, FileTypeOK
  <2> QED BY <2>1, <2>2 DEF OneStep
<1>6. ASSUME NEW i \in Writers, RenameFails(i) \/ Stop(i) PROVE OneStep
  <2>1. dir'[LeasePath] = dir[LeasePath] /\ data' = data
    BY <1>1, <1>6, NamesAre DEF RenameFails, Stop, FileTypeOK
  <2> QED BY <2>1 DEF OneStep, LeaseText
<1> QED BY <1>2, <1>3, <1>4, <1>5, <1>6 DEF FileNext

\* What readLease returns changes only with the rename of a whole lease.
THEOREM RenameIsAtomic ==
  ASSUME TmpDistinct
  PROVE  FileSpec => WriteIsAtomic
<1>1. FileInv /\ [FileNext]_fileVars => [OneStep]_fileVars
  BY OnlyRenameShows
<1> QED BY <1>1, FileInvariant, PTL DEF FileSpec, WriteIsAtomic
=============================================================================
