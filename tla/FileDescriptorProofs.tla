------------------------ MODULE FileDescriptorProofs ------------------------
(***************************************************************************)
(* Proofs about FileDescriptors, for any image, damaged or not, any block  *)
(* size, any number of processes and descriptors: the loop of read_data()  *)
(* copies the file.                                                        *)
(***************************************************************************)
EXTENDS FileDescriptors, TLAPS

LEMMA DivMod ==
    ASSUME NEW B \in Nat \ {0}, NEW a \in Nat
    PROVE  a \div B \in Nat /\ a % B \in 0 .. B - 1 /\ (a \div B) * B + (a % B) = a
BY SMT

LEMMA DivModUnique ==
    ASSUME NEW B \in Nat \ {0}, NEW q \in Nat, NEW r \in 0 .. B - 1
    PROVE  (q * B + r) \div B = q /\ (q * B + r) % B = r
BY SMT

\* The block of a byte of a file is one of the file's blocks.
LEMMA BlockOfByte ==
    ASSUME NEW B \in Nat \ {0}, NEW k \in Nat, NEW size \in Nat, k <= size
    PROVE  k \div B \in 0 .. size \div B
<1>1. k \div B \in Nat /\ size \div B \in Nat
  BY DivMod
<1>2. (k \div B) * B <= size /\ size < (size \div B) * B + B
  BY DivMod
<1>3. ~(k \div B > size \div B)
  <2> SUFFICES ASSUME k \div B > size \div B PROVE FALSE
    OBVIOUS
  <2>1. k \div B >= size \div B + 1
    BY <1>1
  <2>2. (k \div B) * B >= (size \div B + 1) * B
    BY <1>1, <2>1
  <2>3. (size \div B + 1) * B = (size \div B) * B + B
    BY <1>1
  <2> QED
    BY <1>1, <1>2, <2>2, <2>3
<1> QED
  BY <1>1, <1>3

LEMMA LeastIs ==
    ASSUME NEW a \in Nat, NEW b \in Nat
    PROVE  Least(a, b) \in Nat /\ Least(a, b) <= a /\ Least(a, b) <= b
BY DEF Least

----------------------------------------------------------------------------

Tables == [Pids -> [Fds -> FileDesc]]

LEMMA SetDescType ==
    ASSUME fds \in Tables, NEW p \in Pids, NEW fd \in Fds, NEW d \in FileDesc, SetDesc(p, fd, d)
    PROVE  fds' \in Tables /\ fds'[p][fd] = d
BY DEF SetDesc, Tables

LEMMA ShutType ==
    ASSUME NEW d \in FileDesc
    PROVE  Shut(d) \in FileDesc
BY DEF Shut, FileDesc

LEMMA MovedType ==
    ASSUME NEW d \in FileDesc, NEW n \in Nat
    PROVE  [d EXCEPT !.pos = d.pos + n] \in FileDesc
BY DEF FileDesc

LEMMA StdInOutType ==
    ASSUME NEW fd \in Fds
    PROVE  StdInOut(fd) \in FileDesc
BY DescriptorsAssumption DEF StdInOut, FileDesc, Ftables, Fds

LEMMA DentryType ==
    ASSUME NEW i \in 1 .. Len(dentries)
    PROVE  dentries[i] \in Dentry
BY ImageAssumption

\* What the steps outside the loop leave to show: their effect on the tables.
LEMMA QuietStep ==
    ASSUME FdInv, live' \subseteq Pids, fds' \in Tables, reader' = Nobody,
           rd' = rd, buf' = buf,
           reply'.fd \in Fds \cup BadFds, reply'.value \in Nat \cup {-1}
    PROVE  FdInv'
BY DEF FdInv, FdTypeOK, CopyIsPrefix, AtNextByte, LengthAsked, Tables

LEMMA FdInitInv == FdInit => FdInv
BY DescriptorsAssumption
   DEF FdInit, FdInv, FdTypeOK, CopyIsPrefix, AtNextByte, LengthAsked, FileDesc, Ftables, Zero, Locals,
       NoLocals, Fds, BadFds, Nobody

LEMMA LaunchInv ==
    ASSUME FdInv, NEW p \in Pids, Launch(p)
    PROVE  FdInv'
<1>1. fds' \in Tables
  BY ShutType, StdInOutType DEF FdInv, FdTypeOK, Tables, Launch, pcb_init
<1> QED
  BY <1>1, QuietStep DEF Launch, FdInv, FdTypeOK

LEMMA KillType ==
    ASSUME fds \in Tables, NEW p \in Pids, kill_current_proc(p)
    PROVE  /\ fds' \in Tables
           /\ \A q \in Pids, fd \in Fds :
                 fds'[q][fd] = IF q = p THEN Shut(fds[q][fd]) ELSE fds[q][fd]
BY ShutType DEF Tables, kill_current_proc

LEMMA ExitInv ==
    ASSUME FdInv, NEW p \in Pids, Exit(p)
    PROVE  FdInv'
<1>1. fds' \in Tables
  BY KillType DEF FdInv, FdTypeOK, Tables, Exit
<1> QED
  BY <1>1, QuietStep DEF Exit, kill_current_proc, Runs, FdInv, FdTypeOK

LEMMA OpenInv ==
    ASSUME FdInv, NEW p \in Pids, NEW name, Open(p, name)
    PROVE  FdInv'
<1>0. fds \in Tables /\ live \subseteq Pids
  BY DEF FdInv, FdTypeOK, Tables
<1>1. -1 \in BadFds /\ Fds \subseteq Nat
  BY DescriptorsAssumption DEF BadFds, Fds
<1>2. fds' \in Tables /\ reply'.fd \in Fds \cup BadFds /\ reply'.value \in Nat \cup {-1}
  <2>1. CASE UNCHANGED fds /\ Returns("open", p, -1, -1, <<>>)
    BY <1>0, <1>1, <2>1 DEF Returns
  <2>2. CASE \E i \in 1 .. Len(dentries), fd \in Fds :
                alloc_fd(p, fd) /\ OpenDentry(p, fd, dentries[i])
    <3>1. PICK i \in 1 .. Len(dentries), fd \in Fds : OpenDentry(p, fd, dentries[i])
      BY <2>2
    <3> DEFINE de == dentries[i]
    <3>2. de.inode \in Nat
      BY DentryType DEF Dentry
    <3>3. fds[p][fd] \in FileDesc
      BY <1>0 DEF Tables
    <3>4. CASE file_open(p, fd, de.inode) /\ Returns("open", p, fd, fd, <<>>)
      BY <1>0, <1>1, <3>2, <3>4, SetDescType DEF file_open, Opened, FileDesc, Ftables, Returns
    <3>5. CASE file_open_fails(p, fd) /\ Returns("open", p, -1, -1, <<>>)
      BY <1>0, <1>1, <3>3, <3>5, SetDescType DEF file_open_fails, FileDesc, Ftables, Returns
    <3>6. CASE dir_open(p, fd, de.inode) /\ Returns("open", p, fd, fd, <<>>)
      BY <1>0, <1>1, <3>2, <3>6, SetDescType DEF dir_open, Opened, FileDesc, Ftables, Returns
    <3>7. CASE rtc_open(p, fd) /\ Returns("open", p, fd, fd, <<>>)
      BY <1>0, <1>1, <3>3, <3>7, SetDescType DEF rtc_open, FileDesc, Ftables, Returns
    <3>8. CASE UNCHANGED fds /\ Returns("open", p, -1, -1, <<>>)
      BY <2>1, <3>8
    <3> QED
      BY <3>1, <3>4, <3>5, <3>6, <3>7, <3>8 DEF OpenDentry
  <2> QED
    BY <2>1, <2>2 DEF Open
<1> QED
  BY <1>0, <1>2, QuietStep DEF Open, Runs

LEMMA CloseInv ==
    ASSUME FdInv, NEW p \in Pids, NEW fd \in Fds \cup BadFds, Close(p, fd)
    PROVE  FdInv'
<1>0. fds \in Tables /\ live \subseteq Pids
  BY DEF FdInv, FdTypeOK, Tables
<1>1. reply'.fd \in Fds \cup BadFds /\ reply'.value \in Nat \cup {-1}
  BY DEF Close, Returns
<1>2. fds' \in Tables
  <2>1. CASE UNCHANGED fds
    BY <1>0, <2>1
  <2>2. CASE fd \in Fds /\ SetDesc(p, fd, Shut(fds[p][fd]))
    <3>1. Shut(fds[p][fd]) \in FileDesc
      BY <1>0, <2>2, ShutType DEF Tables
    <3> QED
      BY <1>0, <2>2, <3>1, SetDescType
  <2> QED
    BY <2>1, <2>2 DEF Close
<1> QED
  BY <1>0, <1>1, <1>2, QuietStep DEF Close, Runs

LEMMA JustReturnsInv ==
    ASSUME FdInv, NEW p \in Pids, NEW fd \in Fds \cup BadFds, NEW call, NEW taken,
           NEW value \in Nat \cup {-1}, reader = Nobody, JustReturns(call, p, fd, value, taken)
    PROVE  FdInv'
<1>1. reply'.fd \in Fds \cup BadFds /\ reply'.value \in Nat \cup {-1}
  BY DEF JustReturns, Returns
<1> QED
  BY <1>1, QuietStep DEF JustReturns, FdInv, FdTypeOK, Tables

LEMMA DirReadInv ==
    ASSUME FdInv, NEW p \in Pids, NEW fd \in Fds \cup BadFds, NEW n \in Nat, dir_read(p, fd, n)
    PROVE  FdInv'
<1>0. fds \in Tables /\ live \subseteq Pids /\ fd \in Fds /\ reader = Nobody
  BY DEF FdInv, FdTypeOK, Tables, dir_read, Reaches, Runs
<1> DEFINE d == fds[p][fd]
<1>1. CASE JustReturns("read", p, fd, 0, <<>>)
  BY <1>0, <1>1, JustReturnsInv
<1>2. CASE SetDesc(p, fd, [d EXCEPT !.pos = @ + 1])
           /\ Returns("read", p, fd, Least(n, DENTRY_NAME_LEN), <<dentries[d.pos + 1].name>>)
           /\ UNCHANGED <<live, reader, rd, buf>>
  <2>1. [d EXCEPT !.pos = @ + 1] \in FileDesc
    BY <1>0, MovedType DEF Tables
  <2>2. fds' \in Tables
    BY <1>0, <1>2, <2>1, SetDescType
  <2>3. Least(n, DENTRY_NAME_LEN) \in Nat
    BY ImageAssumption, LeastIs
  <2>4. reply'.fd \in Fds \cup BadFds /\ reply'.value \in Nat \cup {-1}
    BY <1>2, <2>3 DEF Returns
  <2> QED
    BY <1>0, <1>2, <2>2, <2>4, QuietStep
<1> QED
  BY <1>1, <1>2 DEF dir_read

\* file_read() enters the loop at the byte the position names.
LEMMA FileReadInv ==
    ASSUME FdInv, NEW p \in Pids, NEW fd \in Fds \cup BadFds, NEW n \in Counts, file_read(p, fd, n)
    PROVE  FdInv'
<1>0. /\ fds \in Tables /\ live \subseteq Pids /\ fd \in Fds /\ reader = Nobody
      /\ p \in live /\ fds[p][fd].open /\ fds[p][fd].ftable = "regular" /\ p # Nobody
  BY DescriptorsAssumption DEF FdInv, FdTypeOK, Tables, file_read, Reaches, Runs, Nobody
<1>n. n \in Nat
  BY DescriptorsAssumption
<1> DEFINE d == fds[p][fd]
           size == inodes[d.inode].size
<1>d. d \in FileDesc
  BY <1>0 DEF Tables
<1>1. CASE JustReturns("read", p, fd, IF get_inode(d.inode) THEN 0 ELSE -1, <<>>)
  BY <1>0, <1>1, JustReturnsInv
<1>2. CASE /\ get_inode(d.inode)
           /\ d.pos < size
           /\ reader' = p
           /\ rd' = [fd |-> fd, length |-> Least(n, size - d.pos), count |-> 0,
                     blocknum |-> d.pos \div DATA_BLOCK_SIZE,
                     blockoffset |-> d.pos % DATA_BLOCK_SIZE]
           /\ buf' = <<>>
           /\ UNCHANGED <<live, fds, reply>>
  <2>1. d.pos \in Nat /\ size \in Nat /\ DATA_BLOCK_SIZE \in Nat \ {0}
    BY <1>d, <1>2, ImageAssumption DEF FileDesc, get_inode
  <2>2. Least(n, size - d.pos) \in Nat /\ Least(n, size - d.pos) <= size - d.pos
    <3> HIDE DEF d, size
    <3>1. size - d.pos \in Nat
      BY <1>2, <2>1
    <3> QED
      BY <1>n, <3>1, LeastIs
  <2>3. /\ d.pos \div DATA_BLOCK_SIZE \in Nat
        /\ d.pos % DATA_BLOCK_SIZE \in 0 .. DATA_BLOCK_SIZE - 1
        /\ (d.pos \div DATA_BLOCK_SIZE) * DATA_BLOCK_SIZE + (d.pos % DATA_BLOCK_SIZE) = d.pos
    BY <2>1, DivMod
  <2>4. rd' \in Locals
    BY <1>0, <1>2, <2>2, <2>3 DEF Locals
  <2>5. FdTypeOK'
    BY <1>0, <1>2, <2>2, <2>4 DEF FdInv, FdTypeOK
  <2>6. Reading' = d
    BY <1>2 DEF Reading
  <2>7. CopyIsPrefix'
    <3>1. LengthAsked'
      BY <1>2, <2>6 DEF LengthAsked
    <3>2. rd'.count <= rd'.length
      BY <1>2, <2>2
    <3> QED
      BY <1>0, <1>2, <2>1, <2>2, <2>6, <3>1, <3>2 DEF CopyIsPrefix
  <2>8. AtNextByte'
    <3>1. /\ rd'.blocknum * DATA_BLOCK_SIZE + rd'.blockoffset = d.pos
          /\ rd'.blockoffset < DATA_BLOCK_SIZE /\ rd'.count = 0
      BY <1>2, <2>1, <2>3
    <3>2. d.pos + 0 = d.pos
      BY <2>1
    <3> QED
      BY <2>6, <3>1, <3>2 DEF AtNextByte
  <2> QED
    BY <2>5, <2>7, <2>8 DEF FdInv
<1> QED
  BY <1>1, <1>2 DEF file_read

LEMMA ReadInv ==
    ASSUME FdInv, NEW p \in Pids, NEW fd \in Fds \cup BadFds, NEW n \in Counts, Read(p, fd, n)
    PROVE  FdInv'
<1>0. n \in Nat
  BY DescriptorsAssumption
<1>1. CASE NotOpen("read", p, fd)
  BY <1>1, JustReturnsInv DEF NotOpen, Runs
<1>2. CASE TerminalRead(p, fd, n)
  BY <1>0, <1>2, JustReturnsInv DEF TerminalRead, Reaches, Runs
<1>3. CASE RtcRead(p, fd)
  BY <1>3, JustReturnsInv DEF RtcRead, Reaches, Runs
<1>4. CASE dir_read(p, fd, n)
  BY <1>0, <1>4, DirReadInv
<1>5. CASE file_read(p, fd, n)
  BY <1>5, FileReadInv
<1> QED
  BY <1>1, <1>2, <1>3, <1>4, <1>5 DEF Read

LEMMA WriteInv ==
    ASSUME FdInv, NEW p \in Pids, NEW fd \in Fds \cup BadFds, NEW n \in Nat, Write(p, fd, n)
    PROVE  FdInv'
<1>1. PICK value \in {-1, n} : JustReturns("write", p, fd, value, <<>>) /\ reader = Nobody
  BY DEF Write, NotOpen, Reaches, Runs
<1> QED
  BY <1>1, JustReturnsInv

----------------------------------------------------------------------------

\* What a pass of the loop adds to the buffer is the next piece of the file.
LEMMA CopyBlockInv ==
    ASSUME FdInv, CopyBlock
    PROVE  FdInv'
<1> DEFINE B == DATA_BLOCK_SIZE
           id == Reading.inode
           pos == Reading.pos
           size == inodes[id].size
           n == Least(rd.length - rd.count, B - rd.blockoffset)
           base == rd.blocknum * B
<1>1. /\ reader # Nobody /\ reader \in Pids /\ rd \in Locals
      /\ Reading \in FileDesc /\ id \in Nat /\ pos \in Nat
      /\ rd.count < rd.length /\ get_block(BlockId)
      /\ buf \in [1 .. rd.count -> Bytes]
  BY DEF FdInv, FdTypeOK, CopyBlock, Reading, FileDesc, Locals
<1>2. /\ rd.fd \in Fds /\ rd.length \in Nat /\ rd.count \in Nat /\ rd.blocknum \in Nat
      /\ rd.blockoffset \in Nat
  BY <1>1 DEF Locals
<1>o. Reading.open /\ Reading.ftable = "regular" /\ get_inode(id)
  BY <1>1 DEF FdInv, CopyIsPrefix
<1>3. /\ pos + rd.length <= size
      /\ base + rd.blockoffset = pos + rd.count
      /\ rd.blockoffset < B
  BY <1>1 DEF FdInv, CopyIsPrefix, AtNextByte
<1>p. pos \in Nat
  BY <1>1
<1>4. B \in Nat \ {0} /\ size \in Nat /\ base \in Nat
  BY <1>1, <1>2, <1>o, ImageAssumption DEF get_inode
<1>l. rd.count < rd.length
  BY <1>1
<1> HIDE DEF id, pos, size, base
<1>5. n \in Nat /\ n <= rd.length - rd.count /\ n <= B - rd.blockoffset /\ 0 < n
      /\ (n = rd.length - rd.count \/ n = B - rd.blockoffset)
  BY <1>2, <1>3, <1>4, <1>l DEF Least
\* The block is a block of the file and exists.
<1>6. BlockId \in 0 .. n_blocks - 1
  <2>1. (pos + rd.count) \div B = rd.blocknum
    <3>1. rd.blockoffset \in 0 .. B - 1
      BY <1>2, <1>3, <1>4
    <3>2. (base + rd.blockoffset) \div B = rd.blocknum
      BY <1>2, <1>4, <3>1, DivModUnique DEF base
    <3> QED
      BY <1>3, <3>2
  <2>2. rd.blocknum \in 0 .. size \div B
    <3>1. pos + rd.count \in Nat /\ pos + rd.count <= size
      <4>1. pos + rd.length <= size
        BY <1>3
      <4> QED
        BY <1>2, <1>4, <1>l, <1>p, <4>1
    <3> QED
      BY <1>4, <2>1, <3>1, BlockOfByte
  <2>3. id \in 0 .. n_inodes - 1
    BY <1>1, <1>o, ImageAssumption DEF get_inode
  <2>4. BlockId \in Nat
    BY <2>2, <2>3, ImageAssumption DEF BlockId, id, size
  <2> QED
    BY <1>1, <2>4, ImageAssumption DEF get_block
\* Byte i of the buffer of this pass is byte pos + i - 1 of the file.
<1>7. ASSUME NEW i \in rd.count + 1 .. rd.count + n
      PROVE  /\ data[BlockId][rd.blockoffset + (i - rd.count - 1)] = FileByte(id, pos + i - 1)
             /\ data[BlockId][rd.blockoffset + (i - rd.count - 1)] \in Bytes
  <2> DEFINE r == rd.blockoffset + (i - rd.count - 1)
  <2>1. i \in Int /\ rd.count + 1 <= i /\ i <= rd.count + n
    BY <1>2, <1>5
  <2>2. r \in 0 .. B - 1
    BY <1>2, <1>4, <1>5, <2>1
  <2>3. base + r = pos + i - 1
    BY <1>2, <1>3, <1>4, <1>p, <2>1
  <2>4. (pos + i - 1) \div B = rd.blocknum /\ (pos + i - 1) % B = r
    <3> HIDE DEF r
    <3>1. (rd.blocknum * B + r) \div B = rd.blocknum /\ (rd.blocknum * B + r) % B = r
      BY <1>2, <1>4, <2>2, DivModUnique
    <3> QED
      BY <2>3, <3>1 DEF base
  <2>5. data[BlockId][r] = FileByte(id, pos + i - 1)
    BY <2>4 DEF FileByte, BlockId, id
  <2>6. data[BlockId][r] \in Bytes
    BY <1>4, <1>6, <2>2, ImageAssumption
  <2> QED
    BY <2>5, <2>6
<1>8. /\ buf' = [i \in 1 .. rd.count + n |->
                    IF i <= rd.count THEN buf[i]
                    ELSE data[BlockId][rd.blockoffset + (i - rd.count - 1)]]
      /\ rd' = [rd EXCEPT !.count = rd.count + n, !.blocknum = rd.blocknum + 1,
                          !.blockoffset = 0]
      /\ UNCHANGED <<live, fds, reader, reply>>
  BY DEF CopyBlock, memcpy_block
<1>9. /\ rd'.fd = rd.fd /\ rd'.length = rd.length /\ rd'.count = rd.count + n
      /\ rd'.blocknum = rd.blocknum + 1 /\ rd'.blockoffset = 0 /\ rd' \in Locals
  <2> HIDE DEF n
  <2>1. rd.count + n \in Nat /\ rd.blocknum + 1 \in Nat
    BY <1>2, <1>5
  <2> QED
    BY <1>1, <1>8, <2>1 DEF Locals
<1>10. Reading' = Reading
  BY <1>8, <1>9 DEF Reading
<1>11. FdTypeOK'
  <2>1. buf' \in [1 .. rd'.count -> Bytes]
    <3> SUFFICES ASSUME NEW i \in 1 .. rd.count + n PROVE buf'[i] \in Bytes
      BY <1>8, <1>9
    <3> HIDE DEF n
    <3>1. CASE i <= rd.count
      <4>1. i \in 1 .. rd.count
        BY <1>2, <1>5, <3>1
      <4> QED
        BY <1>1, <1>8, <3>1, <4>1
    <3>2. CASE ~(i <= rd.count)
      <4>1. i \in rd.count + 1 .. rd.count + n
        BY <1>2, <1>5, <3>2
      <4> QED
        BY <1>7, <1>8, <3>2, <4>1
    <3> QED
      BY <3>1, <3>2
  <2>2. rd'.count <= rd'.length
    BY <1>2, <1>5, <1>9
  <2> QED
    BY <1>8, <1>9, <2>1, <2>2 DEF FdInv, FdTypeOK
<1>12. CopyIsPrefix'
  <2>1. ASSUME NEW i \in 1 .. rd.count + n
        PROVE  buf'[i] = FileByte(id, pos + i - 1)
    <3> HIDE DEF n
    <3>1. CASE i <= rd.count
      <4>1. i \in 1 .. rd.count
        BY <1>2, <1>5, <3>1
      <4>2. buf[i] = FileByte(id, pos + i - 1)
        BY <1>1, <4>1 DEF FdInv, CopyIsPrefix, id, pos
      <4> QED
        BY <1>8, <3>1, <4>2
    <3>2. CASE ~(i <= rd.count)
      <4>1. i \in rd.count + 1 .. rd.count + n
        BY <1>2, <1>5, <3>2
      <4> QED
        BY <1>7, <1>8, <3>2, <4>1
    <3> QED
      BY <3>1, <3>2
  <2> HIDE DEF n
  <2>2. LengthAsked
    BY <1>1 DEF FdInv, CopyIsPrefix
  <2>3. LengthAsked'
    BY <1>1, <1>8, <1>9, <1>10, <2>2 DEF LengthAsked
  <2>4. rd'.count <= rd'.length
    BY <1>2, <1>5, <1>9
  <2> QED
    BY <1>3, <1>o, <1>9, <1>10, <2>1, <2>3, <2>4 DEF CopyIsPrefix, id, pos, size
\* Unless this was the last pass, it went to the end of the block.
<1>13. AtNextByte'
  <2>1. ASSUME rd.count + n < rd.length
        PROVE  (rd.blocknum + 1) * B + 0 = pos + (rd.count + n)
    <3>1. n = B - rd.blockoffset
      BY <1>2, <1>5, <2>1
    <3>2. (rd.blocknum + 1) * B = base + B
      BY <1>2, <1>4 DEF base
    <3> HIDE DEF n
    <3> QED
      BY <1>2, <1>3, <1>4, <1>5, <1>p, <3>1, <3>2
  <2> HIDE DEF n
  <2> QED
    BY <1>4, <1>9, <1>10, <2>1 DEF AtNextByte, pos
<1> QED
  BY <1>11, <1>12, <1>13 DEF FdInv

LEMMA CopyBadBlockInv ==
    ASSUME FdInv, CopyBadBlock
    PROVE  FdInv'
<1>1. reply'.fd \in Fds \cup BadFds /\ reply'.value \in Nat \cup {-1}
  BY DEF CopyBadBlock, Returns, FdInv, FdTypeOK, Locals
<1>2. NoLocals \in Locals /\ <<>> \in [1 .. 0 -> Bytes]
  BY DescriptorsAssumption DEF NoLocals, Locals, Fds
<1> QED
  BY <1>1, <1>2 DEF CopyBadBlock, FdInv, FdTypeOK, CopyIsPrefix, AtNextByte, LengthAsked, NoLocals

LEMMA FaultInCopyInv ==
    ASSUME FdInv, FaultInCopy
    PROVE  FdInv'
<1>1. fds \in Tables /\ reader \in Pids
  BY DEF FdInv, FdTypeOK, Tables, FaultInCopy
<1>2. fds' \in Tables
  BY <1>1, KillType DEF FaultInCopy
<1>3. NoLocals \in Locals /\ <<>> \in [1 .. 0 -> Bytes]
  BY DescriptorsAssumption DEF NoLocals, Locals, Fds
<1> QED
  BY <1>2, <1>3
     DEF FaultInCopy, kill_current_proc, FdInv, FdTypeOK, CopyIsPrefix, AtNextByte, LengthAsked,
         NoLocals, Tables

LEMMA FinishReadInv ==
    ASSUME FdInv, FinishRead
    PROVE  FdInv'
<1>1. /\ reader \in Pids /\ rd.fd \in Fds /\ rd.count \in Nat /\ fds \in Tables
  BY DEF FinishRead, FdInv, FdTypeOK, Locals, Tables
<1>2. reply'.fd \in Fds \cup BadFds /\ reply'.value \in Nat \cup {-1}
  BY <1>1 DEF FinishRead, Returns
<1>3. [Reading EXCEPT !.pos = @ + rd.count] \in FileDesc
  BY <1>1, MovedType DEF Reading, Tables
<1>4. fds' \in Tables
  BY <1>1, <1>3, SetDescType DEF FinishRead
<1>5. NoLocals \in Locals /\ <<>> \in [1 .. 0 -> Bytes]
  BY DescriptorsAssumption DEF NoLocals, Locals, Fds
<1> QED
  BY <1>2, <1>4, <1>5
     DEF FinishRead, FdInv, FdTypeOK, CopyIsPrefix, AtNextByte, LengthAsked, NoLocals, Tables

LEMMA FdNextInv == FdInv /\ [FdNext]_fdVars => FdInv'
<1> SUFFICES ASSUME FdInv, [FdNext]_fdVars PROVE FdInv'
  OBVIOUS
<1>1. CASE UNCHANGED fdVars
  BY <1>1 DEF fdVars, FdInv, FdTypeOK, CopyIsPrefix, AtNextByte, LengthAsked, Reading
<1>2. CASE FdNext
  BY <1>2, DescriptorsAssumption, LaunchInv, ExitInv, OpenInv, CloseInv, ReadInv, WriteInv, CopyBlockInv,
     CopyBadBlockInv, FaultInCopyInv, FinishReadInv DEF FdNext
<1> QED
  BY <1>1, <1>2

\* The descriptors, the loop of read_data() and what calls return stay in their
\* types (syscalls.c, fs.c).
THEOREM DescriptorsTypeCorrect == FdSpec => []FdTypeOK
<1>1. FdInv => FdTypeOK
  BY DEF FdInv
<1> QED
  BY <1>1, FdInitInv, FdNextInv, PTL DEF FdSpec

\* For every image, block size, position and count, what the loop of read_data()
\* has put in the program's buffer is the file from that position on, never more
\* than was asked for nor past the end of the file (fs.c).
THEOREM ReadDataCopiesFile == FdSpec => []CopyIsPrefix
<1>1. FdInv => CopyIsPrefix
  BY DEF FdInv
<1> QED
  BY <1>1, FdInitInv, FdNextInv, PTL DEF FdSpec

----------------------------------------------------------------------------
(***************************************************************************)
(* Descriptors implement streams, on an image without dangling numbers.    *)
(***************************************************************************)

\* What a name stands for is its first entry.
LEMMA FirstDentryIs ==
    ASSUME NEW name, NEW i \in 1 .. Len(dentries), read_dentry_by_name(name, i)
    PROVE  FirstDentry(name) = dentries[i] /\ ~NoDentry(name)
<1>0. Len(dentries) \in Nat
  BY ImageAssumption
<1>1. ASSUME NEW j \in 1 .. Len(dentries), read_dentry_by_name(name, j)
      PROVE  j = i
  <2>1. ~(j < i) /\ ~(i < j)
    BY <1>0, <1>1 DEF read_dentry_by_name
  <2> QED
    BY <1>0, <2>1
<1>2. (CHOOSE j \in 1 .. Len(dentries) : read_dentry_by_name(name, j)) = i
  BY <1>1
<1> QED
  BY <1>2 DEF FirstDentry, NoDentry, read_dentry_by_name

LEMMA GoodFileSize ==
    ASSUME NEW inode \in Nat, GoodFile(inode)
    PROVE  inodes[inode].size \in Nat
BY ImageAssumption DEF GoodFile, get_inode

\* file_open() finds nothing to refuse in a good file.
LEMMA GoodFilePasses ==
    ASSUME NEW inode \in Nat, GoodFile(inode)
    PROVE  FileChecks(inode)
<1> DEFINE B == DATA_BLOCK_SIZE
           size == inodes[inode].size
<1>1. B \in Nat \ {0} /\ size \in Nat
  BY ImageAssumption DEF GoodFile, get_inode
<1> HIDE DEF size
<1>2. ASSUME NEW b \in 0 .. (size \div B) - 1
      PROVE  get_block(inodes[inode].block[b])
  <2>1. size \div B \in Nat /\ (size \div B) * B <= size
    BY <1>1, DivMod
  <2>2. b \in Nat /\ b + 1 <= size \div B
    BY <2>1
  <2>3. (b + 1) * B <= (size \div B) * B /\ (b + 1) * B = b * B + B /\ b * B \in Nat
    BY <1>1, <2>1, <2>2
  <2>4. b * B \in 0 .. size - 1
    BY <1>1, <2>1, <2>3
  <2>5. (b * B + 0) \div B = b
    BY <1>1, <2>2, DivModUnique
  <2>6. (b * B) \div B = b
    BY <1>1, <2>2, <2>3, <2>5
  <2> QED
    BY <2>4, <2>6 DEF GoodFile, size
<1> QED
  BY <1>2 DEF FileChecks, GoodFile, size

\* read_data() finds no bad block in a good file.
LEMMA NoBadBlock ==
    ASSUME FdInv, CopyBadBlock, GoodFile(Reading.inode)
    PROVE  FALSE
<1> DEFINE B == DATA_BLOCK_SIZE
           id == Reading.inode
           pos == Reading.pos
           size == inodes[id].size
<1>1. /\ reader # Nobody /\ reader \in Pids /\ rd \in Locals
      /\ Reading \in FileDesc /\ rd.count < rd.length /\ ~get_block(BlockId)
  BY DEF FdInv, FdTypeOK, CopyBadBlock, Reading, FileDesc, Locals
<1>2. /\ rd.length \in Nat /\ rd.count \in Nat /\ rd.blocknum \in Nat
      /\ rd.blockoffset \in Nat /\ rd.count < rd.length
  BY <1>1 DEF Locals
<1>3. pos \in Nat
  BY <1>1 DEF FileDesc
<1>4. /\ pos + rd.length <= size
      /\ rd.blocknum * B + rd.blockoffset = pos + rd.count
      /\ rd.blockoffset < B
  BY <1>1 DEF FdInv, CopyIsPrefix, AtNextByte
<1>5. B \in Nat \ {0} /\ size \in Nat
  BY <1>1, ImageAssumption DEF get_inode, GoodFile, FileDesc
<1> HIDE DEF id, pos, size
<1>6. pos + rd.count \in 0 .. size - 1
  BY <1>2, <1>3, <1>4, <1>5
<1>7. (pos + rd.count) \div B = rd.blocknum
  <2>1. rd.blockoffset \in 0 .. B - 1
    BY <1>2, <1>4, <1>5
  <2> QED
    BY <1>2, <1>4, <1>5, <2>1, DivModUnique
<1>8. get_block(inodes[id].block[rd.blocknum])
  BY <1>6, <1>7 DEF GoodFile, id, size
<1> QED
  BY <1>1, <1>8 DEF BlockId, id

----------------------------------------------------------------------------

StreamsInv == FdInv /\ DescriptorsSound

LEMMA StreamsInitInv == FdInit => StreamsInv
<1> SUFFICES ASSUME FdInit PROVE DescriptorsSound
  BY FdInitInv DEF StreamsInv
<1> QED
  BY DEF FdInit, DescriptorsSound, SoundDesc, Zero

LEMMA SetDescSound ==
    ASSUME StreamsInv, NEW p \in live, NEW fd \in Fds, NEW d \in FileDesc,
           SetDesc(p, fd, d), SoundDesc(d), live' = live
    PROVE  DescriptorsSound'
<1>1. fds \in Tables /\ p \in Pids
  BY DEF StreamsInv, FdInv, FdTypeOK, Tables
<1>2. ASSUME NEW q \in Pids, NEW g \in Fds
      PROVE  fds'[q][g] = IF q = p /\ g = fd THEN d ELSE fds[q][g]
  BY <1>1 DEF SetDesc, Tables
<1>3. ASSUME NEW q \in Pids, NEW g \in Fds
      PROVE  SoundDesc(fds'[q][g]) /\ (fds'[q][g].open => q \in live)
  <2>1. CASE q = p /\ g = fd
    BY <1>2, <2>1
  <2>2. CASE ~(q = p /\ g = fd)
    BY <1>2, <2>2 DEF StreamsInv, DescriptorsSound
  <2> QED
    BY <2>1, <2>2
<1> QED
  BY <1>3 DEF DescriptorsSound, SoundDesc, GoodFile, get_inode, get_block

LEMMA OpenDentrySound ==
    ASSUME WellFormed, StreamsInv, NEW p \in live, NEW fd \in Fds, NEW i \in 1 .. Len(dentries),
           OpenDentry(p, fd, dentries[i]), live' = live
    PROVE  DescriptorsSound'
<1> DEFINE de == dentries[i]
<1>1. de.inode \in Nat /\ Len(dentries) \in Nat
  BY DentryType, ImageAssumption DEF Dentry
<1>2. p \in Pids /\ fds[p][fd] \in FileDesc
  BY DEF StreamsInv, FdInv, FdTypeOK
<1>3. CASE de.type = FILE_REGULAR
  <2>1. GoodFile(de.inode)
    BY <1>3 DEF WellFormed
  <2>2. file_open(p, fd, de.inode)
    BY <1>1, <1>3, <2>1, GoodFilePasses
       DEF OpenDentry, FILE_REGULAR, FILE_DIRECTORY, FILE_RTC
  <2>3. inodes[de.inode].size \in Nat
    BY <1>1, <2>1, GoodFileSize
  <2>4. Opened("regular", de.inode) \in FileDesc /\ SoundDesc(Opened("regular", de.inode))
    BY <1>1, <2>1, <2>3 DEF Opened, FileDesc, Ftables, SoundDesc
  <2> QED
    BY <2>2, <2>4, SetDescSound DEF file_open
<1>4. CASE de.type = FILE_DIRECTORY
  <2>1. dir_open(p, fd, de.inode)
    BY <1>4 DEF OpenDentry, FILE_REGULAR, FILE_DIRECTORY, FILE_RTC
  <2>2. Opened("dir", de.inode) \in FileDesc /\ SoundDesc(Opened("dir", de.inode))
    BY <1>1 DEF Opened, FileDesc, Ftables, SoundDesc
  <2> QED
    BY <2>1, <2>2, SetDescSound DEF dir_open
<1>5. CASE de.type = FILE_RTC
  <2>1. rtc_open(p, fd)
    BY <1>5 DEF OpenDentry, FILE_REGULAR, FILE_DIRECTORY, FILE_RTC
  <2> DEFINE d == [fds[p][fd] EXCEPT !.open = TRUE, !.ftable = "rtc"]
  <2>2. d \in FileDesc /\ d.ftable = "rtc"
    BY <1>2 DEF FileDesc, Ftables
  <2>3. SoundDesc(d)
    BY <2>2 DEF SoundDesc
  <2> QED
    BY <2>1, <2>2, <2>3, SetDescSound DEF rtc_open
<1>6. CASE de.type \notin {FILE_REGULAR, FILE_DIRECTORY, FILE_RTC}
  <2>1. UNCHANGED fds
    BY <1>6 DEF OpenDentry
  <2> QED
    BY <2>1 DEF StreamsInv, DescriptorsSound, SoundDesc, GoodFile, get_inode, get_block
<1> QED
  BY <1>3, <1>4, <1>5, <1>6

LEMMA SameTableSound ==
    ASSUME DescriptorsSound, UNCHANGED <<live, fds>>
    PROVE  DescriptorsSound'
BY DEF DescriptorsSound, SoundDesc, GoodFile, get_inode, get_block

LEMMA FinishReadSound ==
    ASSUME StreamsInv, FinishRead
    PROVE  DescriptorsSound'
<1>1. /\ reader \in live /\ reader \in Pids /\ rd \in Locals /\ fds \in Tables
      /\ reader # Nobody
  BY DEF FinishRead, StreamsInv, FdInv, FdTypeOK, Tables
<1>2. rd.fd \in Fds /\ rd.count \in Nat /\ rd.length \in Nat /\ rd.count = rd.length
  BY <1>1 DEF Locals, FinishRead
<1>3. Reading \in FileDesc
  BY <1>1, <1>2 DEF Reading, Tables
<1> DEFINE d == [Reading EXCEPT !.pos = Reading.pos + rd.count]
<1>4. d \in FileDesc /\ d.pos = Reading.pos + rd.count /\ d.inode = Reading.inode
      /\ d.ftable = Reading.ftable
  BY <1>2, <1>3, MovedType DEF FileDesc
<1>5. GoodFile(d.inode) /\ d.ftable = "regular"
  BY <1>1, <1>2, <1>4
     DEF StreamsInv, FdInv, CopyIsPrefix, DescriptorsSound, SoundDesc, Reading
<1>6. d.pos <= inodes[d.inode].size
  BY <1>1, <1>2, <1>4 DEF StreamsInv, FdInv, CopyIsPrefix
<1>7. SoundDesc(d)
  BY <1>5, <1>6 DEF SoundDesc
<1>8. SetDesc(reader, rd.fd, d) /\ live' = live
  BY DEF FinishRead
<1> HIDE DEF d
<1> QED
  BY <1>1, <1>2, <1>4, <1>7, <1>8, SetDescSound

LEMMA DirReadSound ==
    ASSUME StreamsInv, NEW p \in Pids, NEW fd, NEW n, dir_read(p, fd, n)
    PROVE  DescriptorsSound'
<1> DEFINE d == fds[p][fd]
           e == [d EXCEPT !.pos = d.pos + 1]
<1>1. /\ fd \in Fds /\ p \in live /\ d \in FileDesc /\ d.ftable = "dir" /\ live' = live
      /\ Len(dentries) \in Nat
  BY ImageAssumption DEF dir_read, Reaches, Runs, JustReturns, StreamsInv, FdInv, FdTypeOK
<1>2. CASE HasDentry(d.pos)
  <2>1. SetDesc(p, fd, e)
    BY <1>2 DEF dir_read
  <2>2. e \in FileDesc
    BY <1>1, MovedType
  <2>3. e.ftable = "dir" /\ e.pos = d.pos + 1 /\ d.pos \in Nat
    BY <1>1 DEF FileDesc
  <2>4. SoundDesc(e)
    <3>1. e.pos <= Len(dentries)
      BY <1>1, <1>2, <2>3 DEF HasDentry
    <3> HIDE DEF e
    <3> QED
      BY <2>3, <3>1 DEF SoundDesc
  <2> HIDE DEF e
  <2> QED
    BY <1>1, <2>1, <2>2, <2>4, SetDescSound
<1>3. CASE ~HasDentry(d.pos)
  BY <1>3, SameTableSound DEF dir_read, JustReturns, StreamsInv
<1> QED
  BY <1>2, <1>3

LEMMA StreamsNextInv ==
    ASSUME WellFormed, StreamsInv, [FdNext]_fdVars
    PROVE  StreamsInv'
<1>0. FdInv'
  BY FdNextInv DEF StreamsInv
<1>t. fds \in Tables /\ live \subseteq Pids /\ (reader # Nobody => reader \in live)
  BY DEF StreamsInv, FdInv, FdTypeOK, Tables
<1>1. CASE UNCHANGED <<live, fds>>
  BY <1>0, <1>1, SameTableSound DEF StreamsInv
<1>2. ASSUME NEW p \in Pids, Launch(p) PROVE DescriptorsSound'
  <2>1. \A q \in Pids, fd \in Fds :
           fds'[q][fd] = IF q = p THEN IF fd < 2 THEN StdInOut(fd) ELSE Shut(fds[q][fd])
                         ELSE fds[q][fd]
    BY <1>2, <1>t DEF Launch, pcb_init, Tables
  <2>2. \A fd \in Fds : fd < 2 => fd \in {0, 1}
    BY DescriptorsAssumption DEF Fds
  <2>3. \A fd \in Fds : fd < 2 => SoundDesc(StdInOut(fd))
    BY <2>2 DEF StdInOut, SoundDesc
  <2>4. \A d \in FileDesc : SoundDesc(Shut(d)) /\ ~Shut(d).open
    BY DEF Shut, SoundDesc, FileDesc
  <2>5. ASSUME NEW q \in Pids, NEW fd \in Fds
        PROVE  SoundDesc(fds'[q][fd]) /\ (fds'[q][fd].open => q \in live')
    <3>1. fds[q][fd] \in FileDesc
      BY <1>t DEF Tables
    <3>2. live' = live \cup {p}
      BY <1>2 DEF Launch
    <3> QED
      BY <2>1, <2>3, <2>4, <3>1, <3>2 DEF StreamsInv, DescriptorsSound
  <2> QED
    BY <2>5 DEF DescriptorsSound, SoundDesc, GoodFile, get_inode, get_block
<1>3. ASSUME NEW p \in Pids, kill_current_proc(p) PROVE DescriptorsSound'
  <2>1. \A q \in Pids, fd \in Fds :
           fds'[q][fd] = IF q = p THEN Shut(fds[q][fd]) ELSE fds[q][fd]
    BY <1>3, <1>t, KillType
  <2>2. \A d \in FileDesc : SoundDesc(Shut(d)) /\ ~Shut(d).open
    BY DEF Shut, SoundDesc, FileDesc
  <2>3. ASSUME NEW q \in Pids, NEW fd \in Fds
        PROVE  SoundDesc(fds'[q][fd]) /\ (fds'[q][fd].open => q \in live')
    <3>1. fds[q][fd] \in FileDesc
      BY <1>t DEF Tables
    <3>2. live' = live \ {p}
      BY <1>3 DEF kill_current_proc
    <3> QED
      BY <2>1, <2>2, <3>1, <3>2 DEF StreamsInv, DescriptorsSound
  <2> QED
    BY <2>3 DEF DescriptorsSound, SoundDesc, GoodFile, get_inode, get_block
<1>4. ASSUME NEW p \in Pids, NEW name \in Names, Open(p, name) PROVE DescriptorsSound'
  <2>1. p \in live /\ live' = live
    BY <1>4 DEF Open, Runs
  <2>2. CASE UNCHANGED fds
    BY <2>1, <2>2, SameTableSound DEF StreamsInv
  <2>3. CASE \E i \in 1 .. Len(dentries), fd \in Fds : OpenDentry(p, fd, dentries[i])
    BY <2>1, <2>3, OpenDentrySound
  <2> QED
    BY <1>4, <2>2, <2>3 DEF Open
<1>5. ASSUME NEW p \in Pids, NEW fd \in Fds \cup BadFds, Close(p, fd) PROVE DescriptorsSound'
  <2>1. p \in live /\ live' = live
    BY <1>5 DEF Close, Runs
  <2>2. CASE UNCHANGED fds
    BY <2>1, <2>2, SameTableSound DEF StreamsInv
  <2>3. CASE fd \in Fds /\ SetDesc(p, fd, Shut(fds[p][fd]))
    <3>1. Shut(fds[p][fd]) \in FileDesc /\ ~Shut(fds[p][fd]).open
      BY <1>t, <2>3, ShutType DEF Tables, Shut, FileDesc
    <3>2. SoundDesc(Shut(fds[p][fd]))
      BY <3>1 DEF SoundDesc
    <3> QED
      BY <2>1, <2>3, <3>1, <3>2, SetDescSound
  <2> QED
    BY <1>5, <2>2, <2>3 DEF Close
<1>6. ASSUME NEW p \in Pids, NEW fd \in Fds \cup BadFds, NEW n \in Counts, Read(p, fd, n)
      PROVE  DescriptorsSound'
  <2>1. CASE dir_read(p, fd, n)
    BY <2>1, DirReadSound
  <2>2. CASE ~dir_read(p, fd, n)
    BY <1>6, <2>2, SameTableSound
       DEF Read, NotOpen, TerminalRead, RtcRead, file_read, JustReturns, StreamsInv
  <2> QED
    BY <2>1, <2>2
<1>7. ASSUME NEW p \in Pids, NEW fd \in Fds \cup BadFds, NEW n \in Counts, Write(p, fd, n)
      PROVE  DescriptorsSound'
  BY <1>7, SameTableSound DEF Write, NotOpen, JustReturns, StreamsInv
<1>8. CASE FinishRead
  BY <1>0, <1>8, FinishReadSound DEF StreamsInv
<1>9. ASSUME NEW p \in Pids, Exit(p) PROVE DescriptorsSound'
  BY <1>3, <1>9 DEF Exit
<1>10. ASSUME FaultInCopy PROVE DescriptorsSound'
  BY <1>3, <1>10, <1>t DEF FaultInCopy, Nobody
<1> QED
  BY <1>0, <1>1, <1>2, <1>4, <1>5, <1>6, <1>7, <1>8, <1>9, <1>10
     DEF StreamsInv, FdNext, CopyBlock, CopyBadBlock, fdVars

----------------------------------------------------------------------------

\* The k bytes of a file from a position on.
Piece(inode, pos, k) == [i \in 1 .. k |-> FileByte(inode, pos + i - 1)]

LEMMA RestOfFileCut ==
    ASSUME NEW inode \in Nat, NEW pos \in Nat, NEW k \in Nat,
           inodes[inode].size \in Nat, pos + k <= inodes[inode].size
    PROVE  /\ Len(RestOfFile(inode, pos)) = inodes[inode].size - pos
           /\ SubSeq(RestOfFile(inode, pos), k + 1, inodes[inode].size - pos)
                = RestOfFile(inode, pos + k)
           /\ SubSeq(RestOfFile(inode, pos), 1, k) = Piece(inode, pos, k)
<1> DEFINE size == inodes[inode].size
<1> HIDE DEF size
<1>1. size \in Nat /\ pos + k <= size /\ size - pos \in Nat /\ size - pos - k \in Nat
  BY DEF size
<1>2. RestOfFile(inode, pos) = [i \in 1 .. size - pos |-> FileByte(inode, pos + i - 1)]
  BY DEF RestOfFile, size
<1>3. RestOfFile(inode, pos + k)
        = [i \in 1 .. size - (pos + k) |-> FileByte(inode, pos + k + i - 1)]
  BY DEF RestOfFile, size
<1>4. Len([i \in 1 .. size - pos |-> FileByte(inode, pos + i - 1)]) = size - pos
  BY <1>1, SMT
<1>5. SubSeq([i \in 1 .. size - pos |-> FileByte(inode, pos + i - 1)], 1, k)
        = [i \in 1 .. k |-> FileByte(inode, pos + i - 1)]
  BY <1>1, SMT
<1>6. SubSeq([i \in 1 .. size - pos |-> FileByte(inode, pos + i - 1)], k + 1, size - pos)
        = [i \in 1 .. size - (pos + k) |-> FileByte(inode, pos + (i + k) - 1)]
  BY <1>1, SMT
<1>7. \A i \in 1 .. size - (pos + k) : pos + (i + k) - 1 = pos + k + i - 1
  BY <1>1
<1> QED
  BY <1>2, <1>3, <1>4, <1>5, <1>6, <1>7 DEF size, Piece

LEMMA RestOfDirCut ==
    ASSUME NEW pos \in Nat, pos < Len(dentries)
    PROVE  /\ Len(RestOfDir(pos)) = Len(dentries) - pos
           /\ RestOfDir(pos) # <<>>
           /\ SubSeq(RestOfDir(pos), 2, Len(dentries) - pos) = RestOfDir(pos + 1)
           /\ SubSeq(RestOfDir(pos), 1, 1) = <<dentries[pos + 1].name>>
<1> DEFINE n == Len(dentries)
<1>1. n \in Nat /\ n - pos \in Nat /\ 1 <= n - pos
  BY ImageAssumption
<1> HIDE DEF n
<1>2. RestOfDir(pos) = [i \in 1 .. n - pos |-> dentries[pos + i].name]
  BY DEF RestOfDir, n
<1>3. RestOfDir(pos + 1) = [i \in 1 .. n - (pos + 1) |-> dentries[pos + 1 + i].name]
  BY DEF RestOfDir, n
<1>4. Len([i \in 1 .. n - pos |-> dentries[pos + i].name]) = n - pos
  BY <1>1, SMT
<1>5. SubSeq([i \in 1 .. n - pos |-> dentries[pos + i].name], 1, 1)
        = <<dentries[pos + 1].name>>
  <2>1. SubSeq([i \in 1 .. n - pos |-> dentries[pos + i].name], 1, 1)
          = [i \in 1 .. 1 |-> dentries[pos + i].name]
    BY <1>1, SMT
  <2>2. [i \in 1 .. 1 |-> dentries[pos + i].name] = <<dentries[pos + 1].name>>
    BY SMT
  <2> QED
    BY <2>1, <2>2
<1>6. SubSeq([i \in 1 .. n - pos |-> dentries[pos + i].name], 2, n - pos)
        = [i \in 1 .. n - (pos + 1) |-> dentries[pos + (i + 1)].name]
  BY <1>1, SMT
<1>7. \A i \in 1 .. n - (pos + 1) : pos + (i + 1) = pos + 1 + i
  BY <1>1
<1>8. RestOfDir(pos) # <<>>
  <2>1. Len(RestOfDir(pos)) = n - pos
    BY <1>2, <1>4
  <2>2. Len(<<>>) = 0
    OBVIOUS
  <2> QED
    BY <1>1, <2>1, <2>2
<1> QED
  BY <1>2, <1>3, <1>4, <1>5, <1>6, <1>7, <1>8 DEF n

\* At the end nothing is left.
LEMMA NothingLeft ==
    /\ \A inode \in Nat : inodes[inode].size \in Nat =>
            RestOfFile(inode, inodes[inode].size) = <<>>
    /\ RestOfDir(Len(dentries)) = <<>>
<1>1. ASSUME NEW inode \in Nat, inodes[inode].size \in Nat
      PROVE  RestOfFile(inode, inodes[inode].size) = <<>>
  BY <1>1 DEF RestOfFile
<1>2. RestOfDir(Len(dentries)) = <<>>
  BY ImageAssumption DEF RestOfDir
<1> QED
  BY <1>1, <1>2

\* The kind of stream of each descriptor.
LEMMA StreamKinds ==
    ASSUME NEW d \in FileDesc
    PROVE  /\ ~d.open => StreamOf(d) = S!Closed
           /\ d.open <=> StreamOf(d).kind # "closed"
           /\ d.open /\ d.ftable = "stdinout" =>
                StreamOf(d) = IF d.inode = 0 THEN S!Input ELSE S!Output
           /\ d.open /\ d.ftable = "rtc" => StreamOf(d) = [kind |-> "clock", rest |-> <<>>]
           /\ d.open /\ d.ftable = "dir" =>
                StreamOf(d) = [kind |-> "directory", rest |-> RestOfDir(d.pos)]
           /\ d.open /\ d.ftable = "regular" =>
                StreamOf(d) = [kind |-> "file", rest |-> RestOfFile(d.inode, d.pos)]
BY DEF FileDesc, Ftables, StreamOf, S!Closed, S!Input, S!Output

LEMMA StreamsOfSetDesc ==
    ASSUME fds \in Tables, NEW p \in Pids, NEW fd \in Fds, NEW d \in FileDesc, SetDesc(p, fd, d)
    PROVE  AllStreams' = [AllStreams EXCEPT ![p] = [@ EXCEPT ![fd] = StreamOf(d)]]
<1>1. AllStreams' = [q \in Pids |-> [g \in Fds |-> StreamOf(fds'[q][g])]]
  BY DEF AllStreams, StreamOf, RestOfFile, RestOfDir, FileByte
<1>2. \A q \in Pids, g \in Fds : fds'[q][g] = IF q = p /\ g = fd THEN d ELSE fds[q][g]
  BY DEF SetDesc, Tables
<1>3. \A q \in Pids : q # p =>
        [g \in Fds |-> StreamOf(fds'[q][g])] = [g \in Fds |-> StreamOf(fds[q][g])]
  BY <1>2
<1>4. [g \in Fds |-> StreamOf(fds'[p][g])]
        = [[g \in Fds |-> StreamOf(fds[p][g])] EXCEPT ![fd] = StreamOf(d)]
  BY <1>2
<1> HIDE <1>2
<1>5. [q \in Pids |-> [g \in Fds |-> StreamOf(fds'[q][g])]]
        = [[q \in Pids |-> [g \in Fds |-> StreamOf(fds[q][g])]] EXCEPT
              ![p] = [[g \in Fds |-> StreamOf(fds[p][g])] EXCEPT ![fd] = StreamOf(d)]]
  BY <1>3, <1>4
<1>6. AllStreams[p] = [g \in Fds |-> StreamOf(fds[p][g])]
  BY DEF AllStreams
<1> QED
  BY <1>1, <1>5, <1>6 DEF AllStreams

LEMMA SameStreams ==
    ASSUME UNCHANGED fds
    PROVE  AllStreams' = AllStreams
BY DEF AllStreams, StreamOf, RestOfFile, RestOfDir, FileByte

\* Setting a descriptor to one with the same stream changes no stream.
LEMMA StreamIs ==
    ASSUME NEW p \in Pids, NEW fd \in Fds
    PROVE  AllStreams[p][fd] = StreamOf(fds[p][fd])
BY DEF AllStreams

LEMMA SameStreamSet ==
    ASSUME NEW p \in Pids, NEW fd \in Fds
    PROVE  [AllStreams EXCEPT ![p] = [@ EXCEPT ![fd] = AllStreams[p][fd]]] = AllStreams
<1>1. AllStreams = [q \in Pids |-> AllStreams[q]]
  BY DEF AllStreams
<1>2. AllStreams[p] = [g \in Fds |-> AllStreams[p][g]]
  BY DEF AllStreams
<1>3. [AllStreams[p] EXCEPT ![fd] = AllStreams[p][fd]] = AllStreams[p]
  BY <1>2
<1> QED
  BY <1>1, <1>3

----------------------------------------------------------------------------

LEMMA LaunchRefines ==
    ASSUME StreamsInv, NEW p \in Pids, Launch(p)
    PROVE  S!Begin(p)
<1>1. fds \in Tables
  BY DEF StreamsInv, FdInv, FdTypeOK, Tables
<1>2. \A q \in Pids, fd \in Fds :
         fds'[q][fd] = IF q = p THEN IF fd < 2 THEN StdInOut(fd) ELSE Shut(fds[q][fd])
                       ELSE fds[q][fd]
  BY <1>1 DEF Launch, pcb_init, Tables
<1>3. ASSUME NEW fd \in Fds
      PROVE  StreamOf(fds'[p][fd]) = IF fd = 0 THEN S!Input
                                      ELSE IF fd = 1 THEN S!Output ELSE S!Closed
  <2>1. CASE fd = 0 \/ fd = 1
    <3>1. StdInOut(fd) \in FileDesc /\ StdInOut(fd).open
          /\ StdInOut(fd).ftable = "stdinout" /\ StdInOut(fd).inode = fd
      BY StdInOutType DEF StdInOut
    <3> QED
      BY <1>2, <2>1, <3>1, StreamKinds
  <2>2. CASE ~(fd = 0 \/ fd = 1)
    <3>1. ~(fd < 2)
      BY <2>2, DescriptorsAssumption DEF Fds
    <3>2. fds[p][fd] \in FileDesc
      BY <1>1 DEF Tables
    <3>3. Shut(fds[p][fd]) \in FileDesc /\ ~Shut(fds[p][fd]).open
      BY <3>2, ShutType DEF Shut, FileDesc
    <3> QED
      BY <1>2, <2>2, <3>1, <3>3, StreamKinds
  <2> QED
    BY <2>1, <2>2
<1>4. AllStreams' = [q \in Pids |-> [g \in Fds |-> StreamOf(fds'[q][g])]]
  BY DEF AllStreams, StreamOf, RestOfFile, RestOfDir, FileByte
<1>5. \A q \in Pids : q # p =>
         [g \in Fds |-> StreamOf(fds'[q][g])] = [g \in Fds |-> StreamOf(fds[q][g])]
  BY <1>2
<1>6. [g \in Fds |-> StreamOf(fds'[p][g])] = S!Standard
  BY <1>3 DEF S!Standard
<1>7. AllStreams' = [AllStreams EXCEPT ![p] = S!Standard]
  BY <1>4, <1>5, <1>6 DEF AllStreams
<1> QED
  BY <1>7 DEF Launch, S!Begin

LEMMA KillRefines ==
    ASSUME StreamsInv, NEW p \in Pids, p \in live, kill_current_proc(p)
    PROVE  S!End(p)
<1>1. fds \in Tables
  BY DEF StreamsInv, FdInv, FdTypeOK, Tables
<1>2. \A q \in Pids, fd \in Fds :
         fds'[q][fd] = IF q = p THEN Shut(fds[q][fd]) ELSE fds[q][fd]
  BY <1>1, KillType
<1>3. ASSUME NEW fd \in Fds PROVE StreamOf(fds'[p][fd]) = S!Closed
  <2>1. fds[p][fd] \in FileDesc
    BY <1>1 DEF Tables
  <2>2. Shut(fds[p][fd]) \in FileDesc /\ ~Shut(fds[p][fd]).open
    BY <2>1, ShutType DEF Shut, FileDesc
  <2> QED
    BY <1>2, <2>2, StreamKinds
<1>4. AllStreams' = [q \in Pids |-> [g \in Fds |-> StreamOf(fds'[q][g])]]
  BY DEF AllStreams, StreamOf, RestOfFile, RestOfDir, FileByte
<1>5. \A q \in Pids : q # p =>
         [g \in Fds |-> StreamOf(fds'[q][g])] = [g \in Fds |-> StreamOf(fds[q][g])]
  BY <1>2
<1>6. [g \in Fds |-> StreamOf(fds'[p][g])] = [h \in Fds |-> S!Closed]
  BY <1>3
<1>7. AllStreams' = [AllStreams EXCEPT ![p] = [h \in Fds |-> S!Closed]]
  BY <1>4, <1>5, <1>6 DEF AllStreams
<1> QED
  BY <1>7 DEF kill_current_proc, S!End

\* A call that returns without touching a descriptor.
LEMMA UntouchedStreams ==
    ASSUME NEW call, NEW p, NEW fd, NEW value, NEW taken, JustReturns(call, p, fd, value, taken)
    PROVE  S!Answer(call, p, fd, value, taken) /\ UNCHANGED <<live, AllStreams>>
BY SameStreams DEF JustReturns, Returns, S!Answer

LEMMA NotOpenRefines ==
    ASSUME StreamsInv, NEW call \in {"read", "write"}, NEW p \in Pids,
           NEW fd \in Fds \cup BadFds, NEW n \in Counts, NotOpen(call, p, fd)
    PROVE  S!StreamsNext
<1>1. p \in live /\ S!Fails(call, p, fd)
  BY UntouchedStreams DEF NotOpen, Runs, S!Fails
<1>2. CASE fd \in BadFds
  BY <1>1, <1>2 DEF S!StreamsNext, S!Call
<1>3. CASE fd \in Fds
  <2>1. fds[p][fd] \in FileDesc /\ ~fds[p][fd].open
    BY <1>3 DEF StreamsInv, FdInv, FdTypeOK, NotOpen
  <2>2. AllStreams[p][fd].kind = "closed"
    BY <1>3, <2>1, StreamKinds, StreamIs
  <2>3. S!ReadStream(p, fd, n) \/ S!WriteStream(p, fd, n)
    BY <1>1, <2>2 DEF S!ReadStream, S!WriteStream
  <2> QED
    BY <1>1, <1>3, <2>3 DEF S!StreamsNext, S!Call
<1> QED
  BY <1>2, <1>3

LEMMA OpenRefines ==
    ASSUME WellFormed, StreamsInv, NEW p \in Pids, NEW name \in Names, Open(p, name)
    PROVE  S!OpenStream(p, name)
<1>0. DOMAIN Entries = Openable
      /\ \A nm \in Openable : Entries[nm] = NewStream(FirstDentry(nm))
  BY DEF Entries
<1>1. fds \in Tables /\ UNCHANGED live
  BY DEF StreamsInv, FdInv, FdTypeOK, Tables, Open
<1>2. \A fd \in Fds : fds[p][fd] \in FileDesc /\ (fds[p][fd].open <=> ~S!Unused(p, fd))
  BY <1>1, StreamKinds, StreamIs DEF Tables, S!Unused
<1>f. ASSUME Returns("open", p, -1, -1, <<>>), UNCHANGED fds
      PROVE  S!Fails("open", p, -1)
  BY <1>1, <1>f, SameStreams DEF Returns, S!Fails, S!Answer
<1>3. CASE /\ NoDentry(name) \/ \A fd \in Fds : fds[p][fd].open
           /\ Returns("open", p, -1, -1, <<>>)
           /\ UNCHANGED fds
  <2>1. name \notin Openable \/ \A fd \in Fds : ~S!Unused(p, fd)
    BY <1>2, <1>3 DEF Openable
  <2> QED
    BY <1>0, <1>3, <1>f, <2>1 DEF S!OpenStream
<1>4. CASE \E i \in 1 .. Len(dentries), fd \in Fds :
              read_dentry_by_name(name, i) /\ alloc_fd(p, fd) /\ OpenDentry(p, fd, dentries[i])
  <2>1. PICK i \in 1 .. Len(dentries), fd \in Fds :
              read_dentry_by_name(name, i) /\ alloc_fd(p, fd) /\ OpenDentry(p, fd, dentries[i])
    BY <1>4
  <2> DEFINE de == dentries[i]
  <2>2. FirstDentry(name) = de /\ ~NoDentry(name)
    BY <2>1, FirstDentryIs
  <2>3. de.inode \in Nat
    BY DentryType DEF Dentry
  <2> HIDE DEF de
  <2>4. S!Unused(p, fd) /\ \A lower \in Fds : lower < fd => ~S!Unused(p, lower)
    BY <1>2, <2>1 DEF alloc_fd
  <2>5. ASSUME NEW d \in FileDesc, SetDesc(p, fd, d), StreamOf(d) = NewStream(de),
               de.type \in {FILE_REGULAR, FILE_DIRECTORY, FILE_RTC},
               Returns("open", p, fd, fd, <<>>)
        PROVE  S!OpenStream(p, name)
    <3>1. name \in Openable /\ Entries[name] = StreamOf(d)
      BY <1>0, <2>2, <2>5 DEF Openable
    <3>2. AllStreams' = [AllStreams EXCEPT ![p] = [@ EXCEPT ![fd] = Entries[name]]]
      BY <1>1, <2>5, <3>1, StreamsOfSetDesc
    <3>3. S!Answer("open", p, fd, fd, <<>>)
      BY <2>5 DEF Returns, S!Answer
    <3> QED
      BY <1>0, <1>1, <2>4, <3>1, <3>2, <3>3 DEF S!OpenStream
  <2>6. CASE de.type = FILE_REGULAR
    <3>1. GoodFile(de.inode)
      BY <2>6 DEF WellFormed, de
    <3>2. file_open(p, fd, de.inode) /\ Returns("open", p, fd, fd, <<>>)
      BY <2>1, <2>3, <2>6, <3>1, GoodFilePasses
         DEF OpenDentry, FILE_REGULAR, FILE_DIRECTORY, FILE_RTC, de
    <3> DEFINE d == Opened("regular", de.inode)
    <3>3. d \in FileDesc /\ d.open /\ d.ftable = "regular" /\ d.inode = de.inode /\ d.pos = 0
      BY <2>3 DEF Opened, FileDesc, Ftables
    <3>4. StreamOf(d) = NewStream(de)
      BY <2>6, <3>3, StreamKinds DEF NewStream, FILE_REGULAR, FILE_DIRECTORY, FILE_RTC
    <3> QED
      BY <2>5, <2>6, <3>2, <3>3, <3>4 DEF file_open
  <2>7. CASE de.type = FILE_DIRECTORY
    <3>1. dir_open(p, fd, de.inode) /\ Returns("open", p, fd, fd, <<>>)
      BY <2>1, <2>7 DEF OpenDentry, FILE_REGULAR, FILE_DIRECTORY, FILE_RTC, de
    <3> DEFINE d == Opened("dir", de.inode)
    <3>2. d \in FileDesc /\ d.open /\ d.ftable = "dir" /\ d.pos = 0
      BY <2>3 DEF Opened, FileDesc, Ftables
    <3>3. StreamOf(d) = NewStream(de)
      BY <2>7, <3>2, StreamKinds DEF NewStream, FILE_REGULAR, FILE_DIRECTORY, FILE_RTC
    <3> QED
      BY <2>5, <2>7, <3>1, <3>2, <3>3 DEF dir_open
  <2>8. CASE de.type = FILE_RTC
    <3>1. rtc_open(p, fd) /\ Returns("open", p, fd, fd, <<>>)
      BY <2>1, <2>8 DEF OpenDentry, FILE_REGULAR, FILE_DIRECTORY, FILE_RTC, de
    <3> DEFINE d == [fds[p][fd] EXCEPT !.open = TRUE, !.ftable = "rtc"]
    <3>2. d \in FileDesc /\ d.open /\ d.ftable = "rtc"
      BY <1>2 DEF FileDesc, Ftables
    <3>3. StreamOf(d) = NewStream(de)
      <4> HIDE DEF d
      <4> QED
        BY <2>8, <3>2, StreamKinds DEF NewStream, FILE_REGULAR, FILE_DIRECTORY, FILE_RTC
    <3> QED
      BY <2>5, <2>8, <3>1, <3>2, <3>3 DEF rtc_open
  <2>9. CASE de.type \notin {FILE_REGULAR, FILE_DIRECTORY, FILE_RTC}
    <3>1. Returns("open", p, -1, -1, <<>>) /\ UNCHANGED fds
      BY <2>1, <2>9 DEF OpenDentry, de
    <3>2. name \notin Openable
      BY <2>2, <2>9 DEF Openable
    <3> QED
      BY <1>0, <1>f, <3>1, <3>2 DEF S!OpenStream
  <2> QED
    BY <2>6, <2>7, <2>8, <2>9
<1> QED
  BY <1>3, <1>4 DEF Open

LEMMA CloseRefines ==
    ASSUME StreamsInv, NEW p \in Pids, NEW fd \in Fds \cup BadFds, Close(p, fd)
    PROVE  S!StreamsNext
<1>1. fds \in Tables /\ UNCHANGED live /\ p \in live
  BY DEF StreamsInv, FdInv, FdTypeOK, Tables, Close, Runs
<1>2. CASE fd \in Fds /\ fds[p][fd].open /\ CanClose(fds[p][fd].ftable)
  <2> DEFINE d == fds[p][fd]
  <2>1. d \in FileDesc /\ Shut(d) \in FileDesc /\ ~Shut(d).open
    BY <1>1, <1>2, ShutType DEF Tables, Shut, FileDesc
  <2>2. AllStreams[p][fd].kind \in {"file", "directory", "clock"}
    BY <1>2, <2>1, StreamKinds, StreamIs
       DEF CanClose, StreamsInv, DescriptorsSound, SoundDesc
  <2>3. SetDesc(p, fd, Shut(d)) /\ Returns("close", p, fd, 0, <<>>)
    BY <1>2 DEF Close
  <2>4. StreamOf(Shut(d)) = S!Closed
    BY <2>1, StreamKinds
  <2>5. AllStreams' = [AllStreams EXCEPT ![p] = [@ EXCEPT ![fd] = S!Closed]]
    BY <1>1, <1>2, <2>1, <2>3, <2>4, StreamsOfSetDesc
  <2>6. S!CloseStream(p, fd)
    BY <1>1, <2>2, <2>3, <2>5 DEF S!CloseStream, S!Answer, Returns
  <2> QED
    BY <1>1, <1>2, <2>6 DEF S!StreamsNext, S!Call
<1>3. CASE ~(fd \in Fds /\ fds[p][fd].open /\ CanClose(fds[p][fd].ftable))
  <2>1. UNCHANGED fds /\ Returns("close", p, fd, -1, <<>>)
    BY <1>3 DEF Close
  <2>2. S!Fails("close", p, fd)
    BY <1>1, <2>1, SameStreams DEF S!Fails, S!Answer, Returns
  <2>3. CASE fd \in BadFds
    BY <1>1, <2>2, <2>3 DEF S!StreamsNext, S!Call
  <2>4. CASE fd \in Fds
    <3>1. fds[p][fd] \in FileDesc
      BY <1>1, <2>4 DEF Tables
    <3>2. AllStreams[p][fd].kind \in {"closed", "input", "output"}
      BY <1>3, <2>4, <3>1, StreamKinds, StreamIs DEF CanClose, S!Closed, S!Input, S!Output
    <3>3. S!CloseStream(p, fd)
      BY <2>2, <3>2 DEF S!CloseStream
    <3> QED
      BY <1>1, <2>4, <3>3 DEF S!StreamsNext, S!Call
  <2> QED
    BY <2>3, <2>4
<1> QED
  BY <1>2, <1>3

\* A read of nothing from a stream with nothing left.
LEMMA TakeNothing ==
    ASSUME NEW p \in Pids, NEW fd \in Fds, NEW kind,
           AllStreams[p][fd] = [kind |-> kind, rest |-> <<>>],
           S!Answer("read", p, fd, 0, <<>>), UNCHANGED <<live, AllStreams>>
    PROVE  S!Take(p, fd, 0, 0)
<1>1. SubSeq(<<>>, 0 + 1, Len(<<>>)) = <<>> /\ SubSeq(<<>>, 1, 0) = <<>>
  OBVIOUS
<1>2. [kind |-> AllStreams[p][fd].kind,
       rest |-> SubSeq(AllStreams[p][fd].rest, 0 + 1, Len(AllStreams[p][fd].rest))]
         = AllStreams[p][fd]
  BY <1>1
<1>3. SubSeq(AllStreams[p][fd].rest, 1, 0) = <<>>
  BY <1>1
<1>4. [AllStreams EXCEPT ![p] =
          [@ EXCEPT ![fd] = [kind |-> AllStreams[p][fd].kind,
                             rest |-> SubSeq(AllStreams[p][fd].rest, 0 + 1,
                                             Len(AllStreams[p][fd].rest))]]] = AllStreams
  BY <1>2, SameStreamSet
<1>5. S!Answer("read", p, fd, 0, SubSeq(AllStreams[p][fd].rest, 1, 0))
  BY <1>3
<1> QED
  BY <1>4, <1>5 DEF S!Take

LEMMA TerminalReadRefines ==
    ASSUME StreamsInv, NEW p \in Pids, NEW fd \in Fds, NEW n \in Counts, TerminalRead(p, fd, n)
    PROVE  S!ReadStream(p, fd, n)
<1>1. fds[p][fd] \in FileDesc /\ fds[p][fd].open /\ fds[p][fd].ftable = "stdinout"
  BY DEF StreamsInv, FdInv, FdTypeOK, TerminalRead, Reaches
<1>2. fds[p][fd].inode \in {0, 1}
  BY <1>1 DEF StreamsInv, DescriptorsSound, SoundDesc
<1>3. AllStreams[p][fd] = IF fds[p][fd].inode = 0 THEN S!Input ELSE S!Output
  BY <1>1, StreamKinds, StreamIs
<1>4. CASE fds[p][fd].inode = 1
  <2>1. S!Fails("read", p, fd)
    BY <1>4, UntouchedStreams DEF TerminalRead, S!Fails
  <2> QED
    BY <1>3, <1>4, <2>1 DEF S!ReadStream, S!Output
<1>5. CASE fds[p][fd].inode = 0
  <2>1. PICK count \in 0 .. n : JustReturns("read", p, fd, count, <<>>)
    BY <1>5 DEF TerminalRead
  <2>2. S!Answer("read", p, fd, count, <<>>) /\ UNCHANGED <<live, AllStreams>>
    BY <2>1, UntouchedStreams
  <2> QED
    BY <1>3, <1>5, <2>2 DEF S!ReadStream, S!Input
<1> QED
  BY <1>2, <1>4, <1>5

LEMMA RtcReadRefines ==
    ASSUME StreamsInv, NEW p \in Pids, NEW fd \in Fds, NEW n \in Counts, RtcRead(p, fd)
    PROVE  S!ReadStream(p, fd, n)
<1>1. fds[p][fd] \in FileDesc /\ fds[p][fd].open /\ fds[p][fd].ftable = "rtc"
  BY DEF StreamsInv, FdInv, FdTypeOK, RtcRead, Reaches
<1>2. AllStreams[p][fd].kind = "clock"
  BY <1>1, StreamKinds, StreamIs
<1>3. S!Answer("read", p, fd, 0, <<>>) /\ UNCHANGED <<live, AllStreams>>
  BY UntouchedStreams DEF RtcRead
<1>4. 0 \in 0 .. n
  BY DescriptorsAssumption
<1> QED
  BY <1>2, <1>3, <1>4 DEF S!ReadStream

LEMMA DirReadRefines ==
    ASSUME StreamsInv, NEW p \in Pids, NEW fd \in Fds, NEW n \in Counts, dir_read(p, fd, n)
    PROVE  S!ReadStream(p, fd, n)
<1> DEFINE d == fds[p][fd]
           e == [d EXCEPT !.pos = d.pos + 1]
<1>1. fds \in Tables /\ d \in FileDesc /\ d.open /\ d.ftable = "dir" /\ d.pos \in Nat
  BY DEF StreamsInv, FdInv, FdTypeOK, dir_read, Reaches, Tables, FileDesc
<1>2. d.pos <= Len(dentries)
  BY <1>1 DEF StreamsInv, DescriptorsSound, SoundDesc
<1>3. AllStreams[p][fd] = [kind |-> "directory", rest |-> RestOfDir(d.pos)]
  BY <1>1, StreamKinds, StreamIs
<1>4. CASE HasDentry(d.pos)
  <2>1. /\ SetDesc(p, fd, e) /\ UNCHANGED live
        /\ Returns("read", p, fd, Least(n, DENTRY_NAME_LEN), <<dentries[d.pos + 1].name>>)
    BY <1>4 DEF dir_read
  <2>2. e \in FileDesc
    BY <1>1, MovedType
  <2>3. e.open /\ e.ftable = "dir" /\ e.pos = d.pos + 1
    BY <1>1 DEF FileDesc
  <2>4. StreamOf(e) = [kind |-> "directory", rest |-> RestOfDir(d.pos + 1)]
    <3> HIDE DEF e
    <3> QED
      BY <2>2, <2>3, StreamKinds
  <2>5. /\ Len(RestOfDir(d.pos)) = Len(dentries) - d.pos
        /\ RestOfDir(d.pos) # <<>>
        /\ SubSeq(RestOfDir(d.pos), 2, Len(dentries) - d.pos) = RestOfDir(d.pos + 1)
        /\ SubSeq(RestOfDir(d.pos), 1, 1) = <<dentries[d.pos + 1].name>>
    BY <1>1, <1>4, RestOfDirCut DEF HasDentry
  <2>6. AllStreams' = [AllStreams EXCEPT ![p] = [@ EXCEPT ![fd] = StreamOf(e)]]
    BY <1>1, <2>1, <2>2, StreamsOfSetDesc
  <2>7. S!Smaller(n, DENTRY_NAME_LEN) = Least(n, DENTRY_NAME_LEN)
    BY DEF S!Smaller, Least
  <2>8. S!Take(p, fd, 1, S!Smaller(n, DENTRY_NAME_LEN))
    <3> HIDE DEF d, e
    <3>1. /\ AllStreams[p][fd].kind = "directory"
          /\ SubSeq(AllStreams[p][fd].rest, 1 + 1, Len(AllStreams[p][fd].rest))
               = RestOfDir(d.pos + 1)
          /\ SubSeq(AllStreams[p][fd].rest, 1, 1) = <<dentries[d.pos + 1].name>>
      BY <1>3, <2>5
    <3> QED
      BY <2>1, <2>4, <2>6, <2>7, <3>1 DEF S!Take, S!Answer, Returns
  <2> QED
    BY <1>3, <2>5, <2>8 DEF S!ReadStream
<1>5. CASE ~HasDentry(d.pos)
  <2>1. d.pos = Len(dentries)
    BY <1>1, <1>2, <1>5, ImageAssumption DEF HasDentry
  <2>2. AllStreams[p][fd] = [kind |-> "directory", rest |-> <<>>]
    BY <1>3, <2>1, NothingLeft
  <2>3. S!Answer("read", p, fd, 0, <<>>) /\ UNCHANGED <<live, AllStreams>>
    BY <1>5, UntouchedStreams DEF dir_read
  <2> QED
    BY <2>2, <2>3, TakeNothing DEF S!ReadStream
<1> QED
  BY <1>4, <1>5

\* file_read() that copies nothing because the file is at its end.
LEMMA EndOfFileRefines ==
    ASSUME StreamsInv, NEW p \in Pids, NEW fd \in Fds, NEW n \in Counts, file_read(p, fd, n),
           reader' = Nobody
    PROVE  S!ReadStream(p, fd, n)
<1> DEFINE d == fds[p][fd]
<1>1. /\ d \in FileDesc /\ d.open /\ d.ftable = "regular" /\ d.inode \in Nat /\ d.pos \in Nat
      /\ p # Nobody /\ n \in Nat
  BY DescriptorsAssumption
     DEF StreamsInv, FdInv, FdTypeOK, file_read, Reaches, FileDesc, Nobody
<1>2. GoodFile(d.inode) /\ d.pos <= inodes[d.inode].size
  BY <1>1 DEF StreamsInv, DescriptorsSound, SoundDesc
<1>3. get_inode(d.inode) /\ inodes[d.inode].size \in Nat
  BY <1>1, <1>2, GoodFileSize DEF GoodFile
<1>4. d.pos >= inodes[d.inode].size /\ JustReturns("read", p, fd, 0, <<>>)
  BY <1>1, <1>3 DEF file_read
<1>5. d.pos = inodes[d.inode].size
  BY <1>1, <1>2, <1>3, <1>4
<1>6. AllStreams[p][fd] = [kind |-> "file", rest |-> <<>>]
  BY <1>1, <1>3, <1>5, StreamKinds, StreamIs, NothingLeft
<1>7. S!Answer("read", p, fd, 0, <<>>) /\ UNCHANGED <<live, AllStreams>>
  BY <1>4, UntouchedStreams
<1>8. S!Smaller(n, Len(AllStreams[p][fd].rest)) = 0
  BY <1>1, <1>6 DEF S!Smaller
<1> QED
  BY <1>6, <1>7, <1>8, TakeNothing DEF S!ReadStream

\* The end of the loop of read_data() is when the read happens.
LEMMA FinishReadRefines ==
    ASSUME StreamsInv, FinishRead
    PROVE  \E n \in Counts : S!ReadStream(reader, rd.fd, n)
<1> DEFINE d == Reading
           k == rd.count
           size == inodes[d.inode].size
           e == [d EXCEPT !.pos = d.pos + k]
<1>1. /\ reader \in Pids /\ reader # Nobody /\ rd.fd \in Fds /\ rd.count \in Nat
      /\ fds \in Tables /\ rd.count = rd.length
  BY DEF StreamsInv, FinishRead, FdInv, FdTypeOK, Locals, Tables
<1>2. d \in FileDesc /\ d = fds[reader][rd.fd]
  BY <1>1 DEF Reading, Tables
<1>3. d.open /\ d.ftable = "regular" /\ GoodFile(d.inode) /\ d.inode \in Nat /\ d.pos \in Nat
  BY <1>1, <1>2
     DEF StreamsInv, FdInv, CopyIsPrefix, DescriptorsSound, SoundDesc, FileDesc
<1>4. /\ d.pos + k <= size
      /\ \A i \in 1 .. k : buf[i] = FileByte(d.inode, d.pos + i - 1)
      /\ buf \in [1 .. k -> Bytes]
  BY <1>1 DEF StreamsInv, FdInv, FdTypeOK, CopyIsPrefix
<1>5. PICK n \in Counts : k = Least(n, size - d.pos)
  BY <1>1 DEF StreamsInv, FdInv, CopyIsPrefix, LengthAsked
<1>6. size \in Nat
  BY <1>3, GoodFileSize
<1>7. /\ SetDesc(reader, rd.fd, e) /\ UNCHANGED live
      /\ Returns("read", reader, rd.fd, k, buf)
  BY DEF FinishRead
<1>8. e \in FileDesc /\ e.open /\ e.ftable = "regular" /\ e.inode = d.inode /\ e.pos = d.pos + k
  BY <1>1, <1>2, <1>3, MovedType DEF FileDesc
<1> HIDE DEF d, k, size, e
<1>9. /\ Len(RestOfFile(d.inode, d.pos)) = size - d.pos
      /\ SubSeq(RestOfFile(d.inode, d.pos), k + 1, size - d.pos) = RestOfFile(d.inode, d.pos + k)
      /\ SubSeq(RestOfFile(d.inode, d.pos), 1, k) = Piece(d.inode, d.pos, k)
  <2>1. k \in Nat
    BY <1>1 DEF k
  <2>2. inodes[d.inode].size \in Nat /\ d.pos + k <= inodes[d.inode].size
    BY <1>4, <1>6 DEF size
  <2> QED
    BY <1>3, <2>1, <2>2, RestOfFileCut DEF size
<1>10. buf = Piece(d.inode, d.pos, k)
  BY <1>4 DEF Piece
<1>11. AllStreams[reader][rd.fd] = [kind |-> "file", rest |-> RestOfFile(d.inode, d.pos)]
  BY <1>1, <1>2, <1>3, StreamKinds, StreamIs
<1>12. StreamOf(e) = [kind |-> "file", rest |-> RestOfFile(d.inode, d.pos + k)]
  BY <1>8, StreamKinds
<1>13. AllStreams' = [AllStreams EXCEPT ![reader] = [@ EXCEPT ![rd.fd] = StreamOf(e)]]
  BY <1>1, <1>7, <1>8, StreamsOfSetDesc
<1>14. S!Smaller(n, Len(AllStreams[reader][rd.fd].rest)) = k
  BY <1>5, <1>9, <1>11 DEF S!Smaller, Least
<1>15. S!Take(reader, rd.fd, k, k)
  <2>1. /\ AllStreams[reader][rd.fd].kind = "file"
        /\ SubSeq(AllStreams[reader][rd.fd].rest, k + 1, Len(AllStreams[reader][rd.fd].rest))
             = RestOfFile(d.inode, d.pos + k)
        /\ SubSeq(AllStreams[reader][rd.fd].rest, 1, k) = buf
    BY <1>9, <1>10, <1>11
  <2> QED
    BY <1>7, <1>12, <1>13, <2>1 DEF S!Take, S!Answer, Returns
<1> QED
  BY <1>11, <1>14, <1>15 DEF S!ReadStream

LEMMA WriteRefines ==
    ASSUME StreamsInv, NEW p \in Pids, NEW fd \in Fds, NEW n \in Counts, Write(p, fd, n),
           ~NotOpen("write", p, fd)
    PROVE  S!WriteStream(p, fd, n)
<1>1. fds[p][fd] \in FileDesc /\ fds[p][fd].open
  BY DEF StreamsInv, FdInv, FdTypeOK, Write, Reaches
<1>2. CASE /\ Reaches(p, fd, "stdinout")
           /\ JustReturns("write", p, fd, IF fds[p][fd].inode = 0 THEN -1 ELSE n, <<>>)
  <2>1. AllStreams[p][fd] = IF fds[p][fd].inode = 0 THEN S!Input ELSE S!Output
    BY <1>1, <1>2, StreamKinds, StreamIs DEF Reaches
  <2>2. S!Answer("write", p, fd, IF fds[p][fd].inode = 0 THEN -1 ELSE n, <<>>)
        /\ UNCHANGED <<live, AllStreams>>
    BY <1>2, UntouchedStreams
  <2> QED
    BY <2>1, <2>2 DEF S!WriteStream, S!Fails, S!Input, S!Output
<1>3. CASE Reaches(p, fd, "rtc") /\ \E value \in {-1, n} :
                                        JustReturns("write", p, fd, value, <<>>)
  <2>1. AllStreams[p][fd].kind = "clock"
    BY <1>1, <1>3, StreamKinds, StreamIs DEF Reaches
  <2>2. PICK value \in {-1, n} : S!Answer("write", p, fd, value, <<>>)
                                 /\ UNCHANGED <<live, AllStreams>>
    BY <1>3, UntouchedStreams
  <2> QED
    BY <2>1, <2>2 DEF S!WriteStream, S!Fails
<1>4. CASE (Reaches(p, fd, "regular") \/ Reaches(p, fd, "dir"))
           /\ JustReturns("write", p, fd, -1, <<>>)
  <2>1. AllStreams[p][fd].kind # "output"
    BY <1>1, <1>4, StreamKinds, StreamIs DEF Reaches
  <2>2. S!Fails("write", p, fd)
    BY <1>4, UntouchedStreams DEF S!Fails
  <2> QED
    BY <2>1, <2>2 DEF S!WriteStream
<1> QED
  BY <1>2, <1>3, <1>4 DEF Write

----------------------------------------------------------------------------

LEMMA InitRefines == FdInit => S!StreamsInit
<1> SUFFICES ASSUME FdInit PROVE S!StreamsInit
  OBVIOUS
<1>1. Zero \in FileDesc /\ ~Zero.open
  BY DEF Zero, FileDesc, Ftables
<1>2. StreamOf(Zero) = S!Closed
  BY <1>1, StreamKinds
<1>3. AllStreams = [p \in Pids |-> [h \in Fds |-> S!Closed]]
  BY <1>2 DEF AllStreams, FdInit
<1> QED
  BY <1>3 DEF FdInit, S!StreamsInit, Nobody

LEMMA NextRefines ==
    ASSUME WellFormed, StreamsInv, [FdNext]_fdVars
    PROVE  S!StreamsNext \/ UNCHANGED S!streamVars
<1>1. CASE UNCHANGED <<live, fds, reply>>
  BY <1>1, SameStreams DEF S!streamVars
<1>2. ASSUME NEW p \in Pids, Launch(p) \/ Exit(p) PROVE S!StreamsNext
  BY <1>2, LaunchRefines, KillRefines DEF Exit, Runs, S!StreamsNext
<1>3. ASSUME NEW p \in Pids, NEW name \in Names, Open(p, name) PROVE S!StreamsNext
  <2>1. p \in live
    BY <1>3 DEF Open, Runs
  <2> QED
    BY <1>3, <2>1, OpenRefines DEF S!StreamsNext, S!Call
<1>4. ASSUME NEW p \in Pids, NEW fd \in Fds \cup BadFds, Close(p, fd) PROVE S!StreamsNext
  BY <1>4, CloseRefines
<1>5. ASSUME NEW p \in Pids, NEW fd \in Fds \cup BadFds, NEW n \in Counts, Read(p, fd, n)
      PROVE  S!StreamsNext \/ UNCHANGED <<live, fds, reply>>
  <2>1. CASE NotOpen("read", p, fd)
    BY <2>1, NotOpenRefines
  <2>2. CASE ~NotOpen("read", p, fd)
    <3>1. p \in live /\ fd \in Fds
      BY <1>5, <2>2 DEF Read, TerminalRead, RtcRead, dir_read, file_read, Reaches, Runs
    <3>2. CASE file_read(p, fd, n) /\ reader' # Nobody
      <4>1. reader = Nobody
        BY <3>2 DEF file_read, Reaches, Runs
      <4> QED
        BY <3>2, <4>1 DEF file_read, JustReturns
    <3>3. CASE ~(file_read(p, fd, n) /\ reader' # Nobody)
      <4>1. S!ReadStream(p, fd, n)
        BY <1>5, <2>2, <3>1, <3>3, TerminalReadRefines, RtcReadRefines, DirReadRefines,
           EndOfFileRefines DEF Read
      <4> QED
        BY <3>1, <4>1 DEF S!StreamsNext, S!Call
    <3> QED
      BY <3>2, <3>3
  <2> QED
    BY <2>1, <2>2
<1>6. ASSUME NEW p \in Pids, NEW fd \in Fds \cup BadFds, NEW n \in Counts, Write(p, fd, n)
      PROVE  S!StreamsNext
  <2>1. CASE NotOpen("write", p, fd)
    BY <2>1, NotOpenRefines
  <2>2. CASE ~NotOpen("write", p, fd)
    <3>1. p \in live /\ fd \in Fds
      BY <1>6, <2>2 DEF Write, Reaches, Runs
    <3> QED
      BY <1>6, <2>2, <3>1, WriteRefines DEF S!StreamsNext, S!Call
  <2> QED
    BY <2>1, <2>2
<1>7. ASSUME CopyBadBlock PROVE FALSE
  <2>1. /\ reader \in Pids /\ rd.fd \in Fds /\ Reading.open /\ Reading.ftable = "regular"
    BY <1>7 DEF CopyBadBlock, StreamsInv, FdInv, FdTypeOK, Locals, CopyIsPrefix
  <2>2. GoodFile(Reading.inode)
    BY <2>1 DEF StreamsInv, DescriptorsSound, SoundDesc, Reading
  <2> QED
    BY <1>7, <2>2, NoBadBlock DEF StreamsInv
<1>8. CASE FinishRead
  <2>1. reader \in live /\ rd.fd \in Fds
    BY <1>8 DEF FinishRead, StreamsInv, FdInv, FdTypeOK, Locals
  <2> QED
    BY <1>8, <2>1, FinishReadRefines DEF S!StreamsNext, S!Call
<1>9. CASE FaultInCopy
  <2>1. reader \in live /\ reader \in Pids
    BY <1>9 DEF FaultInCopy, StreamsInv, FdInv, FdTypeOK
  <2> QED
    BY <1>9, <2>1, KillRefines DEF FaultInCopy, S!StreamsNext
<1> QED
  BY <1>1, <1>2, <1>3, <1>4, <1>5, <1>6, <1>7, <1>8, <1>9 DEF FdNext, CopyBlock, fdVars

\* On a well-formed image, of any size, open(), read(), write(), close() and the
\* end of a process treat every descriptor as a stream of its own (syscalls.c,
\* fs.c).
THEOREM DescriptorsAreStreams ==
    ASSUME WellFormed
    PROVE  FdSpec => ImplementsStreams
<1>1. StreamsInv /\ [FdNext]_fdVars => StreamsInv'
  BY StreamsNextInv
<1>2. StreamsInv /\ [FdNext]_fdVars => [S!StreamsNext]_(S!streamVars)
  BY NextRefines
<1> QED
  BY <1>1, <1>2, StreamsInitInv, InitRefines, PTL DEF FdSpec, ImplementsStreams, S!StreamsSpec

\* On every image without numbers out of range an open descriptor can be used,
\* and no descriptor stays open behind its process.
THEOREM DescriptorsAlwaysSound ==
    ASSUME WellFormed
    PROVE  FdSpec => []DescriptorsSound
<1>1. StreamsInv /\ [FdNext]_fdVars => StreamsInv'
  BY StreamsNextInv
<1>2. StreamsInv => DescriptorsSound
  BY DEF StreamsInv
<1> QED
  BY <1>1, <1>2, StreamsInitInv, PTL DEF FdSpec
=============================================================================
