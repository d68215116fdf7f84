----------------------------- MODULE FileSystem -----------------------------
(***************************************************************************)
(* The read-only file system (fs.c): a boot block that counts directory    *)
(* entries, inodes and data blocks, a flat root directory, one index block *)
(* per file and the data blocks.  The image is loaded by the boot loader   *)
(* and never written, so all of it is constant here.                       *)
(*                                                                         *)
(* Names are values compared for equality: the length test and the bounded *)
(* strncmp() of read_dentry_by_name() are equality of names of at most     *)
(* DENTRY_NAME_LEN characters, terminated or not.                          *)
(***************************************************************************)
EXTENDS Integers, Sequences

CONSTANTS
    DATA_BLOCK_SIZE,   \* bytes in a block
    DENTRY_NAME_LEN,   \* bytes of a name in a directory entry
    Names,             \* the names programs ask for
    Bytes,             \* what a byte may be
    dentries,          \* the root directory; index i of the code is i + 1 here
    n_inodes,
    n_blocks,
    inodes,            \* the size of each file and the numbers of its blocks
    data               \* the data blocks

FILE_RTC == 0
FILE_DIRECTORY == 1
FILE_REGULAR == 2

Dentry == [name : Names, type : Nat, inode : Nat]

\* The image has the shape mkfs gives it; what its numbers refer to may be out
\* of range, which the code checks.
ASSUME ImageAssumption ==
    /\ DATA_BLOCK_SIZE \in Nat \ {0}
    /\ DENTRY_NAME_LEN \in Nat \ {0}
    /\ n_inodes \in Nat
    /\ n_blocks \in Nat
    /\ dentries \in Seq(Dentry)
    /\ \A i \in 0 .. n_inodes - 1 :
            /\ inodes[i].size \in Nat
            /\ \A b \in 0 .. inodes[i].size \div DATA_BLOCK_SIZE :
                    inodes[i].block[b] \in Nat
    /\ \A b \in 0 .. n_blocks - 1 : \A k \in 0 .. DATA_BLOCK_SIZE - 1 :
            data[b][k] \in Bytes

Least(a, b) == IF a <= b THEN a ELSE b

----------------------------------------------------------------------------

\* read_dentry_by_name(fname) finds entry i: the first of that name.
read_dentry_by_name(fname, i) ==
    /\ i \in 1 .. Len(dentries)
    /\ dentries[i].name = fname
    /\ \A j \in 1 .. i - 1 : dentries[j].name # fname

\* It fails.
NoDentry(fname) == \A i \in 1 .. Len(dentries) : dentries[i].name # fname

\* read_dentry_by_index(index) succeeds.
HasDentry(index) == index < Len(dentries)

\* get_inode() and get_block() do not return NULL.
get_inode(id) == id < n_inodes
get_block(id) == id < n_blocks

\* What file_open() makes sure of before it initialises a descriptor: the inode
\* exists, and so does every full block of the file.
FileChecks(inode) ==
    /\ get_inode(inode)
    /\ \A b \in 0 .. (inodes[inode].size \div DATA_BLOCK_SIZE) - 1 :
            get_block(inodes[inode].block[b])

\* The byte at offset k of a file.
FileByte(inode, k) ==
    data[inodes[inode].block[k \div DATA_BLOCK_SIZE]][k % DATA_BLOCK_SIZE]

\* A file all of which can be read.
GoodFile(inode) ==
    /\ get_inode(inode)
    /\ \A k \in 0 .. inodes[inode].size - 1 :
            get_block(inodes[inode].block[k \div DATA_BLOCK_SIZE])

\* An image in which nothing a directory entry leads to is out of range.
WellFormed ==
    \A i \in 1 .. Len(dentries) :
        dentries[i].type = FILE_REGULAR => GoodFile(dentries[i].inode)
=============================================================================
