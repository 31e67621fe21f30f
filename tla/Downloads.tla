----------------------------- MODULE Downloads -----------------------------
(***************************************************************************)
(* Songs of YouTube become files in the downloads directory (DownloadSong  *)
(* in src/vc/helpers.go, src/core/dl).                                     *)
(*                                                                         *)
(* A goroutine asks a fixed API about the song, then a configured one for  *)
(* a file, which DownloadFile writes to "<name>.part" and renames; when    *)
(* any of the latter fails, or no such API is configured (then no file is  *)
(* written here), it runs yt-dlp.  The name of the file comes from the     *)
(* server.  The API leaves TrackInfo.TC empty, so the video id both later  *)
(* requests carry is empty for every song: a model of them needs no songs. *)
(*                                                                         *)
(* A file is an inode and the set of its blocks that have been written;    *)
(* creating a file that exists empties it under the feet of those who have *)
(* it open, and renaming moves whatever the name stands for at that time.  *)
(* A block before an open file's position that another one has emptied     *)
(* reads as zeros.                                                         *)
(***************************************************************************)
EXTENDS Integers, FiniteSets

CONSTANTS
    None,         \* no file
    Downloaders,  \* goroutines
    Names,        \* names that servers give their files
    Blocks,       \* length of every file
    MaxDownloads, \* bound of the model: calls of DownloadSong
    DownloadFaults \* "error": a server, the disk or the network fails;
                   \* "restart": the process ends and starts again

VARIABLES
    step,      \* where a goroutine is
    name,      \* fileName of its DownloadFile
    open,      \* the inode it has open
    position,  \* the blocks it has written
    file,      \* inode under a name
    temp,      \* inode under a name with ".part"
    data,      \* blocks an inode holds
    spoilt,    \* history: names whose file somebody stopped writing to
    begun      \* calls of DownloadSong so far

vars == <<step, name, open, position, file, temp, data, spoilt, begun>>
disk == <<file, temp, data, spoilt>>

(* As many as can be referred to at once.                                  *)
Inodes == 1..(2 * Cardinality(Names) + Cardinality(Downloaders))

Writers(i) == {h \in Downloaders : open[h] = i}
Unused == {i \in Inodes : /\ Writers(i) = {}
                          /\ \A n \in Names : file[n] # i /\ temp[n] # i}

Init ==
    /\ step = [h \in Downloaders |-> "idle"]
    /\ name = [h \in Downloaders |-> None]
    /\ open = [h \in Downloaders |-> None]
    /\ position = [h \in Downloaders |-> 0]
    /\ file = [n \in Names |-> None]
    /\ temp = [n \in Names |-> None]
    /\ data = [i \in Inodes |-> {}]
    /\ spoilt = {}
    /\ begun = 0

-----------------------------------------------------------------------------
At(h, s) == step[h] = s
Goto(h, s) == step' = [step EXCEPT ![h] = s]
Fails == "error" \in DownloadFaults

(* DownloadSong.  Direct links are played as they are and leave no file.   *)
DownloadSong(h) ==
    /\ At(h, "idle") /\ begun < MaxDownloads
    /\ begun' = begun + 1
    /\ Goto(h, "info")
    /\ UNCHANGED <<name, open, position, disk>>

(* ApiData.GetTrack.  Without it there is no song.  It has no timeout: how *)
(* long it takes is not said.                                              *)
GetTrack(h) ==
    /\ At(h, "info")
    /\ \/ Goto(h, "fetch")
       \/ Fails /\ Goto(h, "idle")
    /\ UNCHANGED <<name, open, position, disk, begun>>

(* FetchFromCustomYTAPI and the request of DownloadFile: the name is in    *)
(* the header or the URL.  A name made up for want of one is unique.       *)
DownloadWithCustomAPI(h) ==
    /\ At(h, "fetch")
    /\ \/ /\ Goto(h, "stat")
          /\ \E n \in Names : name' = [name EXCEPT ![h] = n]
       \/ /\ Fails /\ Goto(h, "ytdlp")
          /\ UNCHANGED name
    /\ UNCHANGED <<open, position, disk, begun>>

(* overwrite is always false: a file of that name is taken as it is.       *)
Stat(h) ==
    /\ At(h, "stat")
    /\ Goto(h, IF file[name[h]] # None THEN "idle" ELSE "create")
    /\ name' = IF file[name[h]] # None THEN [name EXCEPT ![h] = None] ELSE name
    /\ UNCHANGED <<open, position, disk, begun>>

(* os.Create of the .part file.                                            *)
Create(h) ==
    /\ At(h, "create")
    /\ \/ \E i \in Inodes :
             /\ i = IF temp[name[h]] # None THEN temp[name[h]]
                    ELSE CHOOSE j \in Unused : TRUE
             /\ open' = [open EXCEPT ![h] = i]
             /\ temp' = [temp EXCEPT ![name[h]] = i]
             /\ data' = [data EXCEPT ![i] = {}]
             /\ Goto(h, "copy")
             /\ UNCHANGED name
       \/ /\ Fails /\ Goto(h, "ytdlp")
          /\ name' = [name EXCEPT ![h] = None]
          /\ UNCHANGED <<open, temp, data>>
    /\ position' = [position EXCEPT ![h] = 0]
    /\ UNCHANGED <<file, spoilt, begun>>

(* What is lost when hs stop in the middle of a copy: a .part file that no *)
(* other download is about to rename is not, the next Create empties it.   *)
Lost(hs) == {n \in Names : \E h \in hs :
                /\ At(h, "copy") /\ name[h] = n
                /\ \/ file[n] = open[h]
                   \/ \E g \in Downloaders \ hs :
                         step[g] \in {"copy", "rename"} /\ name[g] = n}

(* io.Copy: the blocks in order, up to the end or an error.                *)
CopyBlock(h) ==
    /\ At(h, "copy") /\ position[h] < Blocks
    /\ position' = [position EXCEPT ![h] = @ + 1]
    /\ data' = [data EXCEPT ![open[h]] = @ \union {position[h] + 1}]
    /\ UNCHANGED <<step, name, open, file, temp, spoilt, begun>>

CopyEnds(h) ==
    /\ At(h, "copy") /\ position[h] = Blocks
    /\ Goto(h, "rename")
    /\ open' = [open EXCEPT ![h] = None]
    /\ UNCHANGED <<name, position, disk, begun>>

(* Mutant: the error of writeToFile is not looked at.                      *)
CopyFailsUnseen(h) ==
    /\ At(h, "copy") /\ Fails
    /\ spoilt' = spoilt \union Lost({h})
    /\ Goto(h, "rename")
    /\ open' = [open EXCEPT ![h] = None]
    /\ UNCHANGED <<name, position, file, temp, data, begun>>

CopyFails(h) ==
    /\ At(h, "copy") /\ Fails
    /\ spoilt' = spoilt \union Lost({h})
    /\ Goto(h, "ytdlp")
    /\ name' = [name EXCEPT ![h] = None]
    /\ open' = [open EXCEPT ![h] = None]
    /\ UNCHANGED <<position, file, temp, data, begun>>

(* os.Rename fails when another download has renamed the .part file.       *)
Rename(h) ==
    /\ At(h, "rename")
    /\ LET n == name[h] IN
          \/ /\ temp[n] # None
             /\ file' = [file EXCEPT ![n] = temp[n]]
             /\ temp' = [temp EXCEPT ![n] = None]
             /\ Goto(h, "idle")
          \/ /\ temp[n] = None \/ Fails
             /\ Goto(h, "ytdlp")
             /\ UNCHANGED <<file, temp>>
    /\ name' = [name EXCEPT ![h] = None]
    /\ UNCHANGED <<open, position, data, spoilt, begun>>

(* downloadWithYtDlp: yt-dlp answers for its own files.                    *)
YtDlp(h) ==
    /\ At(h, "ytdlp")
    /\ Goto(h, "idle")
    /\ UNCHANGED <<name, open, position, disk, begun>>

(* The process ends; the disk stays as it is.                              *)
Restart ==
    /\ "restart" \in DownloadFaults
    /\ \E h \in Downloaders : ~At(h, "idle")
    /\ spoilt' = spoilt \union Lost(Downloaders)
    /\ step' = [h \in Downloaders |-> "idle"]
    /\ name' = [h \in Downloaders |-> None]
    /\ open' = [h \in Downloaders |-> None]
    /\ UNCHANGED <<position, file, temp, data, begun>>

Next ==
    \/ \E h \in Downloaders :
          \/ DownloadSong(h) \/ GetTrack(h) \/ DownloadWithCustomAPI(h) \/ Stat(h)
          \/ Create(h) \/ CopyBlock(h) \/ CopyEnds(h) \/ CopyFails(h)
          \/ Rename(h) \/ YtDlp(h)
    \/ Restart

Spec == Init /\ [][Next]_vars

-----------------------------------------------------------------------------
(***************************************************************************)
(* What is expected.                                                       *)
(***************************************************************************)

(* The types; a goroutine has a file open just while it copies, and a name *)
(* for it from the answer of the server to the rename.                     *)
TypeOK ==
    /\ step \in [Downloaders -> {"idle", "info", "fetch", "stat", "create", "copy", "rename", "ytdlp"}]
    /\ name \in [Downloaders -> Names \union {None}]
    /\ open \in [Downloaders -> Inodes \union {None}]
    /\ position \in [Downloaders -> 0..Blocks]
    /\ file \in [Names -> Inodes \union {None}]
    /\ temp \in [Names -> Inodes \union {None}]
    /\ data \in [Inodes -> SUBSET (1..Blocks)]
    /\ spoilt \subseteq Names
    /\ begun \in 0..MaxDownloads
    /\ \A h \in Downloaders :
          /\ At(h, "copy") <=> open[h] # None
          /\ step[h] \in {"stat", "create", "copy", "rename"} <=> name[h] # None

(* DownloadFile writes to another name and renames so that a file with a   *)
(* proper name is whole, also when requests fail or the process ends in    *)
(* between: Stat of a later download relies on it.  Downloads of one file  *)
(* at the same time share the .part file, and one may rename what another  *)
(* has just emptied; the file is then whole once they have all written it, *)
(* and stays damaged only if one of them stops before that.                *)
WholeFiles ==
    \A n \in Names :
       file[n] # None => \/ data[file[n]] = 1..Blocks
                         \/ Writers(file[n]) # {}
                         \/ n \in spoilt
=============================================================================
