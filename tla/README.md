# Verification of hectormusicbot

TLA+ models of TgMusicBot (hectormusicbot), a Telegram bot that plays songs in
the video chats of groups: what the bot keeps, what its handlers do to it when
they run at the same time, what TLC checks about that and what TLAPS proves.
All paths below are relative to the repository.

- `tlc -config <run>.cfg <module>` repeats a run. The module is MCPlayback for
  `concurrent`, `queue_limit`, `serial` and `returns`, MCConnect for `connect`
  and `unjoined_play`, MCStore for `store` and `assistant_lost`, MCGate for
  `gate`, MCChat for `chat`, MCTasks for `tasks`, Membership for `leaves_active`.
- `tlapm <module>.tla` repeats the proofs of PlaybackProofs, ConnectProofs,
  StoreProofs, GateProofs, PlaylistProofs, BroadcastProofs, TaskProofs or
  ChatProofs.
- `PROJECT.json` lists components, runs, the lines every definition models,
  the mutants each property must catch, findings, hazards and theorems.

## 1. The system

The bot is one Go process with a bot account, and a user account ("assistant")
per session string that joins calls. Telegram updates and ntgcalls callbacks
each start a goroutine; nothing serialises those of one chat, and only single
method calls on the shared maps are protected by a mutex.

| Component | Source (`src/...`) | State | Operations | What makes it correct |
|---|---|---|---|---|
| Chat queue | `core/cache/chat_cache.go` | per chat: active flag, slice of track pointers | AddSong, SetActive, ClearChat, RemoveTrack, RemoveCurrentSong, Set/GetLoopCount, getters | FIFO; nothing twice, nothing comes back; bounded |
| Voice-call controller | `vc/calls.go`, `vc/helpers.go` | assistant per chat, the bot client | PlayNext, playSong, PlayMedia, Stop, Seek, Speed, OnStreamEnd | the head of the queue is on the air; no song dropped unheard; PlayNext terminates |
| Command handlers | `handlers/play.go`, `skip.go`, `stop.go`, `loop.go`, `remove.go`, `seek.go`, `speed.go`, `callbacks.go` | none of their own | one per command and button | limits; decisions still valid when acted on |
| Chat events | `handlers/watcher.go`, `participant.go` | membership status cache | video chat started/ended, join, leave, ban, promote | queue, stream and cache agree with the chat |
| Group-call client | `vc/ubot/*.go` | waitConnect channels, input group calls, participants, presentations, pending connections | connectCall, Play, Stop, update handlers | one connection per chat, every waiter released, caches not staler than the last update |
| Private calls | `vc/ubot/connect_call.go`, `get_p2p_configs.go`, `handle_updates.go` | P2P configuration, WaitData channel | request, accept, confirm, discard | key exchange completes or times out, no blocked handler, nothing left for the next call to trip over |
| ntgcalls binding | `vc/ntgcalls/*.go` | futures, callbacks | cgo calls | one answer per future |
| Assistant membership | `vc/userbot.go`, `vc/leave_all.go` | status and invite-link caches | joinAssistant, joinUb, LeaveAll | joined when Play needs it; active chats are not left |
| Settings store | `core/db/*.go`, `core/cache/cache.go` | MongoDB documents, TTL caches | getters and setters per field | cache and database agree; no lost update |
| Playlists | `core/db/playlist.go`, `handlers/playlist.go` | playlist documents | create, delete, add, remove, list | limit of ten; order kept |
| Permissions | `handlers/filters.go`, `auth.go`, `admins.go`, `core/cache/admin_cache.go` | admin lists with TTL | adminMode, playMode, reload | only the allowed may act, also when the fetch fails |
| Broadcast | `handlers/broadcast.go` | two atomic flags | broadcast, cancel | one at a time; a cancel stops it |
| RTMP streams | `handlers/setrmtp.go` | stream per chat | stream, stopStream, waiter goroutine | one ffmpeg per chat; a waiter ends only its own |
| Downloader | `core/dl/*.go` | files on disk | search, info, download, retries | a file with a proper name is whole |
| Pure helpers | `core/cache/helpers.go`, `vc/helpers.go`, `vc/calls.go` | none | duration text, video scaling, tempo chain | agree with their definition at the borders |
| Other commands, start-up, thumbnails | `handlers/*.go`, `main.go`, `config`, `lang`, `core/thumbnail.go` | configuration | replies, menus | not modelled: I/O and layout |

**Interaction.** A command handler passes a permission filter, reads the queue
and changes it, and calls the controller; the controller asks the assistant's
group-call client to play. When a stream ends, ntgcalls calls back, ubot starts
a goroutine and PlayNext runs there. Video-chat and membership updates clear
the queue from the side. Settings and permissions are read through caches by
all of them.

**Hard behaviours.** A decision taken before a download of minutes; two
PlayNext at once; the end of a queue meeting a new /play; /stop meeting a song
that is just starting; a failing message, download or call in the middle of a
tail of calls; a connection that answers after its 15 s; caches that hold a
failure, a part of a document or an older one; updates of one chat handled out
of order. `PROJECT.json` lists each
hazard at its line, with the properties that cover it.

## 2. The modules

| Module | Models |
|---|---|
| `ChatCache` | one chat's entry of the play queue; each method a function from entry to entry |
| `SongQueue` | abstract: what a play queue promises whoever uses it |
| `Playback` | the goroutines of one chat: commands, callbacks and events over ChatCache, the call as on the air or not |
| `PlaybackProperties` | what is expected of Playback, and its refinement mapping to SongQueue |
| `PlaybackProofs` | TLAPS: the queue bound; Playback implements SongQueue, /remove spares the head; with one command at a time the head of the queue is on the air and no song is dropped unheard |
| `ConnectCall` | an assistant gets into the video chat of a group and out again (vc/ubot), and what is expected of that |
| `ConnectProofs` | TLAPS: all safety properties of ConnectCall |
| `ChatStore` | the settings of one chat in MongoDB and in the TTL cache, the choice of its assistant, and what is expected of them |
| `StoreProofs` | TLAPS: the cache tells the truth as far as the mutex is made for it |
| `AdminGate` | the filters that let users through, the cached list of a chat's administrators, /auth, /reload and the settings |
| `GateProofs` | TLAPS: all properties of AdminGate |
| `Playlists` | the playlists of several users in MongoDB and the commands on them |
| `PlaylistProofs` | TLAPS: all properties of Playlists |
| `Membership` | the assistant's membership of a chat, its cached status, the updates about it, joining and LeaveAll |
| `CallSources` | participants, videos and mutes of a group call: updates, updateSources, Stop |
| `PrivateCall` | calls of one user with the assistant, their key exchange and the channel it goes through |
| `Broadcast` | /broadcast with its workers and channels, /cancelbroadcast |
| `BroadcastProofs` | TLAPS: the safety properties of Broadcast |
| `RtmpStreams` | one chat's RTMP stream, its ffmpeg processes and their goroutines |
| `Downloads` | songs of YouTube become files: API, DownloadFile, yt-dlp |
| `MCPlayback`, `MCConnect`, `MCStore`, `MCGate` | the instances for TLC; one `.cfg` per run |
| `MCChat` | an instance of Playlists, Membership and CallSources |
| `MCTasks` | an instance of Broadcast, RtmpStreams, PrivateCall and Downloads |
| `TaskProofs` | TLAPS: the safety properties of RtmpStreams, PrivateCall and Downloads; a run of MCTasks is one of each part |
| `ChatProofs` | TLAPS: the properties of Membership and CallSources; a run of MCChat is one of each part |

`MCChat` and `MCTasks` hold modules that share no variable. `part` is chosen at
the start and says which of them moves, so TLC adds their state spaces up
instead of multiplying them: their properties are about one module each.
`PartsCorrect` in TaskProofs and ChatProofs proves that nothing is lost by this:
a run of the instance is a run of every part's own specification.

### Playback and the code

`chat` is the chat's entry in `ChatCache` (with `NoEntry` for a missing key),
`loop[t]` and `t \in ready` are the fields `Loop` and `FilePath` of a
`CachedTrack`, `playing` is what the assistant streams. `fresh` are the track
objects no request has created yet; `tried` is a history variable (songs the
bot has set about playing). A member of `Handlers` is a goroutine; `pc`, `cur`,
`batch`, `num`, `wasActive` are its program counter and the locals of its Go
functions: the current song, the tracks a request still has to queue, the loop
count or queue number it read, and `isActive` of handleMultipleTracks.

All calls from handlers into the controller and inside it are tail calls as far
as shared state is concerned, so no stack is needed. A step is what a goroutine
does between two accesses to shared state: one ChatCache method is one step and
two are two steps, because other goroutines run between them. The exceptions
are reads that are repeated with the same meaning (`IsActive` and then
`GetPlayingTrack` at the start of a command: a non-empty queue is always
active), which are one step.

| Code | Actions |
|---|---|
| handlePlay, handleTextSearch / handleUrl / handleMedia, handleSingleTrack | Play, Search, Gate, Enqueue, Download, Activate, Add, PlayMedia |
| handlePlay, handleMultipleTracks | PlayMany, Snapshot, QueueTrack (per track), BatchDone |
| PlayNext, handleNoSong | ReadLoop, Decrement, Repeat, Upcoming, Advance, Finish |
| playSong, downloadAndPrepareSong | Announce, Prepare |
| PlayMedia, Stop | PlayMedia, Stop, HangUp |
| /skip, /stop, /seek and /speed, /loop, /remove, buttons | Skip, StopCommand, Replay, LoopCommand + SetLoop, RemoveCommand + Remove |
| OnStreamEnd | StreamEnd (video ends are ignored by the code) |
| video chat started or ended, assistant left or banned, bot left or banned | ClearEvent + Clear, BotLeaves |

Faults are constants: a message that cannot be sent, no assistant, a failed
download, a failed join or call. Each is a disjunct where the code has an error
path. Not represented: texts and languages, permissions (checked before the
handlers run), thumbnails, ffmpeg parameters, how the assistant connects
(PlayMedia's join and call.Play are one step that succeeds or fails).
Telegram and ntgcalls are external: the end of a video chat discards the call
and with it the stream.

### ConnectCall and the code

ConnectCall opens up the single step PlayMedia takes in Playback for
`call.Play`. `waitConnect`, `cached` (inputGroupCalls) and `pending`
(pendingConnections) are the chat's entries in the maps of ubot's Context; a
missing entry (`Missing`) and one that says "closed" (`None`) differ in
`cached`. `buffer` is what each channel of connectCall holds: a channel can be
made again once nothing refers to it. `call` and `mode` are the call as the
ntgcalls binding shows it (Calls, GetConnectionMode), `open` and `joined` what
Telegram says. Both are external: ntgcalls may refuse or replace a call that
exists, may keep or forget one that broke, and reports in goroutines that
arrive in any order, also after the call they are about is gone.

| Code | Actions |
|---|---|
| Play | Play, PlayAgain, Resource; then JoinPresentation, Forget, StaleParticipants, UpdateSources |
| connectCall (groups) | MakeChannel, CreateCall, SetSources, JoinGroupCall, Connect, ConnectionMode, Pend, ReadChannel, Receive, Timeout, Abort, Undo |
| getInputGroupCall | LookUp, Fetch, Store |
| Stop | Stop, StopLookUp, LeaveGroupCall |
| UpdateGroupCall | Opened; Discarded, DiscardedStop |
| UpdateGroupCallParticipants, assistant unmuted | Unmuted (and connectCall) |
| OnConnectionChange | NoticeRead, NoticeSend |

Every access to a map of the Context is a step and every call to Telegram or
ntgcalls is one, since others run in between. The screen share is left out:
no media description of the bot has a screen, so `presentations` stays empty.
Participants, their videos and mutes are in CallSources.

### ChatStore and the code

`doc` is the chat's document, `entry` the map in its cache entry: often only a
part of the document, which no reader can tell. Only a map that MongoDB gave has
an "_id"; `whole` says that it has, and what such a map does not list is not in
the document either. An entry past its 20 minutes is
`None`, as for Cache.Get. `Stored` is what earlier runs may have left in MongoDB. A goroutine is in one method at a time; `task[h]` is
the method with its arguments, `held[h]` the map getChat or the merge gave it.
The getters differ only in the field they pick, so one task stands for them;
all setters are updateChatField. Each access to MongoDB or to the cache is a step.

| Code | Actions |
|---|---|
| getChat (in getters, AddChat, getClientName, AddAuthUser, RemoveAuthUser) | Read, Find, Fill; Got is what the caller makes of it |
| updateChatField, getClientName's SetAssistant | Write, Lock, Merge, Store |
| AddAuthUser, RemoveAuthUser | Write, Lock, Read / Find / Fill, Store, or Panic on a nil map |
| AddChat | Upsert after getChat |
| GetAllChats | List, Blank |
| ClearAllAssistants | Choose, Unset, Delete |
| expiry; end of the process | Expire; Restart |

MongoDB is external: single updates are atomic, any may be refused ("error") or
be done although the 5 seconds of the context pass ("answer"). ClearAllAssistants
does not look at the error that ends its cursor and skips documents it cannot
decode, so its list may lack the chat; and an error of UpdateMany, done or not,
ends it before any entry is deleted.

### AdminGate and the code

The chat's administrators change; `admins[r]` is who they were at revision `r`,
and `entry` is the revision that the cache holds, 0 for an empty list: looking
for the bot goes through GetUserAdmin, which caches an empty list when the fetch
fails. `job[h]` is what a goroutine handles: a command or button behind
adminMode or adminModeCB ("admin"), one behind playMode ("play"), a button of
the settings, /reload, the bot's promotion or demotion.

| Code | Actions |
|---|---|
| adminMode, adminModeCB | Call, Look, Fetch, Put, Negate (with BotGot), Mode, Member |
| playMode | the same for the bot, Mode, then Look and Fetch again (UserGot), Member for authorised users |
| GetAdmins, GetUserAdmin | Look, Fetch, Put, Negate; Got is what the caller makes of it |
| /auth, /unauth | adminMode, then Authorise |
| settings buttons | Look, Fetch, Put (SettingGot), Set |
| /reload; bot promoted; bot demoted; expiry | Reload, Clear, Fetch, Put; Fetch, Put; Clear; Expire |

### Playlists and the code

`playlists[i]` is the document with the i-th id ever given, or `Gone`. Each
access to MongoDB is a step; a handler keeps in `want` what it was asked and
what it has found.

| Code | Actions |
|---|---|
| /createplaylist, play_add_to_list | Call; List, CreateListed or PickListed, Insert |
| /deleteplaylist | Fetch, DeleteFetched, Delete |
| /addtoplaylist | Fetch, AddFetched, Check, Push |
| /removefromplaylist | Fetch, RemoveFetched, Pull |
| /playlistinfo, /myplaylists | Fetch, InfoFetched; List, MineListed |

`Without` is what $pull does: all entries of that track go, the others keep
their order.

### Membership and the code

`where` is the assistant's status as Telegram has it, `statusCache` the entry
of the cache, `active` ChatCache's flag. Every change of `where` sends the bot
an update, handled by a goroutine of its own (`updates`). Telegram tells of a
ban in two ways, which getStatusFromParticipant tells apart: "banned" for a
participant who is taken for gone, "kicked" for one who is banned; both occur.

| Code | Actions |
|---|---|
| handleParticipant and the handlers below it | Update (handleJoin, handleLeave, ... are Joins, Leaves, Bans, Unbans, Promotes; Ends and Notes are what they do), Cache |
| /play in a chat that is active: IsActive, then AddSong; a song that fails between AddSong and the join | Request, Enqueue |
| PlayMedia, joinAssistant, checkUserStats | Play, Decide, Check, Fetch, Store, Unban, Return |
| joinUb | Link, Join, Member |
| LeaveAll | Dialogs, Chats, Leave |
| Stop; two hours pass | Ended; Expire |

### CallSources and the code

`callParticipants`, `callSources`, `mutedByAdmin` are the call's entries in the
Context's maps, `incoming` the videos ntgcalls was told to receive, `call` what
Telegram says. An update carries some participants.

| Code | Actions |
|---|---|
| UpdateGroupCallParticipants | Apply (Noted), Video, Oneself (Unmuted) or Reconnect, Tell |
| Play: connectCall, GetParticipants, updateSources | Join or NotConnected; Participants, Sources, Visit, VisitVideo, Add |
| a stream's connectCall | Reconnected or NotConnected |
| Stop | Stop, StopBinding, Leave |
| GroupCallDiscarded | End (Telegram's part), Forget, EndStop |

connectCall is one step here; its order and its overlaps are in ConnectCall.
What matters for the videos is that a new call in ntgcalls receives none
(`Joined`), and which ends of a call leave `callSources` as it is: only Stop
deletes it. GroupCallDiscarded and the error paths of connectCall end
ntgcalls' call alone. What was noted when the next call began is `earlier`.

The map `callSources[chat]` is read anew after each Add, so Stop in between
makes the code dereference nil: `crashed`. A panic ends the process; the model
stops there.

`clean` is a history variable: ntgcalls was told of every video and Telegram of
every mute, no join was refused while ntgcalls kept the call, no handlers
overlapped each other or the end of the call, and no change was missed while an update of the same participant was on its way
(`Outdated`). The last needs a long run: an update is sent, the assistant leaves
before it is handled, the participant changes, the assistant joins again and
asks for the participants, and then the old update is handled. The attempt to
prove `SourcesInStep` led to it.

### PrivateCall and the code

`calls` are the calls Telegram knows, with what each side has done. Each
update of a call is handled by a goroutine (`handler`), and an incoming call
starts a `player` (OnIncomingCall and then connectCall). `configs` are the P2P
configurations made so far, each with its channel; `p2pConfigs` is the map's
entry. A send waits in `sends` until somebody receives.

| Code | Actions |
|---|---|
| PhoneCallRequested | Requested, RequestedConfig |
| PhoneCallAccepted, PhoneCallObj | Deliver, Told |
| PhoneCallDiscarded | Discarded, Cleanup |
| OnIncomingCall, Play | Prepare, Play |
| connectCall (users) | Config, Request, Create, Use, AcceptOrCall, Call or Accept, Await, Receive or TimeOut, Confirm, Finish |
| the user's side (Telegram) | Dial, Answer, Confirmed, HangUp |

### Broadcast, RtmpStreams and Downloads and the code

| Code | Actions |
|---|---|
| broadcastHandler | Load, Start, Parse, Reset, Targets, Put, Sent, Report, Deferred |
| its workers | Take, Forward; workers are alike and counted, and so are targets |
| cancelBroadcastHandler | Cancel |
| setRtmpHandler, streamHandler | SetUrl; Stream, Exists, Media, Start, Register |
| the goroutines of a stream | Feed; Wait, WaiterTakes, WaiterKills |
| stopStreamHandler, stopStream | StopStream, StopTakes, StopKills |
| DownloadSong, ApiData.GetTrack | DownloadSong, GetTrack |
| FetchFromCustomYTAPI, DownloadWithCustomAPI | DownloadWithCustomAPI |
| DownloadFile, writeToFile | Stat, Create, CopyBlock, CopyEnds, CopyFails, Rename |
| downloadWithYtDlp; end of the process | YtDlp; Restart |

In RtmpStreams `entry` is the chat's process in the map `streams`. In Downloads
`file` and `temp` are the inodes under a name and under the name with ".part",
and `data` the blocks an inode holds: creating a file that exists empties it,
and renaming moves what the name stands for by then.

### Constants and bounds

`MaxQueue` is 10 in the code; the runs use 1 or 2, so that requests are
refused after two or three songs. `MaxBatch` (longest playlist) is a bound of
the model only. `MaxLoop` is 10 in the code; 1 or 2 shows repeats. Two
goroutines show every race between two; three or four tracks let the queue be
full, over-full and used up. Tracks are never reused, which also bounds the runs.
The theorems hold for all values.

For ConnectCall: two goroutines in Play, Stop or a reconnect, one notification
on its way (`Slots`), three channels (one in the map, one per waiting
goroutine or notification) and one group call that is opened and closed
(`MaxCalls`); with a second group call a single goroutine shows nothing new.

For ChatStore: two goroutines, the assistant and one other setting with two
values each, one of them the name of an assistant that no longer runs, two users
to authorise, any number of getters and
two calls that write or blank the cache (`MaxWrites`): enough for two writers
of different fields or users on a warm cache, a fill racing a write, and a
write on a cold or blank entry. The run starts with no document or one of each
kind (`Leftovers`): every assistant, the other setting there or not, no list of
users, a list of one or of both; the others differ from these only in which
user and which value it is. One user is not enough: what AddAuthUser makes of a
partial map shows with a second one only.

For the other modules: two goroutines, which shows every race between two
(three in Downloads: a third one makes a new .part file while the second is
about to rename its own). `Limit` of Playlists is 10 in the code and 1 in the
run, with three lists, so that both goroutines can overrun it. AdminGate has two
members beside the bot and one change of administrators, mode or authorised
users, from every set of administrators and every mode. Membership has two changes of the assistant's status, CallSources five
changes of the assistant and one other participant with a camera: as many as it
takes to handle an update of an earlier stay in the call, and to play again
after a group call has ended. At most two of its
updates are under way at once (`MaxPending`): one that is handled and one that
waits. With three the run takes twice as long and finds nothing else, since an
update that overtakes another already spoils `clean` with two. A broadcast has up to four
targets for two workers and a channel of two places (20 and 20 in the code), so
that the channel fills up and a cancel finds some targets waiting. RtmpStreams
has two processes, the second of which can meet the first one's waiter;
PrivateCall three calls, two of the user's and one of the assistant's; a
download's file has two blocks, so that it can be cut in the middle.

## 3. What the runs show

| Run | Instance | Shows |
|---|---|---|
| `concurrent` | 2 goroutines, 3 tracks (one a file that is too long), failing downloads and calls, an ended video chat, a removed bot | `TypeOK`; `KeepsSongQueue`: Playback implements SongQueue - songs leave in the order of AddSong unless removed, never twice, never again - in spite of every race; `RemoveSparesHead`: /remove's 1-based number never hits the song on the air, also when the queue shrank |
| `queue_limit` | 2 goroutines, 4 interchangeable tracks | `QueueBound`: the limit of /play is overrun, since it is tested long before AddSong, by at most one longest request per goroutine |
| `serial` | 1 goroutine, 4 tracks, failing downloads and calls, all events | `HeadOnAir`: between commands the head of the queue is what plays; `NoUntriedDropped`: PlayNext drops only what has been on; `SongsLeave`: every queued song leaves, provided songs end |
| `returns` | 2 goroutines, all faults | `HandlersReturn`: the calls between PlayNext and playSong after failures come to an end |
| `connect` | 2 goroutines, updates and notifications in any order, failing requests | `TypeOK`; `NoWaiterLeft`: no entry of waitConnect outlives connectCall; `UpMeansJoined`: without overlaps no stream is up in a group call that the assistant is not in, unless the news of its end are on their way; `PlaySparesCall`: without overlaps Play ends no call that is up |
| `store` | 2 goroutines, refused and lost updates, expiry, restarts | `TypeOK`; `CacheTellsTruth`: what the cache has is the database's, and what a whole map lacks the database lacks, however many writers of different fields and users overlap; `Settles`: once nothing is written any more, stale and partial entries give way to the database's settings for good; `MethodsReturn`: no method hangs, also after a panic with the mutex held |
| `gate` | 2 goroutines, 2 users, failing fetches | `AdminsPass`: who has always been an administrator is let through, however the mode and the cache change, unless the list was lost or an error cached meanwhile; `StrangersRefused`: who never was passes only where the mode or /auth allowed it while the filter was at it, and never to the settings; `ReloadLasts`: a list older than the last /reload is not cached again, unless it was on its way |
| `chat`, playlists | 2 goroutines, 2 owners, refused and lost answers | `LimitOvershoot`: the limit is overrun by at most one list per further goroutine; `NoTwins`: no song is in a list twice unless two additions overlapped or a test failed; `DeletedStaysGone`, `OwnersOnly`: nothing brings a deleted list back or changes another one's list, though the handlers look some steps before |
| `chat`, membership | 1 chat, 2 goroutines, updates in any order | `CacheInStep`: when all is quiet the cached status tells rightly whether the assistant is in the chat; `ActiveMeansIn`: then an active chat has its assistant, unless a song was queued just after the others had ended, or failed before the join. Neither holds after a restriction, a failure or updates that overtake each other |
| `chat`, videos | 1 other participant, the group call ends or fails and begins again | `SourcesInStep`: the videos noted and those of ntgcalls are those there are, but for videos noted in an earlier call that ended without Stop; `MutedInStep`: the chat is listed as muted just if the assistant is; both unless updates, joining, Stop and the end of the call overlapped, and the first unless an update was outdated |
| `tasks`, broadcasts | 2 broadcasts, cancels | `OneAtATime`: one broadcast at a time; `CancelStops`: a cancel lets each worker send what it has in hand, no more; `Accounted`: every target is reported once; `BroadcastsEnd` |
| `tasks`, streams | 2 goroutines, 2 processes, ffmpeg may end | `RunningIsListed`: a running process is in the map, where /stopstream finds it; `NothingLeft`: no entry and no goroutine outlives its process |
| `tasks`, calls | 2 calls of a user, one of the assistant, updates in any order | `AnswersOnly`: the assistant answers and does not call back; `NothingStays`: calls that are over leave nothing that makes the next one fail; `PlayersEnd`: connectCall returns whatever the other side does |
| `tasks`, downloads | 3 goroutines, failures and restarts | `WholeFiles`: a file under its proper name is whole, or is being written, or one of several overlapping downloads of it stopped half-way |
| `leaves_active` | 1 goroutine | finding: /leaveall leaves the chats it should spare |
| `assistant_lost` | 1 goroutine, no fault | finding: an empty or partial entry makes getClientName overwrite the chat's assistant |
| `unjoined_play` | 1 goroutine | finding: after a failed join the next Play reports success, though the call was never connected |

`serial` states what the code achieves when commands do not overlap: its
properties fail with two goroutines, and `HeadOnAir` and
`SongsLeave` fail for one goroutine when "message" or "assistant" is added to
its `Faults`, because playSong then returns with the chat active and silent.
In the runs with two goroutines commands overlap freely. `concurrent` leaves out the faults
that end a goroutine before it touches the queue ("message", "assistant") to
stay small; `returns` has all four. Deadlock is checked in every run but `chat`
and `tasks`: there a panic or a used-up bound stops a part, and what must still
happen in `tasks` is said by its liveness properties.

The composite runs also check one type invariant of the chosen part (`TypesOK`).

`UpMeansJoined` and `PlaySparesCall` are conditional on `alone`, a history
variable that says that no two goroutines of Handlers have overlapped so far:
with overlaps one goroutine's error path stops the call another is setting up,
and a Stop leaves the group call that a later Play has joined. Updates,
notifications and the fates of calls interleave freely in any case.

`CacheTellsTruth` is conditional on `clean`, a history variable: no answer of
MongoDB was lost, to /clearass no part of its list either, and no *rivals* have overlapped - a getter with a writer (its
fill is outside of the mutex and may bring the older document back),
ClearAllAssistants with either, two writers of one field or one user. There the
cache can be wrong until the entry expires, and `Settles`, which has no such
condition, says that this is all. It is also silent on what a map lacks that is
a part of the document only; that is what `assistant_lost` is about.

The history variables of the later modules do the same: `clean`, `apart`,
`orderly`, `raced`, `complete` and `spoilt` say that no two handlers overlapped
in a way that the code does not guard against, and the properties say what holds
then. The comment of each property names the overlap and what comes of it.
`CONSTRAINT Followed` of `chat` leaves out what happens to videos after an
overlap, since nothing is claimed of it, and holds the updates under way to
`MaxPending`.

**What the code does otherwise.** Met while modelling, without a run of its own:

- Two PlayNext at once (two /skip, or /skip at the end of a song) read the same
  upcoming song and remove two: a song is dropped unheard (`vc/calls.go:268`).
  `serial` with two Handlers shows it.
- When the first track of a playlist is too long, the next one is dropped
  unheard, because only `i == 0` is given Loop = 1 (`handlers/play.go:333`).
  `serial` with its first track in TooLong shows it.
- /stop while PlayMedia is under way leaves a stream in a chat that is not
  active any more (`vc/calls.go:341`).
- AddAuthUser adds the user to the cached map, even when that is empty
  (GetAllChats) or has one field only (a cold updateChatField): the cache then
  has a list of the new user alone, and GetAuthUsers, "a list of all authorized
  users for a chat" (`core/db/mongo.go:394`), leaves out the others until the
  entry expires (`core/db/mongo.go:369`). The attempt to prove an earlier
  `CacheTellsTruth`, which claimed the lists to be equal, led to this.
- /clearass whose UpdateMany is done and its answer lost returns before it
  deletes an entry, and one whose list of chats is cut short
  (`core/db/mongo.go:259`, `273`) deletes too few: getClientName then goes on
  with assistants the database no longer has, until the entries expire. No
  other goroutine is needed.
- A song is queued where the chat was active a moment ago
  (`handlers/play.go:251`, `315`): if handleLeave or handleBan clears the chat
  before AddSong (`core/cache/chat_cache.go:40`), that song makes it active
  again, with nothing on the air and no assistant in the chat. A song whose
  message cannot be sent does the same (`vc/calls.go:295`).
- The end of a group call and the failures of connectCall end the call in
  ntgcalls and leave `callSources` (`vc/ubot/handle_updates.go:256`,
  `vc/ubot/connect_call.go:177`). In the next call updateSources
  takes the videos noted then for known (`vc/ubot/update_sources.go:14`, `22`):
  ntgcalls is not told of them, and those that are gone stay noted. Nothing
  needs to overlap; `earlier` in `SourcesInStep` is the exception for it.
- A file that is too long is queued when something plays (`handlers/play.go:166`).
- ApiData.GetTrack leaves TrackInfo.TC empty (`core/dl/api.go:95`), and this is
  the video id with which the configured API and yt-dlp are asked afterwards
  (`core/dl/youtube.go:160`, `168`): both requests are for
  "https://www.youtube.com/watch?v=" whatever the song.
- An update of participants that is handled when the assistant has left the
  call and joined it again is taken for news, though the participants have been
  asked for since: callParticipants and callSources go back to what it says
  (`vc/ubot/handle_updates.go:150`).
- A file in the downloads directory is taken for the one wanted if it has the
  same name: the server's name for a download, the display name for a file of
  Telegram (`core/dl/http_client.go:185`, `vc/helpers.go:184`).

**Fairness.** `FairSpec` of Playback has weak fairness for the steps of goroutines that have
started: the Go scheduler runs them, no lock is held across a call, and the
calls they wait for have timeouts (5 s for the database, 2 and 3 minutes for
downloads) - but for one: ApiData.GetTrack asks its server with neither a
context nor a timeout (`core/dl/api.go:70`), and the model assumes that this
server answers or hangs up. No command need ever be sent. `EndingSpec` adds strong fairness of
StreamEnd: a song that plays comes to an end even if /seek starts it again and
again (strong, because other goroutines take the callback's place in the
model). Both liveness properties exempt users who send /loop for ever: each
/loop gives a song that cannot be downloaded, or never ends, new rounds.
In ChatStore `FairSpec` has weak fairness for the steps of each method, which
end with the 5 s of their context at the latest, and for Expire: time passes.
In `tasks` the steps of goroutines that have started are weakly fair: handlers,
workers, feeders and waiters. For a worker this assumes that Telegram does not
ask for ever to wait (the code sleeps and retries); for connectCall it includes
the timeout. That ffmpeg ends by itself is not assumed, nor that users answer,
hang up or send another command. Downloads has no liveness property.

## 4. What is proved

The theorems hold for all values of the constants that satisfy the named
assumptions: `NoneAssumption` and `ConstantsAssumption` (Playback),
`ConnectAssumption`, `StoreAssumption`, `GateAssumption`, `PlaylistAssumption`,
`BroadcastAssumption`, `TasksAssumption`, `ChatAssumption`. These say that bounds are numbers,
that sets of goroutines, of which some are counted, are finite, that faults are
among those the model has, and that `None`, `Missing` and `Gone` are none of the
values they stand in for. TLC evaluates each of them in the runs of its module.

Each invariant is proved through an inductive one, which TLC has checked as an
invariant on an instance of at least the size of the run. Where a property
has a condition on overlapping handlers, the theorem is about the same property.

| Theorem | States | Inductive invariant |
|---|---|---|
| PlaybackProofs `TypeCorrect` | `TypeOK` | itself |
| PlaybackProofs `QueueBoundCorrect` | `QueueBound` | itself, with `TypeOK` |
| PlaybackProofs `KeepsSongQueueCorrect` | `KeepsSongQueue` | `QueueInv` |
| PlaybackProofs `RemoveSparesHeadCorrect` | `RemoveSparesHead` | `QueueInv` |
| PlaybackProofs `HeadOnAirCorrect`, `NoUntriedDroppedCorrect` | `HeadOnAir`, `NoUntriedDropped`, for one goroutine | `Serial`, `Trying` |
| ConnectProofs `NoWaiterLeftCorrect` | `NoWaiterLeft` | `WaiterInv` |
| ConnectProofs `UpMeansJoinedCorrect`, `PlaySparesCallCorrect` | `UpMeansJoined`, `PlaySparesCall` | `CallInv` |
| ConnectProofs `TypeCorrect` | `TypeOK` | itself |
| StoreProofs `TypeCorrect`, `CacheTellsTruthCorrect` | `TypeOK`, `CacheTellsTruth` | `StoreInv` |
| GateProofs `TypeCorrect`, `ReloadLastsCorrect`, `AdminsPassCorrect`, `StrangersRefusedCorrect` | `TypeOK`, `ReloadLasts`, `AdminsPass`, `StrangersRefused` | `GateInv` |
| PlaylistProofs `LimitOvershootCorrect`, `NoTwinsCorrect`, `DeletedStaysGoneCorrect`, `OwnersOnlyCorrect` | `LimitOvershoot`, `NoTwins`, `DeletedStaysGone`, `OwnersOnly` | `PlaylistInv` |
| BroadcastProofs `OneAtATimeCorrect`, `CancelStopsCorrect`, `AccountedCorrect` | `OneAtATime`, `CancelStops`, `Accounted` | `BroadcastInv` |
| TaskProofs `RunningIsListedCorrect` | `RunningIsListed` | `StreamInv` |
| TaskProofs `AnswersOnlyCorrect`, `NothingStaysCorrect` | `AnswersOnly`, `NothingStays` | `CallInv` |
| TaskProofs `WholeFilesCorrect` | `WholeFiles` | `FileInv` |
| TaskProofs `PartsCorrect`, `TypesCorrect` | a run of MCTasks is one of each part; `TypesOK` | those of the parts |
| ChatProofs `CacheInStepCorrect`, `ActiveMeansInCorrect` | `CacheInStep`, `ActiveMeansIn` | `MemberInv` |
| ChatProofs `SourcesInStepCorrect`, `MutedInStepCorrect` | `SourcesInStep`, `MutedInStep` | `CallInv` |
| ChatProofs `PartsCorrect`, `TypesCorrect` | a run of MCChat is one of each part; `TypesOK` | those of the parts |

Why the invariants are needed, and along which argument they hold:

- **Playback.** `TypeOK` is inductive as it stands; beside types it says what a
  goroutine's locals hold where it uses them, which Head(batch[h]), cur[h] and
  num[h] - 1 in the actions need. For `QueueBound` the queue's length alone is
  not inductive, since a request admitted earlier may still add its songs: it
  counts a slot for each song a running request may still add. Admitting a
  request happens while the queue is within MaxQueue, all slots together are at
  most Cardinality(Handlers) * MaxBatch, and adding a song gives up a slot.
- **The queue** (`QueueInv`). The refinement takes for SongQueue's `past` the songs
  that are at none of three places: with those nobody requested, in the
  request of a goroutine, in the queue. A song that a step of Playback adds must
  never have been in `past`, so `QueueInv` says that a song is at one of these
  places only, and once. Each step of Playback is then an Enqueue, Leave,
  LeaveAll or Refuse of SongQueue, or a stutter: for that, the ChatCache
  operations are taken one by one. A goroutine at Remove has a number other
  than 0, with which RemoveTrack leaves the head, whatever the queue is by then.
- **One command at a time** (`Serial`, `Trying`). By label: the chat is active just
  if something is queued, but for the moments of Add, Stop and Clear; until it
  comes to PlayNext a command leaves the head of the queue on the air, and from
  there on it knows which song will be the head. The head has been tried, but
  for the first song of a playlist in a silent chat, which goes through
  PlayNext without: its Loop of 1 makes PlayNext repeat it instead of
  dropping it.
- **ConnectCall** (`WaiterInv`, `CallInv`). A step of connectCall leads to another
  one until Undo deletes the entry, whatever fails. As long as commands do not
  overlap, a goroutine knows of the call what its place says (Play has found
  none and made one, Stop has ended it), and a call that is up or will be
  without another look at Telegram has been joined.
- **ChatStore** (`StoreInv`). The lemma behind `CacheTellsTruth` is about copies:
  the cached map and each map that a goroutine has in hand differ from the document only by changes whose writers have
  written to MongoDB and not yet to the cache, because without rivals those
  writers change other fields or users and the mutex orders their stores. This
  needs to be said of the maps in hand as well as of the entry. A /clearass
  that lost an answer or a part of its list ends what is claimed (`clean`).
- **AdminGate** (`GateInv`). A list that is about to be cached is no older
  than the last forced one, unless that was overtaken (`Fresh`); a filter whose list
  was not lost keeps it from the moment it found the bot in it (`Lasting`); what a goroutine has
  found out is right for where it is, and whoever may pass without a list is on
  record (`Placed`, `Cleared`).
- **Playlists** (`PlaylistInv`). The right a handler has checked stays, since
  ids are never reused; for every user the lists there are and the inserts
  under way of goroutines that passed the test are within the limit and one per
  goroutine, a cardinality argument; a push that follows its test undisturbed
  adds a song that is not there.
- **Broadcast** (`BroadcastInv`). While a broadcast runs the flag is set and nobody
  else is past the test (`Exclusive`); each target is in one place (`Conserved`);
  the messages in hand at a cancel bound what is delivered after it.
- **RtmpStreams** (`StreamInv`). Who has which process in hand, and that nobody
  else registers the same one.
- **PrivateCall** (`CallInv`). As long as updates come in order the assistant has
  called nobody, the configuration in the map is that of the call noted last,
  and only that call has a player at work: so there is one at most, and it knows its
  channel. What it receives tells that the PhoneCall is kept. A hang-up is
  handled after the call's request and cleans up when no player is
  at work, so that a configuration stays only after a player gave up. That
  configurations are no more than the model has places for is a count: a call
  gets one from its request (`Dealt`) and one from its player (`Rung`) at most.
- **Downloads** (`FileInv`). An inode has one name, and one that is
  about to get its proper name is whole or has a last writer that will complete
  it. That there is an unused inode for every download is a pigeonhole argument
  (`UnusedThere`).

- **Membership** (`MemberInv`). Updates are handled in order, and each begins
  where the one before ended (`Chained`). Whoever takes the assistant to be in
  the chat, or not to be - the cache, a goroutine of joinAssistant, the active
  flag - is right, or the next unread update that moves the assistant will tell
  (`Right`, `Told`); an active chat without its assistant waits for the update
  of its leaving (`SongEnds`); a song that is queued adds nothing to this while
  the chat is active or the assistant there, and otherwise ends what is claimed.
- **CallSources** (`CallInv`). The last unread update of a participant tells what
  is the case (`Explained`), so that the cache is right or will be (`Known`);
  between the end of a group call and the drop of its updates there is nothing
  they would have to explain (`Ended`). The videos
  noted and those that updateSources has still to look at are those of the
  cache, but for what was noted in an earlier call (`VideosNoted`), and the
  binding has each of them, or an update in hand or updateSources is about to
  tell it, with the same exception (`BindingTold`). While
  the list of muted chats is wrong an unhandled update says so (`MuteKnown`).

The theorems of TaskProofs and ChatProofs are about each part's own
specification (`Rtmp!Spec`, `Videos!Spec`), which a run joins with others;
`PartsCorrect` carries them over.

Only model-checked:

- Liveness (`Settles`, `SongsLeave`, `HandlersReturn`, `MethodsReturn`,
  `BroadcastsEnd`, `NothingLeft`, `PlayersEnd`): TLAPS proves none under
  fairness and knows nothing of ENABLED.
- The three findings: a run shows the violation, and there is nothing to prove.

## 5. Plan

Done: the modules of section 2 with their runs, and the theorems of section 4.
Left, in this order:

1. An abstract register per field for ChatStore, with the time that stale
   values may last, and a proof that ChatStore implements it.
2. The user and bot documents, which are kept in the same way.

## 6. Not modelled

- Documents of users and of the bot itself in MongoDB: cached and written like
  those of chats, by methods of the same form.
- The screen share in vc/ubot: no media description of the bot has a screen.
- Pause, resume, mute and the played time: handed on to ntgcalls, no state.
- The ntgcalls binding: cgo marshalling, seen through its calls and callbacks.
- Searches (core/dl/youtube_search.go): they succeed or fail in Playback; how a
  page is taken apart is data. Nothing calls sendRequest with its retries,
  processSpotify, downloadWithApi and ApiData.downloadTrack, since
  NewDownloaderWrapper always takes YouTube.
- How a file of Telegram is written: by the external library.
- Duration text, video scaling, the tempo chain: functions of a number, without
  state, for which a table of inputs shows as much.
- Image drawing, keyboards, message texts, configuration, string sessions and
  start-up: I/O and data without behaviour worth a model.
