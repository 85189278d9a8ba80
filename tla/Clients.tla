------------------------------- MODULE Clients -------------------------------
(***************************************************************************)
(* The older loop, the clients of the loops, the video path, the settings  *)
(* file and the image conversions, side by side.  What one of them uses of *)
(* another is in its own module.  Here is what each of them promises; the  *)
(* model checker and the proofs speak of these definitions.                *)
(***************************************************************************)
EXTENDS Integers, Sequences

CONSTANTS NULL, NoFd,
          EvFd, EvOwner,                              \* of Ev
          DummyFd, Service,                           \* of Dummy1
          Char, Blank, LF, Commands, Quit, Cap, LineCap, ReadMax, MaxInput,       \* of Cli
          Conn, BatchMax,                             \* of Ev3
          Fd, Msg, MsgLen, MaxSent,                   \* of Btrfcomm
          ClientMtus, Writes,                         \* of Blegatt
          Index,                                      \* of V4l2: the buffers' indexes
          Buf, MaxNal, MaxFrames,                     \* of Rtsp
          Trees, Tags, NoHeader,                      \* of Settings
          BayerFrames, Rg10Frames                     \* of Bayer, of Rg10

VARIABLES ev_ctx, ev_handle, calling,
          d_step, d_ctx, d_fd, d_ev, d_live, peer, waiting, d_failed, pair,
          line_fb, up, l_quit, typed, run,
          step, ending, quit, mem, fds, watch, ptr, batch, broken, raced,
          r_live, r_state, r_fd, open, r_handle, r_event, hci_up, scan, sent,
          live, g_state, listen_fd, conn, handle, event, adv_wanted, adv_on, adv, peers,
          mtu, cccd, value_len, hci_failed, missed, reply, disc,
          v_state, fd, ev, drv, on, cb, missing, half, unstopped,
          queued, filled, frameOf, frames, source, awaiting, reading, handler, buf,
          stale, nalQueue, last, lost,
          header, body, saving, tag, pos, saved, loaded,
          img, frame

eVars == <<ev_ctx, ev_handle, calling>>
dVars == <<d_step, d_ctx, d_fd, d_ev, d_live, peer, waiting, d_failed, pair>>
lVars == <<line_fb, up, l_quit, typed, run>>
cVars == <<step, ending, quit, mem, fds, watch, ptr, batch, broken, raced>>
rVars == <<r_live, r_state, r_fd, open, r_handle, r_event, hci_up, scan, sent>>
gVars == <<live, g_state, listen_fd, conn, handle, event, adv_wanted, adv_on, adv, peers,
           mtu, cccd, value_len, hci_failed, missed, reply, disc>>
vVars == <<v_state, fd, ev, drv, on, cb, missing, half, unstopped>>
sVars == <<queued, filled, frameOf, frames, source, awaiting, reading, handler, buf,
           stale, nalQueue, last, lost>>
kVars == <<header, body, saving, tag, pos, saved, loaded>>
yVars == <<img>>
qVars == <<frame>>

E == INSTANCE Ev WITH ctx <- ev_ctx, handle <- ev_handle, Fd <- EvFd, Owner <- EvOwner
D == INSTANCE Dummy1 WITH
  step <- d_step, ctx <- d_ctx, fd <- d_fd, ev <- d_ev, live <- d_live, failed <- d_failed,
  Fd <- DummyFd, Owner <- Service
L == INSTANCE Cli WITH quit <- l_quit
C == INSTANCE Ev3
R == INSTANCE Btrfcomm WITH
  live <- r_live, state <- r_state, fd <- r_fd, handle <- r_handle, event <- r_event
G == INSTANCE Blegatt WITH state <- g_state
V == INSTANCE V4l2 WITH state <- v_state, lost <- missing, Buf <- Index
S == INSTANCE Rtsp
K == INSTANCE Settings
Y == INSTANCE Bayer WITH Frames <- BayerFrames
Q == INSTANCE Rg10 WITH Frames <- Rg10Frames
-----------------------------------------------------------------------------
(* ev.c: the handle a client holds is its own registration and the only one *)
(* it has, and the kernel watches exactly what is registered, although      *)
(* records are recycled before the callbacks run.                           *)
HandleExact == E!HandleExact /\ E!WatchesWaiting

(* dummy1: every service that is up stays registered once, though each      *)
(* registration serves one event only, and nothing freed is registered; a   *)
(* listener or timer is without one only after the loop refused it one.     *)
OnePerService == D!TypeOK /\ D!OnePerService

(* cli.cpp: however the input is cut into reads, every line typed is run    *)
(* once and in order.                                                       *)
LinesOnce == L!TypeOK /\ L!LinesOnce

(* tester_ev3: no callback and no destroy gets freed memory, but for a pipe *)
(* that broke; the end of main leaves nothing but the Wi-Fi manager.        *)
ExitClean == C!TypeOK /\ C!ExitClean

(* btrfcomm.cpp: the session's state tells the truth about its socket and   *)
(* its handle, after every command, callback and failure.                   *)
SessionExact == R!TypeOK /\ R!SessionExact

(* btrfcomm.cpp: the peer of a connection gets whole texts.                 *)
WholeTexts == R!WholeTexts

(* blegatt.cpp: a server that says it advertises does, or a peer is coming, *)
(* or one came and went before it was accepted; an idle one has let go of   *)
(* everything.                                                              *)
ServerExact == G!ServerExact

(* blegatt.cpp: replies fit the MTU, and a discovery that goes on from      *)
(* reply to reply finds every attribute.                                    *)
RepliesComplete == G!TypeOK /\ G!RepliesComplete

(* v4l2.cpp: the service's state, its registration, the stream and the      *)
(* driver's buffers agree; a start or stop that fails half-way leaves       *)
(* buffers queued, and then no later start succeeds.                        *)
CaptureExact == V!TypeOK /\ V!CaptureExact

(* tester_v4l2rtsp2: a client that waits for a frame is never forgotten and *)
(* no buffer leaks.                                                         *)
NoStall == S!NoStall

(* tester_v4l2rtsp2: units leave in order, and a frame is the newest there  *)
(* was, unless the driver refused to hand it out.                           *)
FrameOrder == S!FrameOrder

(* settings.cpp: what a load returns is the tree saved last, under a tag    *)
(* and version the caller takes, or an error, also when the program died in *)
(* the middle of a save; a failing load leaves no records of another tag.   *)
LoadTrue == K!LoadTrue

(* The image conversions: the versions of the full-size one agree, and v6   *)
(* of the scaling one writes what v5 writes.                                *)
VersionsAgree == Y!VersionsAgree /\ Q!V6SameAsV5
=============================================================================
