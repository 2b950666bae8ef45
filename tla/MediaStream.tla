----------------------------- MODULE MediaStream -----------------------------
(***************************************************************************)
(* The life of one media_stream: creation by the session, keys, calls of   *)
(* its user, failures that tear it down.  The calls of a stream come from  *)
(* one thread.  A dereference of an object that free_resources has         *)
(* destroyed gives the result "null", after which nothing is said.         *)
(*                                                                         *)
(* Configuration values are small numbers; the header sizes, AuthTag,      *)
(* DefaultMtu and Limits stand for the byte counts and limits of the code. *)
(***************************************************************************)
EXTENDS Integers

CONSTANTS
  Kinds,       \* the sets of flags streams are created with
  Settings,    \* the flags and values that configure_ctx is called with
  Callbacks, None,
  Ipv4Header, Ipv6Header,   \* IP, UDP and RTP header of a packet
  AuthTag, DefaultMtu,
  Limits       \* the largest value of the flags that have one

StreamFlags == {"SRTP", "KMNGMNT_USER", "ZRTP", "AUTHENTICATE_RTP", "RECEIVE_ONLY"}
FpsFlags == {"FPS_NUMERATOR", "FPS_DENOMINATOR"}
PaceFlags == {"PACE_FRAG_NUMERATOR", "PACE_FRAG_DENOMINATOR"}
SocketFlags == {"UDP_SND_BUF_SIZE", "UDP_RCV_BUF_SIZE", "MULTICAST_TTL"}
RtpFlags == {"PKT_MAX_DELAY", "DYN_PAYLOAD_TYPE", "CLOCK_RATE", "MTU_SIZE"}
OtherFlags == {"RING_BUFFER_SIZE", "SESSION_BANDWIDTH", "POLL_TIMEOUT", "SSRC", "REMOTE_SSRC"}
ConfigFlags == FpsFlags \cup PaceFlags \cup SocketFlags \cup RtpFlags \cup OtherFlags

Positive == SocketFlags \cup RtpFlags \cup (OtherFlags \ {"POLL_TIMEOUT"})
Limited == {"DYN_PAYLOAD_TYPE", "CLOCK_RATE", "MTU_SIZE", "SSRC", "REMOTE_SSRC", "MULTICAST_TTL"}

ASSUME KindsAssumption == Kinds \subseteq SUBSET StreamFlags
ASSUME ConfigAssumption == Settings \subseteq STRING \X Int /\ Limits \in [Limited -> Nat]
ASSUME CallbackAssumption == None \notin Callbacks
ASSUME SizesAssumption ==
  /\ {Ipv4Header, Ipv6Header, AuthTag, DefaultMtu} \subseteq Nat
  /\ Ipv4Header <= Ipv6Header /\ Ipv6Header + AuthTag < DefaultMtu

VARIABLES
  rce_flags,
  known_format,   \* is the payload format one that create_media knows?
  ipv6,           \* ipv6_: is the remote address one of IPv6?
  addressed,      \* is there a remote address, or no remote port?
  phase,          \* new, user (the session has handed it over), gone
  initialized,
  resources,      \* socket_, rtp_, srtp_, ...: there or destroyed
  media,          \* media_ and its frame queue, or NoMedia
  keyed,          \* the SRTP contexts have keys
  running,        \* the reception flow has been started
  payload_size,   \* of rtp_
  conf,           \* the members for frame rate and pace
  ret,            \* what the last call returned
  told,           \* history: an init, start_zrtp or add_srtp_ctx has failed
  mtu             \* history: the MTU that was accepted last, 0 if none

fixed == <<rce_flags, known_format, ipv6, addressed>>
partVars == <<initialized, resources, media, keyed, running, payload_size>>
vars == <<fixed, phase, partVars, conf, ret, told, mtu>>

NoMedia == [fps |-> <<>>, pace |-> <<>>, capture |-> None]
UserKeys == {"SRTP", "KMNGMNT_USER"} \subseteq rce_flags
Authenticated == "AUTHENTICATE_RTP" \in rce_flags

-----------------------------------------------------------------------------
(* Parts of the calls *)

\* A call returns.  The user of a stream knows that it can be torn down when a
\* call that starts it has returned an error.
CallReturns(call, value) ==
  /\ ret' = [call |-> call, value |-> value]
  /\ told' = (told \/ (call \in {"init", "start_zrtp", "add_srtp_ctx"}
                        /\ value \notin {"OK", "null"}))

\* Mutant: media_ is left alone, too.
FreeResources_KeepsMedia ==
  /\ resources' = FALSE
  /\ UNCHANGED <<initialized, media, keyed, running, payload_size>>

\* free_resources; initialized_ and the reception flow are left alone.
FreeResources ==
  /\ resources' = FALSE
  /\ media' = NoMedia
  /\ UNCHANGED <<initialized, keyed, running, payload_size>>

\* Mutant: the media object keeps its own defaults.
NewMedia_Defaults == [fps |-> <<30, 1>>, pace |-> <<8, 10>>, capture |-> None]

\* create_media gives the new media object the frame rate and pace of the stream.
NewMedia == [fps |-> <<conf.FPS_NUMERATOR, conf.FPS_DENOMINATOR>>,
             pace |-> <<conf.PACE_FRAG_NUMERATOR, conf.PACE_FRAG_DENOMINATOR>>,
             capture |-> None]

\* What a packet carries besides its payload.
HeaderOnWire == (IF ipv6 THEN Ipv6Header ELSE Ipv4Header) + (IF Authenticated THEN AuthTag ELSE 0)

\* start_components, to the end: the reception flow may fail to start.  Only
\* with authentication does it set the payload size.
StartComponents(call) ==
  /\ initialized' = TRUE
  /\ resources' = TRUE
  /\ media' = NewMedia
  /\ payload_size' =
       CASE ~Authenticated        -> payload_size
         [] Authenticated /\ ipv6  -> DefaultMtu - Ipv6Header - AuthTag
         [] Authenticated /\ ~ipv6 -> DefaultMtu - Ipv4Header - AuthTag
  /\ \/ running' = TRUE /\ CallReturns(call, "OK")
     \/ UNCHANGED running /\ CallReturns(call, "GENERIC_ERROR")

-----------------------------------------------------------------------------
(* Creation: init, or init_auto_zrtp *)

Untouched == UNCHANGED <<fixed, conf, mtu>>

\* The socket cannot be set up, or there is no media for the format.
InitFails ==
  /\ phase = "new"
  /\ phase' = "gone"
  /\ FreeResources
  /\ \/ CallReturns("init", "GENERIC_ERROR")
     \/ /\ ~known_format /\ "KMNGMNT_USER" \notin rce_flags
        /\ CallReturns("init", "MEMORY_ERROR")
  /\ Untouched

\* Mutant: the stream counts as initialised.
InitWaitsForKeys_Initialized ==
  /\ phase = "new"
  /\ "KMNGMNT_USER" \in rce_flags
  /\ phase' = "user"
  /\ initialized' = TRUE
  /\ resources' = TRUE
  /\ CallReturns("init", "OK")
  /\ UNCHANGED <<media, keyed, running, payload_size>>
  /\ Untouched

\* With user keys the stream waits for add_srtp_ctx.
InitWaitsForKeys ==
  /\ phase = "new"
  /\ "KMNGMNT_USER" \in rce_flags
  /\ phase' = "user"
  /\ resources' = TRUE
  /\ CallReturns("init", "OK")
  /\ UNCHANGED <<initialized, media, keyed, running, payload_size>>
  /\ Untouched

\* Mutant: user keys are not waited for.
InitStarts_Always ==
  /\ phase = "new"
  /\ known_format
  /\ StartComponents("init")
  /\ phase' = IF ret'.value = "OK" THEN "user" ELSE "gone"
  /\ UNCHANGED keyed
  /\ Untouched

\* A stream that the session could not initialise is not handed over.
InitStarts ==
  /\ phase = "new"
  /\ "KMNGMNT_USER" \notin rce_flags
  /\ known_format
  /\ StartComponents("init")
  /\ phase' = IF ret'.value = "OK" THEN "user" ELSE "gone"
  /\ UNCHANGED keyed
  /\ Untouched

\* start_zrtp, by the session or the user: without ZRTP, or when a step of
\* the negotiation fails or times out, everything is freed.
StartZrtp ==
  /\ phase = "user"
  /\ ret.value # "null"
  /\ \/ /\ "ZRTP" \in rce_flags /\ resources
        /\ keyed' = TRUE
        /\ CallReturns("start_zrtp", "OK")
        /\ UNCHANGED <<initialized, resources, media, running, payload_size>>
     \/ /\ "ZRTP" \in rce_flags
        /\ FreeResources
        /\ CallReturns("start_zrtp", "TIMEOUT")
     \/ /\ "ZRTP" \notin rce_flags
        /\ FreeResources
        /\ CallReturns("start_zrtp", "GENERIC_ERROR")
     \/ /\ "ZRTP" \in rce_flags /\ ~resources
        /\ CallReturns("start_zrtp", "null")
        /\ UNCHANGED partVars
  /\ UNCHANGED phase
  /\ Untouched

-----------------------------------------------------------------------------
(* Calls of the user *)

Call == phase = "user" /\ ret.value # "null" /\ UNCHANGED <<phase, fixed>>

AddSrtpCtxFails(value) ==
  /\ Call
  /\ \/ value = "INVALID_VALUE" /\ UNCHANGED partVars   \* key or salt missing
     \/ value = "NOT_SUPPORTED" /\ ~UserKeys /\ FreeResources
     \/ value = "null" /\ UserKeys /\ ~resources /\ UNCHANGED partVars
     \/ value = "GENERIC_ERROR" /\ UserKeys /\ resources /\ FreeResources
     \/ /\ value = "MEMORY_ERROR" /\ UserKeys /\ resources /\ ~known_format
        /\ keyed' = TRUE /\ resources' = FALSE /\ media' = NoMedia
        /\ UNCHANGED <<initialized, running, payload_size>>
  /\ CallReturns("add_srtp_ctx", value)
  /\ UNCHANGED <<conf, mtu>>

\* The keys are set, and the components are started (again).
AddSrtpCtx ==
  /\ Call
  /\ UserKeys /\ resources /\ known_format
  /\ keyed' = TRUE
  /\ StartComponents("add_srtp_ctx")
  /\ UNCHANGED <<conf, mtu>>

\* check_push_preconditions; the frame itself is FrameQueue's business.
PushPreconditions ==
  IF ~initialized THEN "NOT_INITIALIZED"
  ELSE IF ~addressed THEN "INVALID_VALUE"
  ELSE IF "RECEIVE_ONLY" \in rce_flags \/ media = NoMedia THEN "GENERIC_ERROR"
  ELSE "OK"

PushFrame ==
  /\ Call
  /\ CallReturns("push_frame", PushPreconditions)
  /\ UNCHANGED <<partVars, conf, mtu>>

\* set_packet_capture and, for None, clear_packet_capture: nothing happens
\* while there is no media object.
SetPacketCapture(cb) ==
  /\ Call
  /\ media' = IF media = NoMedia THEN NoMedia ELSE [media EXCEPT !.capture = cb]
  /\ CallReturns("set_packet_capture", "OK")
  /\ UNCHANGED <<initialized, resources, keyed, running, payload_size, conf, mtu>>

\* send_raw_rtp_packet asks for initialized_ only.
SendRawRtpPacket ==
  /\ Call
  /\ CallReturns("send_raw_rtp_packet",
             IF ~initialized THEN "NOT_INITIALIZED" ELSE IF resources THEN "OK" ELSE "null")
  /\ UNCHANGED <<partVars, conf, mtu>>

\* The header that configure_ctx subtracts, whatever the family of the address.
Header == Ipv4Header + IF Authenticated THEN AuthTag ELSE 0

\* Does configure_ctx refuse flag or value?
Invalid(flag, v) ==
  \/ flag \notin ConfigFlags
  \/ flag \in Positive /\ v <= 0
  \/ flag \in Limited /\ v > Limits[flag]
  \/ flag = "MTU_SIZE" /\ v <= Header

\* Does the flag concern an object that is not there?
Dereferences(flag, v) ==
  /\ ~Invalid(flag, v)
  /\ \/ flag \in SocketFlags \cup RtpFlags /\ ~resources
     \/ flag \in FpsFlags \cup PaceFlags /\ media = NoMedia

\* set_fps and set_pace pass the pair of both members on.
ConfiguredMedia(flag, c) ==
  CASE flag \in FpsFlags  -> [media EXCEPT !.fps = <<c.FPS_NUMERATOR, c.FPS_DENOMINATOR>>]
    [] flag \in PaceFlags -> [media EXCEPT !.pace = <<c.PACE_FRAG_NUMERATOR,
                                                     c.PACE_FRAG_DENOMINATOR>>]
    [] OTHER             -> media

\* Mutant: the header is not subtracted.
ConfigurePayload_NoHeader(flag, v) ==
  IF flag = "MTU_SIZE" /\ ~Invalid(flag, v)
  THEN payload_size' = v /\ mtu' = v
  ELSE UNCHANGED <<payload_size, mtu>>

\* RCC_MTU_SIZE sets what is left for the payload.
ConfigurePayload(flag, v) ==
  IF flag = "MTU_SIZE" /\ ~Invalid(flag, v)
  THEN payload_size' = v - Header /\ mtu' = v
  ELSE UNCHANGED <<payload_size, mtu>>

ConfigureCtxRefused(flag, v) ==
  /\ Call
  /\ \/ ~initialized /\ CallReturns("configure_ctx", "NOT_INITIALIZED")
     \/ initialized /\ Dereferences(flag, v) /\ CallReturns("configure_ctx", "null")
  /\ UNCHANGED <<partVars, conf, mtu>>

ConfigureCtx(flag, v) ==
  /\ Call
  /\ initialized
  /\ ~Dereferences(flag, v)
  /\ conf' = IF flag \in FpsFlags \cup PaceFlags THEN [conf EXCEPT ![flag] = v] ELSE conf
  /\ media' = ConfiguredMedia(flag, conf')
  /\ ConfigurePayload(flag, v)
  /\ \/ CallReturns("configure_ctx", IF Invalid(flag, v) THEN "INVALID_VALUE" ELSE "OK")
     \/ /\ flag \in SocketFlags /\ ~Invalid(flag, v)   \* setsockopt fails
        /\ CallReturns("configure_ctx", "GENERIC_ERROR")
  /\ UNCHANGED <<initialized, resources, keyed, running>>

\* get_configuration_value of an initialised stream, for the flags whose values
\* are kept here.
ConfigurationValue(flag) == IF flag = "MTU_SIZE" THEN payload_size ELSE conf[flag]

Destroy ==
  /\ phase = "user" /\ ret.value # "null"
  /\ phase' = "gone"
  /\ FreeResources
  /\ CallReturns("destroy", "OK")
  /\ Untouched

-----------------------------------------------------------------------------
Init ==
  /\ rce_flags \in Kinds
  /\ known_format \in BOOLEAN /\ ipv6 \in BOOLEAN /\ addressed \in BOOLEAN
  /\ phase = "new"
  /\ initialized = FALSE /\ resources = FALSE /\ media = NoMedia
  /\ keyed = FALSE /\ running = FALSE
  /\ payload_size = DefaultMtu - (IF ipv6 THEN Ipv6Header ELSE Ipv4Header)
  /\ conf = [f \in FpsFlags \cup PaceFlags |->
       CASE f = "FPS_NUMERATOR" -> 30
         [] f = "FPS_DENOMINATOR" -> 1
         [] f = "PACE_FRAG_NUMERATOR" -> 8
         [] f = "PACE_FRAG_DENOMINATOR" -> 10]
  /\ ret = [call |-> "new", value |-> "OK"]
  /\ told = FALSE
  /\ mtu = 0

Create == InitFails \/ InitWaitsForKeys \/ InitStarts

Next ==
  \/ Create \/ StartZrtp \/ AddSrtpCtx
  \/ \E e \in {"INVALID_VALUE", "NOT_SUPPORTED", "GENERIC_ERROR", "MEMORY_ERROR", "null"} :
        AddSrtpCtxFails(e)
  \/ PushFrame \/ SendRawRtpPacket \/ Destroy
  \/ \E cb \in Callbacks \cup {None} : SetPacketCapture(cb)
  \/ \E s \in Settings : ConfigureCtxRefused(s[1], s[2]) \/ ConfigureCtx(s[1], s[2])

Spec == Init /\ [][Next]_vars
-----------------------------------------------------------------------------
(* Properties *)

\* The variables stay in their types; a media object lives only with the
\* other resources, which hold its socket, and a reception flow is started
\* only when the stream counts as initialised.
TypeOK ==
  /\ rce_flags \in Kinds /\ {known_format, ipv6, addressed} \subseteq BOOLEAN
  /\ phase \in {"new", "user", "gone"}
  /\ {initialized, resources, keyed, running, told} \subseteq BOOLEAN
  /\ payload_size \in Int /\ mtu \in Nat
  /\ \A f \in DOMAIN conf : conf[f] \in Int
  /\ media # NoMedia => resources /\ media.capture \in Callbacks \cup {None}
  /\ running => initialized

\* "the media stream is not started until SRTP key has been added and all
\* calls to push_frame() will fail" (media_stream.hh:105): whatever else is
\* called before.
KeysBeforeFrames ==
  "KMNGMNT_USER" \in rce_flags /\ ~keyed =>
    ~running /\ ret # [call |-> "push_frame", value |-> "OK"]

\* A call uses an object that is not there only after a call that starts the
\* stream - its creation, start_zrtp or add_srtp_ctx - has returned an error.
NullOnlyAfterError == ret.value = "null" => told

\* The media object always works with the frame rate and pace that the stream
\* reports, also when keys added again have made a new one.
MediaHasConfig ==
  media # NoMedia =>
    /\ media.fps = <<ConfigurationValue("FPS_NUMERATOR"),
                     ConfigurationValue("FPS_DENOMINATOR")>>
    /\ media.pace = <<ConfigurationValue("PACE_FRAG_NUMERATOR"),
                      ConfigurationValue("PACE_FRAG_DENOMINATOR")>>

\* "a maximum value for the Ethernet frame size" (util.hh:329): header, tag
\* and payload of a packet fit the MTU a stream has.
PacketsFit(limit) == payload_size + HeaderOnWire <= limit

\* Packets fit the default MTU, and then the one that was accepted last; but
\* on IPv6 they exceed it by what the header of IPv6 is larger.  Excepted is
\* an authenticated stream whose user adds keys again: it is back at the
\* default.
PacketsFitMtuUnlessRekeyed ==
  media # NoMedia /\ ~(UserKeys /\ Authenticated) =>
    PacketsFit(CASE mtu = 0          -> DefaultMtu
                 [] mtu # 0 /\ ~ipv6 -> mtu
                 [] mtu # 0 /\ ipv6  -> mtu + (Ipv6Header - Ipv4Header))
=============================================================================
