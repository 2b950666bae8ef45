---------------------------- MODULE StreamProofs ----------------------------
(***************************************************************************)
(* Theorems of MediaStream, for any kinds of streams, settings and sizes,  *)
(* and of ZrtpStart, for any sets of Diffie-Hellman and multistream        *)
(* streams.                                                                *)
(*                                                                         *)
(* MediaStream: what the properties say of the media object rests on how   *)
(* and when a stream can get one.  A new stream has none and its defaults  *)
(* untouched; one that waits for its user's keys is not initialised; one   *)
(* that is initialised and has its socket has a media object; and one that *)
(* has lost its socket has told its user.                                  *)
(*                                                                         *)
(* ZrtpStart: what an MSM stream may do follows from the flag it waited    *)
(* for, that flag from a DH stream that got past its negotiation, and      *)
(* exclusion from the fact that, until somebody opens a lock that is not   *)
(* his, a holder finds it closed.                                          *)
(***************************************************************************)
EXTENDS MediaStream, ZrtpStart, TLAPS

-----------------------------------------------------------------------------
(* MediaStream *)

Conf == [FpsFlags \cup PaceFlags -> Int]

MediaObject == [fps : Int \X Int, pace : Int \X Int, capture : Callbacks \cup {None}]

TypeInv ==
  /\ rce_flags \in Kinds
  /\ known_format \in BOOLEAN
  /\ ipv6 \in BOOLEAN
  /\ addressed \in BOOLEAN
  /\ phase \in {"new", "user", "gone"}
  /\ initialized \in BOOLEAN
  /\ resources \in BOOLEAN
  /\ keyed \in BOOLEAN
  /\ running \in BOOLEAN
  /\ payload_size \in Int
  /\ mtu \in Nat
  /\ conf \in Conf
  /\ told \in BOOLEAN

\* A media object is one that create_media made and configure_ctx keeps up to
\* date, and it lives with the other resources.
MediaInv ==
  media # NoMedia =>
    /\ resources
    /\ media \in MediaObject
    /\ media.fps = <<conf.FPS_NUMERATOR, conf.FPS_DENOMINATOR>>
    /\ media.pace = <<conf.PACE_FRAG_NUMERATOR, conf.PACE_FRAG_DENOMINATOR>>

\* A stream that is still being created has not been configured.
NewInv ==
  phase = "new" =>
    /\ ~initialized
    /\ media = NoMedia
    /\ payload_size = DefaultMtu - (IF ipv6 THEN Ipv6Header ELSE Ipv4Header)
    /\ mtu = 0

\* Without the keys it waits for, a stream is not initialised.
WaitsForKeys ==
  "KMNGMNT_USER" \in rce_flags /\ ~keyed =>
    ~initialized /\ media = NoMedia /\ ret # [call |-> "push_frame", value |-> "OK"]

RunningInv == running => initialized

\* An initialised stream has all its objects or none, and then its user has
\* been told.
Announced ==
  /\ initialized /\ resources => media # NoMedia
  /\ phase = "user" /\ ~resources => told
  /\ ret.value = "null" => told

\* The payload size is the default or what configure_ctx left of an MTU:
\* always without authentication, and as long as there is a media object with
\* it, unless adding keys can restore the default.
MtuInv ==
  ~Authenticated \/ (~UserKeys /\ media # NoMedia) =>
    payload_size = IF mtu = 0 THEN DefaultMtu - HeaderOnWire ELSE mtu - Header

StreamIInv ==
  /\ TypeInv
  /\ MediaInv
  /\ NewInv
  /\ WaitsForKeys
  /\ RunningInv
  /\ Announced
  /\ MtuInv

-----------------------------------------------------------------------------
\* The configuration a stream starts with is one of integers.
LEMMA InitStream == ASSUME Init PROVE StreamIInv
<1> USE SizesAssumption DEF Init
<1>1. conf \in Conf
  BY DEF Conf, FpsFlags, PaceFlags
<1>2. TypeInv
  <2>1. payload_size \in Int /\ mtu \in Nat
    OBVIOUS
  <2>2. /\ rce_flags \in Kinds
        /\ known_format \in BOOLEAN /\ ipv6 \in BOOLEAN /\ addressed \in BOOLEAN
        /\ phase = "new"
        /\ initialized = FALSE /\ resources = FALSE
        /\ keyed = FALSE /\ running = FALSE
        /\ told = FALSE
    OBVIOUS
  <2> HIDE DEF Init
  <2> QED BY <1>1, <2>1, <2>2 DEF TypeInv
<1>3. MediaInv /\ NewInv /\ WaitsForKeys /\ RunningInv
  BY DEF MediaInv, NewInv, WaitsForKeys, RunningInv
<1>4. Announced /\ MtuInv
  BY DEF Announced, MtuInv, HeaderOnWire
<1> QED BY <1>2, <1>3, <1>4 DEF StreamIInv

\* A call that at most frees the resources, starts the reception flow of no
\* stream, changes no configuration and announces what it frees preserves the
\* invariant.
Keeps ==
  /\ UNCHANGED <<fixed, initialized, running, payload_size, conf, mtu>>
  /\ phase' \in {phase, "user", "gone"}
  /\ keyed' \in BOOLEAN
  /\ keyed => keyed'
  /\ resources' \in BOOLEAN
  /\ media' \in {media, NoMedia}
  /\ media' # NoMedia => resources'
  /\ ret'.call # "push_frame"
  /\ told' \in BOOLEAN
  /\ Announced'

LEMMA KeepsPreserves == ASSUME StreamIInv, Keeps PROVE StreamIInv'
<1> USE DEF StreamIInv, Keeps, fixed
<1>1. TypeInv'
  BY DEF TypeInv
<1>2. MediaInv'
  BY DEF MediaInv
<1>3. NewInv'
  BY DEF NewInv
<1>4. WaitsForKeys' /\ RunningInv'
  BY DEF WaitsForKeys, RunningInv, TypeInv
<1>5. MtuInv'
  BY DEF MtuInv, UserKeys, Authenticated, HeaderOnWire, Header
<1> QED BY <1>1, <1>2, <1>3, <1>4, <1>5

\* What a call leaves behind of its result.
LEMMA CallTells ==
  ASSUME told \in BOOLEAN, NEW call, NEW value, CallReturns(call, value)
  PROVE  /\ ret'.call = call /\ ret'.value = value
         /\ told' \in BOOLEAN
         /\ told => told'
<1> QED BY DEF CallReturns

\* What create_media makes has the configuration of the stream.
LEMMA NewMediaObject ==
  ASSUME TypeInv
  PROVE  /\ NewMedia \in MediaObject
         /\ NewMedia # NoMedia
         /\ NewMedia.fps = <<conf.FPS_NUMERATOR, conf.FPS_DENOMINATOR>>
         /\ NewMedia.pace = <<conf.PACE_FRAG_NUMERATOR, conf.PACE_FRAG_DENOMINATOR>>
<1>1. /\ conf.FPS_NUMERATOR \in Int
      /\ conf.FPS_DENOMINATOR \in Int
      /\ conf.PACE_FRAG_NUMERATOR \in Int
      /\ conf.PACE_FRAG_DENOMINATOR \in Int
  BY DEF TypeInv, Conf, FpsFlags, PaceFlags
<1>2. <<conf.FPS_NUMERATOR, conf.FPS_DENOMINATOR>> # <<>>
  OBVIOUS
<1>3. NewMedia.fps # NoMedia.fps
  BY <1>2 DEF NewMedia, NoMedia
<1> QED BY <1>1, <1>3 DEF NewMedia, MediaObject

\* start_components gives a stream its media object: a new stream its first,
\* one with user keys perhaps another.
LEMMA StartPreserves ==
  ASSUME StreamIInv, NEW call, call # "push_frame", StartComponents(call),
         UNCHANGED <<fixed, conf, mtu>>,
         phase' \in {"user", "gone"},
         \/ /\ phase = "new"
            /\ "KMNGMNT_USER" \notin rce_flags
            /\ UNCHANGED keyed
         \/ UserKeys /\ keyed' = TRUE
  PROVE  StreamIInv'
<1> USE DEF StreamIInv, StartComponents, CallReturns, fixed
<1>0. TypeInv
  OBVIOUS
<1>1. TypeInv'
  <2>1. payload_size' \in Int
    BY SizesAssumption DEF TypeInv
  <2> QED BY <2>1 DEF TypeInv
<1>2. MediaInv'
  BY <1>0, NewMediaObject DEF MediaInv
<1>3. NewInv'
  BY DEF NewInv
<1>4. WaitsForKeys' /\ RunningInv'
  BY DEF WaitsForKeys, RunningInv, UserKeys
<1>5. Announced'
  BY <1>0, NewMediaObject DEF Announced
<1>6. MtuInv'
  <2>1. CASE ~Authenticated
    BY <2>1 DEF MtuInv, UserKeys, Authenticated, NewInv, HeaderOnWire, Header
  <2>2. CASE Authenticated /\ ~UserKeys
    <3>1. phase = "new" /\ mtu = 0
      BY <2>2 DEF NewInv, UserKeys
    <3>2. ipv6 \in BOOLEAN
      BY DEF TypeInv
    <3> QED BY <2>2, <3>1, <3>2, SizesAssumption DEF MtuInv, UserKeys, Authenticated, HeaderOnWire
  <2>3. CASE Authenticated /\ UserKeys
    BY <2>3 DEF MtuInv, UserKeys, Authenticated
  <2> QED BY <2>1, <2>2, <2>3
<1> QED BY <1>1, <1>2, <1>3, <1>4, <1>5, <1>6

\* A new callback reaches the media object there is; without one it is lost.
LEMMA SetPacketCapturePreserves ==
  ASSUME StreamIInv, NEW cb \in Callbacks \cup {None}, SetPacketCapture(cb)
  PROVE  StreamIInv'
<1> USE DEF StreamIInv, SetPacketCapture, Call, CallReturns, fixed
<1>1. TypeInv'
  BY DEF TypeInv
<1>2. MediaInv'
  BY DEF MediaInv, MediaObject
<1>3. NewInv'
  BY DEF NewInv
<1>4. WaitsForKeys' /\ RunningInv'
  BY DEF WaitsForKeys, RunningInv
<1>5. media # NoMedia => media' # NoMedia
  BY DEF MediaInv, MediaObject, NoMedia
<1>6. Announced' /\ MtuInv'
  BY <1>5 DEF Announced, MtuInv, UserKeys, Authenticated, HeaderOnWire, Header
<1> QED BY <1>1, <1>2, <1>3, <1>4, <1>5, <1>6

\* What set_fps and set_pace leave in a media object that agrees with the
\* configuration c but for the pair that flag is of.
LEMMA ConfiguredMediaObject ==
  ASSUME media \in MediaObject, NEW flag, NEW c \in Conf,
         flag \in FpsFlags \/ media.fps = <<c.FPS_NUMERATOR, c.FPS_DENOMINATOR>>,
         flag \in PaceFlags \/ media.pace = <<c.PACE_FRAG_NUMERATOR, c.PACE_FRAG_DENOMINATOR>>
  PROVE  /\ ConfiguredMedia(flag, c) \in MediaObject
         /\ ConfiguredMedia(flag, c).fps = <<c.FPS_NUMERATOR, c.FPS_DENOMINATOR>>
         /\ ConfiguredMedia(flag, c).pace = <<c.PACE_FRAG_NUMERATOR, c.PACE_FRAG_DENOMINATOR>>
<1>1. /\ c.FPS_NUMERATOR \in Int
      /\ c.FPS_DENOMINATOR \in Int
      /\ c.PACE_FRAG_NUMERATOR \in Int
      /\ c.PACE_FRAG_DENOMINATOR \in Int
  BY DEF Conf, FpsFlags, PaceFlags
<1>2. CASE flag \in FpsFlags
  BY <1>1, <1>2 DEF MediaObject, ConfiguredMedia, Conf, FpsFlags, PaceFlags
<1>3. CASE flag \in PaceFlags
  BY <1>1, <1>3 DEF MediaObject, ConfiguredMedia, Conf, FpsFlags, PaceFlags
<1>4. CASE flag \notin FpsFlags \cup PaceFlags
  BY <1>1, <1>4 DEF ConfiguredMedia
<1> QED BY <1>2, <1>3, <1>4

\* A new frame rate or pace reaches the members and the media object alike,
\* and the payload size is what the IPv4 header leaves of the new MTU.
LEMMA ConfigureCtxPreserves ==
  ASSUME StreamIInv, NEW flag, NEW v \in Int, ConfigureCtx(flag, v)
  PROVE  StreamIInv'
<1> USE DEF StreamIInv, ConfigureCtx, Call, CallReturns, fixed
<1>1. conf' \in Conf
  BY DEF Conf, TypeInv
<1>2. Header \in Nat
  BY SizesAssumption DEF Header
<1>3. /\ payload_size' \in Int
      /\ mtu' \in Nat
      /\ \/ UNCHANGED <<payload_size, mtu>>
         \/ mtu' # 0 /\ payload_size' = mtu' - Header
  BY <1>2 DEF ConfigurePayload, Invalid, TypeInv
<1>4. TypeInv'
  BY <1>1, <1>3 DEF TypeInv
<1>5. media = NoMedia => media' = NoMedia
  <2> SUFFICES ASSUME media = NoMedia PROVE ConfiguredMedia(flag, conf') = media
    OBVIOUS
  <2>1. CASE flag \in FpsFlags \cup PaceFlags
    <3>1. flag \in ConfigFlags /\ flag \notin Positive /\ flag \notin Limited /\ flag # "MTU_SIZE"
      BY <2>1 DEF ConfigFlags, FpsFlags, PaceFlags, Positive, Limited, SocketFlags, RtpFlags,
                  OtherFlags
    <3>2. Dereferences(flag, v)
      BY <2>1, <3>1 DEF Dereferences, Invalid
    <3> QED BY <3>2
  <2>2. CASE flag \notin FpsFlags \cup PaceFlags
    BY <2>2 DEF ConfiguredMedia
  <2> QED BY <2>1, <2>2
<1>6. MediaInv' /\ (media # NoMedia => media' # NoMedia)
  <2>1. CASE media = NoMedia
    BY <1>5, <2>1 DEF MediaInv
  <2>2. CASE media # NoMedia
    <3>1. PICK c : c = conf'
      OBVIOUS
    <3>2. c \in Conf /\ media' = ConfiguredMedia(flag, c)
      BY <1>1, <3>1
    <3>3. media \in MediaObject /\ resources'
      BY <2>2 DEF MediaInv
    <3>4. /\ flag \in FpsFlags \/ media.fps = <<c.FPS_NUMERATOR, c.FPS_DENOMINATOR>>
          /\ flag \in PaceFlags \/ media.pace = <<c.PACE_FRAG_NUMERATOR, c.PACE_FRAG_DENOMINATOR>>
      BY <2>2, <3>1 DEF MediaInv, TypeInv, Conf, FpsFlags, PaceFlags
    <3> HIDE DEF ConfigureCtx, StreamIInv
    <3>5. /\ media' \in MediaObject
          /\ media'.fps = <<c.FPS_NUMERATOR, c.FPS_DENOMINATOR>>
          /\ media'.pace = <<c.PACE_FRAG_NUMERATOR, c.PACE_FRAG_DENOMINATOR>>
      <4>1. /\ ConfiguredMedia(flag, c) \in MediaObject
            /\ ConfiguredMedia(flag, c).fps = <<c.FPS_NUMERATOR, c.FPS_DENOMINATOR>>
            /\ ConfiguredMedia(flag, c).pace = <<c.PACE_FRAG_NUMERATOR, c.PACE_FRAG_DENOMINATOR>>
        BY <3>2, <3>3, <3>4, ConfiguredMediaObject
      <4> QED BY <3>2, <4>1
    <3>6. media' # NoMedia
      <4>1. media'.fps # NoMedia.fps
        BY <3>5 DEF NoMedia
      <4> QED BY <4>1
    <3> QED BY <3>1, <3>3, <3>5, <3>6 DEF MediaInv
  <2> QED BY <2>1, <2>2
<1>7. NewInv' /\ WaitsForKeys' /\ RunningInv'
  BY <1>5 DEF NewInv, WaitsForKeys, RunningInv
<1>8. Announced'
  <2>1. PICK value : value # "null" /\ CallReturns("configure_ctx", value)
    OBVIOUS
  <2>2. ret'.value # "null" /\ (told => told')
    BY <2>1, CallTells DEF TypeInv
  <2> QED BY <1>6, <2>2 DEF Announced
<1>9. MtuInv'
  BY <1>3, <1>5 DEF MtuInv, UserKeys, Authenticated, HeaderOnWire, Header
<1> QED BY <1>4, <1>6, <1>7, <1>8, <1>9

\* One step per action: those that start the components, those that configure,
\* and those that keep what there is or free it.
LEMMA StreamStepPreserves == ASSUME StreamIInv, Next PROVE StreamIInv'
<1>0. /\ media # NoMedia => resources
      /\ resources \in BOOLEAN
      /\ keyed \in BOOLEAN
      /\ initialized \in BOOLEAN
      /\ told \in BOOLEAN
      /\ Announced
      /\ phase = "new" => ~initialized /\ media = NoMedia
  BY DEF StreamIInv, TypeInv, MediaInv, NewInv
<1>1. CASE InitFails
  <2>1. ret'.call = "init"
    BY <1>1 DEF InitFails, CallReturns
  <2>2. told' \in BOOLEAN /\ Announced'
    BY <1>0, <1>1 DEF InitFails, FreeResources, CallReturns, Announced
  <2>3. Keeps
    BY <1>0, <1>1, <2>1, <2>2 DEF InitFails, FreeResources, Untouched, Keeps
  <2> QED BY <2>3, KeepsPreserves
<1>2. CASE InitWaitsForKeys
  <2>1. told' \in BOOLEAN /\ Announced'
    BY <1>0, <1>2 DEF InitWaitsForKeys, CallReturns, Announced
  <2>2. Keeps
    BY <1>0, <1>2, <2>1 DEF InitWaitsForKeys, CallReturns, Untouched, Keeps
  <2> QED BY <2>2, KeepsPreserves
<1>3. CASE InitStarts
  <2>1. phase' \in {"user", "gone"}
    BY <1>3 DEF InitStarts
  <2> QED BY <1>3, <2>1, StartPreserves DEF InitStarts, Untouched
<1>4. CASE StartZrtp
  <2>1. ret'.call = "start_zrtp" /\ told' \in BOOLEAN
    BY <1>0, <1>4, CallTells DEF StartZrtp
  <2>2. UNCHANGED <<fixed, phase, initialized, running, payload_size, conf, mtu>>
    BY <1>4 DEF StartZrtp, FreeResources, Untouched, partVars
  <2>3. UNCHANGED keyed \/ keyed' = TRUE
    BY <1>4 DEF StartZrtp, FreeResources, partVars
  <2>4. \/ UNCHANGED <<resources, media>>
        \/ resources' = FALSE /\ media' = NoMedia
    BY <1>4 DEF StartZrtp, FreeResources, partVars
  <2>5. Announced'
    BY <1>0, <1>4, <2>2 DEF StartZrtp, FreeResources, partVars, CallReturns, Announced
  <2>6. Keeps
    BY <1>0, <2>1, <2>2, <2>3, <2>4, <2>5 DEF Keeps
  <2> QED BY <2>6, KeepsPreserves
<1>5. CASE AddSrtpCtx
  <2>1. phase' \in {"user", "gone"}
    BY <1>5 DEF AddSrtpCtx, Call
  <2> QED BY <1>5, <2>1, StartPreserves DEF AddSrtpCtx, Call
<1>6. ASSUME NEW e \in {"INVALID_VALUE", "NOT_SUPPORTED", "GENERIC_ERROR", "MEMORY_ERROR", "null"},
             AddSrtpCtxFails(e)
      PROVE  StreamIInv'
  <2>1. ret'.call = "add_srtp_ctx" /\ told' \in BOOLEAN
    BY <1>0, <1>6 DEF AddSrtpCtxFails, CallReturns
  <2>2. UNCHANGED <<fixed, phase, initialized, running, payload_size, conf, mtu>>
    BY <1>6 DEF AddSrtpCtxFails, FreeResources, Call, partVars
  <2>3. UNCHANGED keyed \/ keyed' = TRUE
    BY <1>6 DEF AddSrtpCtxFails, FreeResources, partVars
  <2>4. \/ UNCHANGED <<resources, media>>
        \/ resources' = FALSE /\ media' = NoMedia
    BY <1>6 DEF AddSrtpCtxFails, FreeResources, partVars
  <2>5. Announced'
    BY <1>0, <1>6, <2>2 DEF AddSrtpCtxFails, FreeResources, Call, partVars, CallReturns, Announced
  <2>6. Keeps
    BY <1>0, <2>1, <2>2, <2>3, <2>4, <2>5 DEF Keeps
  <2> QED BY <2>6, KeepsPreserves
<1>7. CASE PushFrame
  <2> USE <1>7 DEF PushFrame, Call, CallReturns, fixed, partVars, StreamIInv
  <2>1. WaitsForKeys'
    BY DEF WaitsForKeys, PushPreconditions
  <2>2. TypeInv' /\ MediaInv' /\ NewInv' /\ RunningInv'
    BY DEF TypeInv, MediaInv, NewInv, RunningInv
  <2>3. Announced'
    BY DEF Announced, PushPreconditions
  <2>4. MtuInv'
    BY DEF MtuInv, UserKeys, Authenticated, HeaderOnWire, Header
  <2> QED BY <2>1, <2>2, <2>3, <2>4
<1>8. CASE SendRawRtpPacket
  <2>1. told' \in BOOLEAN /\ Announced'
    BY <1>0, <1>8 DEF SendRawRtpPacket, Call, partVars, CallReturns, Announced
  <2>2. Keeps
    BY <1>0, <1>8, <2>1 DEF SendRawRtpPacket, Call, partVars, CallReturns, Keeps
  <2> QED BY <2>2, KeepsPreserves
<1>9. CASE Destroy
  <2>1. told' \in BOOLEAN /\ Announced'
    BY <1>0, <1>9 DEF Destroy, FreeResources, CallReturns, Announced
  <2>2. Keeps
    BY <1>0, <1>9, <2>1 DEF Destroy, FreeResources, Untouched, CallReturns, Keeps
  <2> QED BY <2>2, KeepsPreserves
<1>10. ASSUME NEW s \in Settings, ConfigureCtxRefused(s[1], s[2]) \/ ConfigureCtx(s[1], s[2])
       PROVE  StreamIInv'
  <2>1. s[2] \in Int
    BY ConfigAssumption
  <2>2. CASE ConfigureCtxRefused(s[1], s[2])
    <3>1. told' \in BOOLEAN /\ Announced'
      BY <1>0, <2>2 DEF ConfigureCtxRefused, Dereferences, Call, partVars, CallReturns, Announced
    <3>2. Keeps
      BY <1>0, <2>2, <3>1 DEF ConfigureCtxRefused, Call, partVars, CallReturns, Keeps
    <3> QED BY <3>2, KeepsPreserves
  <2> QED BY <1>10, <2>1, <2>2, ConfigureCtxPreserves
<1> QED BY <1>1, <1>2, <1>3, <1>4, <1>5, <1>6, <1>7, <1>8, <1>9, <1>10,
           SetPacketCapturePreserves DEF Next, Create

\* The strengthened invariant holds after every sequence of calls.
THEOREM StreamInductive == Spec => []StreamIInv
<1>1. Init => StreamIInv
  BY InitStream
<1>2. StreamIInv /\ [Next]_vars => StreamIInv'
  <2> SUFFICES ASSUME StreamIInv, [Next]_vars PROVE StreamIInv'
    OBVIOUS
  <2>1. CASE Next
    BY <2>1, StreamStepPreserves
  <2>2. CASE UNCHANGED vars
    BY <2>2 DEF vars, fixed, partVars, StreamIInv, TypeInv, MediaInv, NewInv, WaitsForKeys,
                RunningInv, Announced, MtuInv, UserKeys, Authenticated, HeaderOnWire, Header
  <2> QED BY <2>1, <2>2
<1> QED BY <1>1, <1>2, PTL DEF Spec

\* A media object never outlives the socket it sends on (free_resources), and
\* the reception flow runs only in an initialised stream.
THEOREM StreamTypeCorrect == Spec => []TypeOK
<1>1. StreamIInv => TypeOK
  <2> SUFFICES ASSUME StreamIInv PROVE TypeOK
    OBVIOUS
  <2>1. \A f \in DOMAIN conf : conf[f] \in Int
    BY DEF StreamIInv, TypeInv, Conf
  <2>2. media # NoMedia => resources /\ media.capture \in Callbacks \cup {None}
    BY DEF StreamIInv, MediaInv, MediaObject
  <2> QED BY <2>1, <2>2 DEF StreamIInv, TypeInv, RunningInv, TypeOK
<1> QED BY <1>1, StreamInductive, PTL

\* A stream with user-managed keys neither sends a frame nor receives before
\* it has them, whatever is called, fails or is called again (init,
\* add_srtp_ctx, start_zrtp).
THEOREM NoFramesBeforeKeys == Spec => []KeysBeforeFrames
<1>1. StreamIInv => KeysBeforeFrames
  BY DEF StreamIInv, WaitsForKeys, RunningInv, KeysBeforeFrames
<1> QED BY <1>1, StreamInductive, PTL

\* No call finds a destroyed or a missing object (socket_, rtp_, media_) unless
\* init, start_zrtp or add_srtp_ctx has returned an error to the user before.
THEOREM NullIsAnnounced == Spec => []NullOnlyAfterError
<1>1. StreamIInv => NullOnlyAfterError
  BY DEF StreamIInv, Announced, NullOnlyAfterError
<1> QED BY <1>1, StreamInductive, PTL

\* The media object works with the frame rate and pace that the stream
\* reports, through every configure_ctx and every new media object.
THEOREM ConfigurationIsKept == Spec => []MediaHasConfig
<1>1. StreamIInv => MediaHasConfig
  BY DEF StreamIInv, MediaInv, MediaHasConfig, ConfigurationValue
<1> QED BY <1>1, StreamInductive, PTL

\* Header, tag and payload of a packet fit the default MTU (start_components)
\* and then the one configure_ctx accepted last, over IPv4 exactly and over
\* IPv6 up to the difference of the two headers; an authenticated stream with
\* user-managed keys is excepted.
THEOREM MtuIsKept == Spec => []PacketsFitMtuUnlessRekeyed
<1>1. StreamIInv => PacketsFitMtuUnlessRekeyed
  <2> SUFFICES ASSUME StreamIInv, media # NoMedia, ~(UserKeys /\ Authenticated)
               PROVE  PacketsFit(CASE mtu = 0          -> DefaultMtu
                                   [] mtu # 0 /\ ~ipv6 -> mtu
                                   [] mtu # 0 /\ ipv6  -> mtu + (Ipv6Header - Ipv4Header))
    BY DEF PacketsFitMtuUnlessRekeyed
  <2>1. mtu \in Nat /\ ipv6 \in BOOLEAN
    BY DEF StreamIInv, TypeInv
  <2>2. payload_size = IF mtu = 0 THEN DefaultMtu - HeaderOnWire ELSE mtu - Header
    BY DEF StreamIInv, MtuInv
  <2>3. CASE mtu = 0
    BY <2>2, <2>3, SizesAssumption DEF PacketsFit, HeaderOnWire
  <2>4. CASE mtu # 0 /\ ipv6
    BY <2>1, <2>2, <2>4, SizesAssumption DEF PacketsFit, HeaderOnWire, Header
  <2>5. CASE mtu # 0 /\ ~ipv6
    BY <2>1, <2>2, <2>5, SizesAssumption DEF PacketsFit, HeaderOnWire, Header
  <2> QED BY <2>1, <2>3, <2>4, <2>5
<1> QED BY <1>1, StreamInductive, PTL

-----------------------------------------------------------------------------
(* ZrtpStart *)

DHNeverWaits == \A s \in DH : pc[s] \in {"negotiate", "unlock", "done"}

HasKeys(d) == pc[d] = "unlock" \/ result[d] = "OK"

WaitedForDH ==
  \A s \in MSM :
    (pc[s] \in {"wait_lock", "negotiate", "unlock"} \/ result[s] = "OK") => dh_finished

KeysExist == dh_finished => \E d \in DH : HasKeys(d)

LockOwned == locked => \E s \in Streams : HoldsLock(s)

HolderLocks == ~stray => \A s \in Streams : HoldsLock(s) => locked

OneHolder == ~stray => \A s, t \in Streams : HoldsLock(s) /\ HoldsLock(t) => s = t

ZrtpIInv ==
  /\ ZrtpTypeOK
  /\ DHNeverWaits
  /\ WaitedForDH
  /\ KeysExist
  /\ LockOwned
  /\ HolderLocks
  /\ OneHolder

-----------------------------------------------------------------------------
\* What a step that ends a start leaves: the stream is done, the others are
\* where they were, and the lock is open.
Returns(s, value) ==
  /\ pc' = [pc EXCEPT ![s] = "done"]
  /\ result' = [result EXCEPT ![s] = value]
  /\ locked' = FALSE
  /\ stray' = (stray \/ (locked /\ ~HoldsLock(s)))
  /\ UNCHANGED dh_finished

\* A step that ends a start (free_resources, or the last lines of start_zrtp)
\* preserves the invariant, provided that it does not end the start of a DH
\* stream that has announced its keys by failing it.
LEMMA ReturnsPreserve ==
  ASSUME ZrtpIInv, NEW s \in Streams, NEW value \in {"OK", "TIMEOUT", "GENERIC_ERROR"},
         Returns(s, value), pc[s] # "done",
         value = "OK" <=> pc[s] = "unlock"
  PROVE  ZrtpIInv'
<1> USE DEF ZrtpIInv, Returns
<1>1. ZrtpTypeOK'
  BY DEF ZrtpTypeOK
<1>2. DHNeverWaits'
  BY DEF DHNeverWaits, ZrtpTypeOK, Streams
<1>3. WaitedForDH'
  BY DEF WaitedForDH, ZrtpTypeOK, Streams
<1>4. KeysExist'
  <2> SUFFICES ASSUME dh_finished PROVE \E d \in DH : HasKeys(d)'
    BY DEF KeysExist
  <2>1. PICK d \in DH : HasKeys(d)
    BY DEF KeysExist
  <2>2. HasKeys(d)'
    BY <2>1 DEF HasKeys, ZrtpTypeOK, Streams
  <2> QED BY <2>2
<1>5. LockOwned'
  BY DEF LockOwned
<1>6. ASSUME ~stray' PROVE \A t \in Streams : ~HoldsLock(t)'
  <2>1. ~stray
    BY <1>6
  <2>2. ~locked \/ HoldsLock(s)
    BY <1>6
  <2> SUFFICES ASSUME NEW t \in Streams, HoldsLock(t)' PROVE FALSE
    OBVIOUS
  <2>3. t # s
    BY DEF HoldsLock, ZrtpTypeOK
  <2>4. HoldsLock(t)
    BY <2>3 DEF HoldsLock, ZrtpTypeOK
  <2>5. HoldsLock(s)
    BY <2>1, <2>2, <2>4 DEF HolderLocks
  <2> QED BY <2>1, <2>3, <2>4, <2>5 DEF OneHolder
<1>7. HolderLocks'
  BY <1>6 DEF HolderLocks
<1>8. OneHolder'
  BY <1>6 DEF OneHolder
<1> QED BY <1>1, <1>2, <1>3, <1>4, <1>5, <1>7, <1>8

-----------------------------------------------------------------------------
\* Initially no stream has the lock, and no MSM stream is past its first wait.
LEMMA ZrtpInitEstablishes == ASSUME ZrtpInit PROVE ZrtpIInv
<1> USE ModesAssumption DEF ZrtpInit, Streams
<1>1. ZrtpTypeOK
  BY DEF ZrtpTypeOK
<1>2. DHNeverWaits
  BY DEF DHNeverWaits
<1>3. WaitedForDH
  BY DEF WaitedForDH
<1>4. KeysExist
  BY DEF KeysExist
<1>5. LockOwned
  BY DEF LockOwned
<1>6. \A s \in Streams : ~HoldsLock(s)
  BY DEF HoldsLock
<1>7. HolderLocks
  BY <1>6 DEF HolderLocks
<1>8. OneHolder
  BY <1>6 DEF OneHolder
<1> QED BY <1>1, <1>2, <1>3, <1>4, <1>5, <1>7, <1>8 DEF ZrtpIInv

\* Every step of every stream preserves the invariant.
LEMMA ZrtpStepPreserves == ASSUME ZrtpIInv, NEW s \in Streams, Step(s) PROVE ZrtpIInv'
<1> USE ModesAssumption DEF ZrtpIInv
<1>1. CASE SeeDHFinished(s)
  <2> USE <1>1 DEF SeeDHFinished, Goto
  <2>0. s \in MSM /\ s \notin DH
    BY DEF DHNeverWaits, Streams
  <2>1. ZrtpTypeOK'
    BY DEF ZrtpTypeOK
  <2>2. DHNeverWaits'
    BY <2>0 DEF DHNeverWaits, ZrtpTypeOK, Streams
  <2>3. WaitedForDH'
    BY DEF WaitedForDH, ZrtpTypeOK, Streams
  <2>4. KeysExist'
    BY <2>0 DEF KeysExist, HasKeys, ZrtpTypeOK, Streams
  <2>5. \A t \in Streams : HoldsLock(t)' <=> HoldsLock(t)
    BY DEF HoldsLock, ZrtpTypeOK
  <2>6. LockOwned' /\ HolderLocks' /\ OneHolder'
    BY <2>5 DEF LockOwned, HolderLocks, OneHolder
  <2> QED BY <2>1, <2>2, <2>3, <2>4, <2>6
<1>2. CASE TryLock(s)
  <2> USE <1>2 DEF TryLock, Goto
  <2>0. s \in MSM /\ s \notin DH
    BY DEF DHNeverWaits, Streams
  <2>1. ZrtpTypeOK'
    BY DEF ZrtpTypeOK
  <2>2. DHNeverWaits'
    BY <2>0 DEF DHNeverWaits, ZrtpTypeOK, Streams
  <2>3. WaitedForDH'
    BY DEF WaitedForDH, ZrtpTypeOK, Streams
  <2>4. KeysExist'
    BY <2>0 DEF KeysExist, HasKeys, ZrtpTypeOK, Streams
  <2>5. HoldsLock(s)'
    BY <2>0 DEF HoldsLock, ZrtpTypeOK
  <2>6. LockOwned' /\ HolderLocks'
    BY <2>5 DEF LockOwned, HolderLocks
  <2>7. ASSUME ~stray PROVE \A t \in Streams : HoldsLock(t)' => t = s
    BY <2>7 DEF HolderLocks, HoldsLock, ZrtpTypeOK
  <2>8. OneHolder'
    BY <2>7 DEF OneHolder
  <2> QED BY <2>1, <2>2, <2>3, <2>4, <2>6, <2>8
<1>3. CASE GiveUp(s)
  <2>1. Returns(s, "TIMEOUT") /\ pc[s] \in {"wait_dh", "wait_lock"}
    BY <1>3 DEF GiveUp, Fail, Returns, UnlockZrtp, Goto
  <2> QED BY <2>1, ReturnsPreserve
<1>4. CASE Negotiate(s)
  <2> USE <1>4 DEF Negotiate, Goto
  <2>1. ZrtpTypeOK'
    BY DEF ZrtpTypeOK
  <2>2. DHNeverWaits'
    BY DEF DHNeverWaits, ZrtpTypeOK, Streams
  <2>3. WaitedForDH'
    BY DEF WaitedForDH, ZrtpTypeOK, Streams
  <2>4. KeysExist'
    <3>1. CASE s \in DH
      BY <3>1 DEF KeysExist, HasKeys, ZrtpTypeOK, Streams
    <3>2. CASE s \notin DH
      BY <3>2 DEF KeysExist, HasKeys, ZrtpTypeOK, Streams
    <3> QED BY <3>1, <3>2
  <2>5. \A t \in Streams : HoldsLock(t)' <=> HoldsLock(t)
    BY DEF HoldsLock, ZrtpTypeOK
  <2>6. LockOwned' /\ HolderLocks' /\ OneHolder'
    BY <2>5 DEF LockOwned, HolderLocks, OneHolder
  <2> QED BY <2>1, <2>2, <2>3, <2>4, <2>6
<1>5. CASE NegotiateFails(s)
  <2>1. Returns(s, "GENERIC_ERROR") /\ pc[s] = "negotiate"
    BY <1>5 DEF NegotiateFails, Fail, Returns, UnlockZrtp, Goto
  <2> QED BY <2>1, ReturnsPreserve
<1>6. CASE Finish(s)
  <2>1. Returns(s, "OK") /\ pc[s] = "unlock"
    BY <1>6 DEF Finish, Returns, UnlockZrtp, Goto
  <2> QED BY <2>1, ReturnsPreserve
<1> QED BY <1>1, <1>2, <1>3, <1>4, <1>5, <1>6 DEF Step

\* The strengthened invariant holds in every reachable state.
THEOREM ZrtpInductive == ZrtpSpec => []ZrtpIInv
<1>1. ZrtpInit => ZrtpIInv
  BY ZrtpInitEstablishes
<1>2. ZrtpIInv /\ [ZrtpNext]_zrtpVars => ZrtpIInv'
  <2> SUFFICES ASSUME ZrtpIInv, [ZrtpNext]_zrtpVars PROVE ZrtpIInv'
    OBVIOUS
  <2>1. CASE ZrtpNext
    BY <2>1, ZrtpStepPreserves DEF ZrtpNext
  <2>2. CASE UNCHANGED zrtpVars
    BY <2>2 DEF zrtpVars, ZrtpIInv, ZrtpTypeOK, DHNeverWaits, WaitedForDH, KeysExist, HasKeys,
                LockOwned, HolderLocks, OneHolder, HoldsLock
  <2> QED BY <2>1, <2>2
<1> QED BY <1>1, <1>2, PTL DEF ZrtpSpec

\* A start has a return value exactly when it has returned (start_zrtp).
THEOREM ZrtpTypeCorrect == ZrtpSpec => []ZrtpTypeOK
<1>1. ZrtpIInv => ZrtpTypeOK
  BY DEF ZrtpIInv
<1> QED BY <1>1, ZrtpInductive, PTL

\* No MSM stream negotiates or succeeds before a Diffie-Hellman stream has its
\* keys, in whatever order the streams start, fail and time out.
THEOREM KeysComeFirst == ZrtpSpec => []OnlyAfterDH
<1>1. ZrtpIInv => OnlyAfterDH
  BY DEF ZrtpIInv, OnlyAfterDH, Negotiating, WaitedForDH, KeysExist, HasKeys
<1> QED BY <1>1, ZrtpInductive, PTL

\* When every start has returned the lock of the zrtp object is open.
THEOREM NoLockLeaks == ZrtpSpec => []LockReleased
<1>1. ZrtpIInv => LockReleased
  BY DEF ZrtpIInv, LockReleased, LockOwned, HoldsLock
<1> QED BY <1>1, ZrtpInductive, PTL

\* Until a stream opens a lock it did not take, at most one MSM stream
\* negotiates at a time.
THEOREM ExclusiveUntilStray == ZrtpSpec => []OneMultistreamUntilStray
<1>1. ZrtpIInv => OneMultistreamUntilStray
  BY DEF ZrtpIInv, OneMultistreamUntilStray, OneMultistream, OneHolder, HoldsLock,
         Negotiating, Streams
<1> QED BY <1>1, ZrtpInductive, PTL
=============================================================================
