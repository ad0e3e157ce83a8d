------------------------------ MODULE Uploads ------------------------------
(***************************************************************************)
(* Presigned uploads: the rebuilt API and its upload service (httpapi, the *)
(* gRPC client and handler, internal/upload, auth/jwt_verifier.go), and    *)
(* the presign routes of the legacy API (handler/routes.go, service/cos).  *)
(*                                                                         *)
(* A rebuilt request passes two processes, and each verifies its token and *)
(* converts its folder and chain; time passes in between.                  *)
(*                                                                         *)
(* A token is what its verification looks at.  A URL is the key it lets    *)
(* its holder write, without the random file name, and when it ends.  One  *)
(* request is followed: requests share nothing but the clock.              *)
(***************************************************************************)
EXTENDS Integers

CONSTANTS
    Chains,         \* chain ids a client asks for
    MaxChain,       \* the largest int32
    DefaultChain,   \* 97
    MediaTypes,     \* values of mimeType
    UrlLifetime,    \* one hour
    MaxUploadTime   \* bound: clock ticks

Folders == {"token-logo", "token-banner", "activity-image"}
Kinds == {"TOKEN_LOGO", "TOKEN_BANNER", "ACTIVITY_IMAGE"}
Jpeg == {"jpg", "jpeg", "image/jpeg"}
Gif == {"gif", "image/gif"}
Webp == {"webp", "image/webp"}
Svg == {"svg", "image/svg+xml"}

ASSUME UploadsAssumption ==
    /\ Chains \subseteq Int
    /\ MaxChain \in Nat /\ DefaultChain \in 1 .. MaxChain
    /\ UrlLifetime \in Nat /\ MaxUploadTime \in Nat

VARIABLES
    uploadTime,     \* the clock of the processes
    upload,         \* the request being served
    url             \* the URL it was answered, as a set of at most one

uploadVars == <<uploadTime, upload, url>>

\* expires is 0 in a token without an expiry; ours says that the issuer's key
\* of that algorithm signed it.
Token == [algorithm : {"EdDSA", "HS256"}, ours : BOOLEAN, expires : 0 .. MaxUploadTime]
WantedChain == [given : {"nothing", "text", "number"}, value : Chains]

Upload == [at : {"sent", "signed"}, folder : Folders, kind : Kinds, media : MediaTypes,
           wanted : WantedChain, chain : Int, token : Token]

Url == [folder : Folders, chain : Int, extension : {".jpg", ".gif", ".webp", ".svg", ".png"},
        signed : Nat, ends : Nat]

-----------------------------------------------------------------------------

Unexpired(token) == token.expires # 0 => uploadTime < token.expires

\* JWTVerifier.ParseToken, behind bearerClaims of both rebuilt processes.
Verified(token) == token.algorithm = "EdDSA" /\ token.ours /\ Unexpired(token)

\* AuthMiddleware.Handle of the legacy API: a shared secret fits HMAC only.
LegacyAdmits(token) == token.algorithm = "HS256" /\ token.ours /\ Unexpired(token)

ImageKind(folder) ==
    CASE folder = "token-logo" -> "TOKEN_LOGO"
      [] folder = "token-banner" -> "TOKEN_BANNER"
      [] folder = "activity-image" -> "ACTIVITY_IMAGE"

ImageFolder(kind) ==
    CASE kind = "TOKEN_LOGO" -> "token-logo"
      [] kind = "TOKEN_BANNER" -> "token-banner"
      [] kind = "ACTIVITY_IMAGE" -> "activity-image"

\* extension and getExtFromMimeType: the defaults of the handlers are PNGs too.
Extension(media) ==
    CASE media \in Jpeg -> ".jpg"
      [] media \in Gif -> ".gif"
      [] media \in Webp -> ".webp"
      [] media \in Svg -> ".svg"
      [] OTHER -> ".png"

UploadInit ==
    /\ uploadTime = 1
    /\ upload = {}
    /\ url = {}

UploadTick ==
    /\ uploadTime < MaxUploadTime
    /\ uploadTime' = uploadTime + 1
    /\ UNCHANGED <<upload, url>>

-----------------------------------------------------------------------------
\* The rebuilt API.

\* presignImage: the chain a request without a bad one names.
ChainOf(wanted) == IF wanted.given = "nothing" THEN DefaultChain ELSE wanted.value

\* presignImage and UploadService.Presign of the client; every other request is
\* refused with 401 or 400 and changes nothing.
ApiSends(folder, media, wanted, token) ==
    /\ upload = {}
    /\ Verified(token)
    /\ wanted.given # "text"
    /\ ChainOf(wanted) \in 1 .. MaxChain
    /\ upload' = {[at |-> "sent", folder |-> folder, kind |-> ImageKind(folder), media |-> media,
                   wanted |-> wanted, chain |-> ChainOf(wanted), token |-> token]}
    /\ UNCHANGED <<uploadTime, url>>

\* Presign of the service.
Presigned(folder, request) ==
    {[folder |-> folder, chain |-> request.chain, extension |-> Extension(request.media),
      signed |-> uploadTime, ends |-> uploadTime + UrlLifetime]}

\* Mutant: the service trusts the API's verification.
ServiceSigns_Trusting ==
    \E request \in upload :
        /\ request.at = "sent"
        /\ upload' = {[request EXCEPT !.at = "signed"]}
        /\ url' = Presigned(ImageFolder(request.kind), request)
        /\ UNCHANGED uploadTime

\* PresignImage of the handler verifies the token again.
ServiceSigns ==
    \E request \in upload :
        /\ request.at = "sent"
        /\ Verified(request.token)
        /\ upload' = {[request EXCEPT !.at = "signed"]}
        /\ url' = Presigned(ImageFolder(request.kind), request)
        /\ UNCHANGED uploadTime

\* The service refuses, the call fails, or the client has its answer.
RequestEnds ==
    /\ upload # {}
    /\ upload' = {}
    /\ url' = {}
    /\ UNCHANGED uploadTime

-----------------------------------------------------------------------------
\* The legacy API.

\* Any number is a chain, and what is no number is the default.
LegacyChainOf(wanted) == IF wanted.given = "number" THEN wanted.value ELSE DefaultChain

\* The three presign handlers, with an object store configured; each passes
\* the folder of its route.
LegacySigns(folder, media, wanted, token) ==
    /\ upload = {}
    /\ LegacyAdmits(token)
    /\ LET request == [at |-> "signed", folder |-> folder, kind |-> ImageKind(folder),
                       media |-> media, wanted |-> wanted, chain |-> LegacyChainOf(wanted),
                       token |-> token]
       IN  /\ upload' = {request}
           /\ url' = Presigned(folder, request)
    /\ UNCHANGED uploadTime

UploadNext ==
    \/ UploadTick
    \/ \E folder \in Folders, media \in MediaTypes, wanted \in WantedChain, token \in Token :
          ApiSends(folder, media, wanted, token) \/ LegacySigns(folder, media, wanted, token)
    \/ ServiceSigns
    \/ RequestEnds

UploadSpec == UploadInit /\ [][UploadNext]_uploadVars

-----------------------------------------------------------------------------

UploadTypeOK ==
    /\ uploadTime \in Nat
    /\ upload \subseteq Upload
    /\ url \subseteq Url

\* A URL is only signed with a token of the issuer that was valid at that time,
\* ends an hour later, and writes below the folder of the route and the chain
\* that was asked for; the rebuilt services sign for an int32 chain only.
\* Code: folder and chain are converted twice, to and from the wire, and the
\* token is verified by two processes at two times.
SignedIsAllowed ==
    \A u \in url, request \in upload :
        /\ u.folder = request.folder
        /\ request.wanted.given = "number" => u.chain = request.wanted.value
        /\ request.token.ours
        /\ request.token.expires # 0 => u.signed < request.token.expires
        /\ u.ends = u.signed + UrlLifetime
        /\ request.token.algorithm = "EdDSA" => u.chain \in 1 .. MaxChain

=============================================================================
