--------------------------------- MODULE Images ---------------------------------
(***************************************************************************)
(* Host photos: an upload is checked and cut to a thumbnail, both are put  *)
(* into R2 under keys made of the picture's hash, and the user's row is    *)
(* pointed at the thumbnail. R2 and D1 share no transaction, and a request *)
(* may break off between any two of these.                                 *)
(***************************************************************************)
EXTENDS FiniteSets

CONSTANTS
  Owners,     \* users with a photo
  Pictures,   \* what they upload
  Oversized,  \* too many bytes or pixels, or no header of an image type
  Corrupt,    \* a good header on what the decoder cannot read
  Uploads     \* requests that run at one time

ASSUME ImagesAssumption == Oversized \subseteq Pictures /\ Corrupt \subseteq Pictures

VARIABLES
  bucket,     \* the keys in R2
  avatarKey,  \* users.avatar_key, a set with the one key or none
  upload      \* the locals of each request

imageVars == <<bucket, avatarKey, upload>>

\* deriveBlobKey, thumbKeyFor: one picture, one pair of keys, whoever uploads it.
OriginalKey(p) == <<"original", p>>
ThumbKey(p) == <<"thumb", p>>

Waiting == [at |-> "idle"]
Doing(r, at) == upload[r].at = at
Step(r, at) == upload' = [upload EXCEPT ![r].at = at]
Ends(r) == upload' = [upload EXCEPT ![r] = Waiting]

ImagesInit ==
  /\ bucket = {}
  /\ avatarKey = [u \in Owners |-> {}]
  /\ upload = [r \in Uploads |-> Waiting]

\* readImageDimensions: the header's word, before a pixel is decoded.
Acceptable(p) == p \notin Oversized

Upload(r) ==
  /\ Doing(r, "idle")
  /\ \E u \in Owners, p \in Pictures :
       /\ Acceptable(p)
       /\ upload' = [upload EXCEPT ![r] = [at |-> "look", owner |-> u, picture |-> p]]
  /\ UNCHANGED <<bucket, avatarKey>>

\* Slip: it is the original that is looked for.
LookForOriginal(r) ==
  /\ Doing(r, "look")
  /\ Step(r, IF OriginalKey(upload[r].picture) \in bucket THEN "row" ELSE "resize")
  /\ UNCHANGED <<bucket, avatarKey>>

\* The thumbnail is written last: where it is, all is there.
LookForThumb(r) ==
  /\ Doing(r, "look")
  /\ Step(r, IF ThumbKey(upload[r].picture) \in bucket THEN "row" ELSE "resize")
  /\ UNCHANGED <<bucket, avatarKey>>

\* resizeToSquareThumbnail, then the original.
PutOriginal(r) ==
  /\ Doing(r, "resize")
  /\ IF upload[r].picture \in Corrupt
       THEN Ends(r) /\ UNCHANGED bucket
       ELSE Step(r, "thumb") /\ bucket' = bucket \cup {OriginalKey(upload[r].picture)}
  /\ UNCHANGED avatarKey

PutThumb(r) ==
  /\ Doing(r, "thumb")
  /\ bucket' = bucket \cup {ThumbKey(upload[r].picture)}
  /\ Step(r, "row")
  /\ UNCHANGED avatarKey

UpdateRow(r) ==
  /\ Doing(r, "row")
  /\ avatarKey' = [avatarKey EXCEPT ![upload[r].owner] = {ThumbKey(upload[r].picture)}]
  /\ Ends(r)
  /\ UNCHANGED bucket

\* The Worker is evicted, or a put or the update throws.
UploadBreaks(r) == ~Doing(r, "idle") /\ Ends(r) /\ UNCHANGED <<bucket, avatarKey>>

\* "The R2 object is left in place - it may be shared."
RemovePhoto(u) ==
  /\ avatarKey' = [avatarKey EXCEPT ![u] = {}]
  /\ UNCHANGED <<bucket, upload>>

ImagesNext ==
  \/ \E r \in Uploads :
       Upload(r) \/ LookForThumb(r) \/ PutOriginal(r) \/ PutThumb(r) \/ UpdateRow(r) \/ UploadBreaks(r)
  \/ \E u \in Owners : RemovePhoto(u)

ImagesSpec == ImagesInit /\ [][ImagesNext]_imageVars

-----------------------------------------------------------------------------
\* GET /avatars/:key: thumbnails, never an original.
Served == bucket \cap {ThumbKey(p) : p \in Pictures}

\* A user's page never points at a photo that is not served, or of which "the
\* original stays in R2" is untrue, wherever uploads of hers and of others with
\* the same picture broke off.
PhotosShow ==
  \A u \in Owners :
    /\ avatarKey[u] \subseteq Served
    /\ \A p \in Pictures : ThumbKey(p) \in avatarKey[u] => OriginalKey(p) \in bucket
=================================================================================
