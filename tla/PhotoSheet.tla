----------------------------- MODULE PhotoSheet -----------------------------
(***************************************************************************)
(* The sheet that a profile photo is chosen with: JoinusAlertViewController*)
(* over a host screen, the system's photo picker over the sheet, and the   *)
(* crop screen over both.                                                  *)
(*                                                                         *)
(* Two things happen later than they are asked for.  The Cancel button     *)
(* starts the animation that moves the panel out and dismisses after 0.2 s;*)
(* the album button shows the picker from a block on the main queue, after *)
(* the system's permission prompt the first time.  What the delayed        *)
(* dismiss(animated:) takes away is whatever the sheet presents by then,   *)
(* and the sheet itself if it presents nothing.                            *)
(*                                                                         *)
(* The panel takes no taps while it is animated, and none while something  *)
(* is above it or the prompt is up (UIKit).  The permission does not change*)
(* once given or refused: the system stops the app when it does.  Zooming  *)
(* and the arithmetic of the crop are left out.                            *)
(***************************************************************************)
CONSTANTS
  Photos,         \* the photos of the album
  DefaultPhoto,   \* defaultProfile_60x60
  NoPhoto         \* the empty UIImage() of a new MyInfoModel

ASSUME PhotoSheetAssumption ==
  /\ DefaultPhoto \notin Photos
  /\ NoPhoto \notin Photos \cup {DefaultPhoto}

Permissions == {"notDetermined", "authorized", "denied"}

VARIABLES
  level,        \* what is on top of the host screen
  panel,        \* the panel of the sheet is on screen
  dismissal,    \* the delayed dismissal of the sheet is due
  album,        \* the album was asked for: "no", at the "prompt", "queued"
  permission,   \* PHPhotoLibrary.authorizationStatus()
  raced,        \* history: the sheet was cancelled with the picker on its way
  photo,        \* MyInfoModel.myProfileImg
  shown         \* the photo in the view of the profile screen

sheetVars == <<level, panel, dismissal, album, permission, raced, photo, shown>>
stageVars == <<level, panel, dismissal, album, permission, raced>>

SheetTypeOK ==
  /\ level \in {"host", "sheet", "picker", "crop"}
  /\ panel \in BOOLEAN
  /\ dismissal \in BOOLEAN
  /\ album \in {"no", "prompt", "queued"}
  /\ permission \in Permissions
  /\ raced \in BOOLEAN
  /\ photo \in Photos \cup {DefaultPhoto, NoPhoto}
  /\ shown \in Photos \cup {DefaultPhoto}

SheetInit ==
  /\ level = "host"
  /\ panel = FALSE
  /\ dismissal = FALSE
  /\ album = "no"
  /\ permission \in Permissions
  /\ raced = FALSE
  /\ photo = NoPhoto
  /\ shown = DefaultPhoto

-----------------------------------------------------------------------------
(* The host presents the sheet, whose panel comes in when it has appeared. *)
PresentSheet ==
  /\ level = "host"
  /\ level' = "sheet"
  /\ panel' = TRUE
  /\ raced' = FALSE
  /\ UNCHANGED <<dismissal, album, permission, photo, shown>>

CanTapPanel == level = "sheet" /\ panel /\ album # "prompt"

(* Variant: the panel goes and nothing is dismissed.                       *)
DidTapCancelButtonPanelOnly ==
  /\ CanTapPanel
  /\ panel' = FALSE
  /\ raced' = (album = "queued")
  /\ UNCHANGED <<level, dismissal, album, permission, photo, shown>>
(* Cancel, or a tap beside the panel.                                      *)
DidTapCancelButton ==
  /\ CanTapPanel
  /\ panel' = FALSE
  /\ dismissal' = TRUE
  /\ raced' = (album = "queued")
  /\ UNCHANGED <<level, album, permission, photo, shown>>

(* The delayed block of dismissAnimation.                                  *)
DismissAnimation ==
  /\ dismissal
  /\ dismissal' = FALSE
  /\ level' = IF level \in {"picker", "crop"} THEN "sheet" ELSE "host"
  /\ UNCHANGED <<panel, album, permission, raced, photo, shown>>

(* The album: at once if the app may, not at all if it may not.            *)
DidTapSelectAlbumButton ==
  /\ CanTapPanel
  /\ permission # "denied"
  /\ album' = IF permission = "authorized" THEN "queued" ELSE "prompt"
  /\ UNCHANGED <<level, panel, dismissal, permission, raced, photo, shown>>

AnswerPrompt(status) ==
  /\ album = "prompt"
  /\ permission' = status
  /\ album' = IF status = "authorized" THEN "queued" ELSE "no"
  /\ UNCHANGED <<level, panel, dismissal, raced, photo, shown>>

(* The block of requestCollection.  A sheet that is gone presents nothing. *)
RequestCollection ==
  /\ album = "queued"
  /\ album' = "no"
  /\ level' = IF level = "sheet" THEN "picker" ELSE level
  /\ UNCHANGED <<panel, dismissal, permission, raced, photo, shown>>

-----------------------------------------------------------------------------
(* Variant: every sheet is bound.                                          *)
SelectProfileImageAlways(p, bound) ==
  /\ photo' = p
  /\ shown' = IF bound THEN p ELSE shown
(* An image for the view model of the sheet, which only hears of it when   *)
(* the host has bound it.                                                  *)
SelectProfileImage(p, bound) ==
  IF bound THEN photo' = p /\ shown' = p
           ELSE UNCHANGED <<photo, shown>>

(* The default image closes everything above the root.                     *)
DidTapChangeDefaultImageButton(bound) ==
  /\ CanTapPanel
  /\ SelectProfileImage(DefaultPhoto, bound)
  /\ level' = "host"
  /\ UNCHANGED <<panel, dismissal, album, permission, raced>>

(* The picker: Cancel (UIKit's default), or a photo, which goes to a crop  *)
(* screen presented by the sheet.                                          *)
ImagePickerControllerDidCancel ==
  /\ level = "picker"
  /\ level' = "sheet"
  /\ UNCHANGED <<panel, dismissal, album, permission, raced, photo, shown>>

DidFinishPicking ==
  /\ level = "picker"
  /\ level' = "crop"
  /\ UNCHANGED <<panel, dismissal, album, permission, raced, photo, shown>>

(* Back, or an image that cannot be encoded: the sheet is left open.       *)
CircleCropDidCancel ==
  /\ level = "crop"
  /\ level' = "sheet"
  /\ UNCHANGED <<panel, dismissal, album, permission, raced, photo, shown>>

CircleCropDidCropImage(p, bound) ==
  /\ level = "crop"
  /\ level' = "host"
  /\ SelectProfileImage(p, bound)
  /\ UNCHANGED <<panel, dismissal, album, permission, raced>>

SheetNext(bound) ==
  \/ DidTapCancelButton
  \/ DismissAnimation
  \/ DidTapSelectAlbumButton
  \/ \E status \in {"authorized", "denied"} : AnswerPrompt(status)
  \/ RequestCollection
  \/ DidTapChangeDefaultImageButton(bound)
  \/ ImagePickerControllerDidCancel
  \/ DidFinishPicking
  \/ CircleCropDidCancel
  \/ \E p \in Photos : CircleCropDidCropImage(p, bound)
=============================================================================
